-------------------------- MODULE TaskQueueProofs --------------------------
(***************************************************************************)
(* Proofs about TaskQueue for any number of workers, tasks and clients.    *)
(***************************************************************************)
EXTENDS TaskQueue, SequenceTheorems, TLAPS

-----------------------------------------------------------------------------
(* The operators the steps are built from *)

\* The recovery policy only ever parks, refuses or schedules a retry.
LEMMA DecideType ==
    ASSUME NEW count \in Nat, NEW max \in Nat, NEW attempted, NEW error,
           NEW available
    PROVE  decide(count, max, attempted, error, available) \in DECIDABLE_STATES
<1>1. \A a : strategy_decision(a) \in DECIDABLE_STATES
  BY DEF strategy_decision, DECIDABLE_STATES
<1>2. \A a : hint_rule(error, a) \in DECIDABLE_STATES
  BY <1>1 DEF hint_rule, DECIDABLE_STATES
<1> QED BY <1>1, <1>2 DEF decide, DECIDABLE_STATES

\* Recording an attempt stays within the bound and never loses one.
LEMMA RecordedType ==
    ASSUME NEW n \in 0 .. AttemptCap
    PROVE  Recorded(n) \in 0 .. AttemptCap /\ n <= Recorded(n)
BY BoundsAssumption DEF Recorded

\* A lease that counts down stays a lease.
LEMMA CountDownType ==
    ASSUME NEW n \in Leases
    PROVE  CountDown(n) \in Leases
BY BoundsAssumption DEF CountDown, Leases, Lapsed, NoLease

\* The record fail saves is a record whose history contains the old one.
LEMMA FailedRecordType ==
    ASSUME TypeOK, NEW w \in Workers, NEW error
    PROVE  /\ FailedRecord(w, error) \in TaskRecord
           /\ rec[w].attempts <= FailedRecord(w, error).attempts
           /\ rec[w].tried \subseteq FailedRecord(w, error).tried
           /\ rec[w].resume = FailedRecord(w, error).resume
<1> DEFINE r == rec[w]
           count == Recorded(r.attempts)
           tried == IF BlamedStrategy(w) = NoStrategy THEN r.tried
                    ELSE r.tried \cup {BlamedStrategy(w)}
           action == decide(count, MaxAttempts, tried, error, Strategies)
<1>1. r \in TaskRecord
  BY DEF TypeOK
<1>2. count \in 0 .. AttemptCap /\ r.attempts <= count
  BY <1>1, RecordedType DEF TaskRecord
<1>3. BlamedStrategy(w) # NoStrategy => BlamedStrategy(w) \in StrategyNames
  <2>1. SUFFICES ASSUME Strategies # << >>
                 PROVE  Strategies[1] \in StrategyNames
    BY DEF BlamedStrategy
  <2>2. Len(Strategies) \in Nat \ {0}
    BY <2>1, InputsAssumption, EmptySeq
  <2> QED BY <2>2 DEF StrategyNames
<1>4. tried \in SUBSET StrategyNames /\ r.tried \subseteq tried
  BY <1>1, <1>3 DEF TaskRecord
<1>5. action \in TaskState
  <2>1. count \in Nat /\ MaxAttempts \in Nat
    BY <1>2, BoundsAssumption
  <2>2. action \in DECIDABLE_STATES
    <3> HIDE DEF count, tried
    <3> QED BY <2>1, DecideType
  <2> QED BY <2>2 DEF DECIDABLE_STATES, TaskState
<1>6. NoLease \in Leases
  BY DEF Leases
<1>7. FailedRecord(w, error) =
        [r EXCEPT !.attempts = count, !.tried = tried, !.state = action,
                  !.lease = IF action = "retrying" THEN NoLease ELSE @]
  BY DEF FailedRecord
<1> HIDE DEF count, tried, action, r
<1>8. /\ FailedRecord(w, error) \in TaskRecord
      /\ r.attempts <= FailedRecord(w, error).attempts
      /\ r.tried \subseteq FailedRecord(w, error).tried
      /\ r.resume = FailedRecord(w, error).resume
  BY <1>1, <1>2, <1>4, <1>5, <1>6, <1>7 DEF TaskRecord
<1> QED BY <1>8 DEF r

-----------------------------------------------------------------------------
(* Type correctness *)

\* Saving any record as the last write of a unit of work is well typed.
LEMMA SaveType ==
    ASSUME TypeOK, NEW w \in Workers, NEW r \in TaskRecord, SaveAndFinish(w, r)
    PROVE  TypeOK'
<1>1. Blank \in TaskRecord
  BY BoundsAssumption
  DEF Blank, TaskRecord, NoRow, WorkKinds, Leases
<1>2. 0 \in 0 .. Timeout /\ "poll" \in Places
  BY BoundsAssumption DEF Places
<1> QED BY <1>1, <1>2 DEF TypeOK, SaveAndFinish, Release, Goto, Leave

\* Every step of the queue preserves the types.
LEMMA TypeOKStep == TypeOK /\ Placed /\ [Next]_vars => TypeOK'
<1> SUFFICES ASSUME TypeOK, Placed, [Next]_vars PROVE TypeOK'
  OBVIOUS
<1>a. Blank \in TaskRecord
  BY BoundsAssumption DEF Blank, TaskRecord, NoRow, WorkKinds, Leases
<1>b. NothingRead \in [Tasks -> {NotRead} \cup (0 .. AttemptCap)]
  BY DEF NothingRead
<1>c. 0 \in 0 .. Timeout /\ Timeout \in 0 .. Timeout
  BY BoundsAssumption
<1>d. NoLease \in Leases /\ LeaseTime \in Leases
  BY BoundsAssumption DEF Leases
<1>1. CASE UNCHANGED vars
  BY <1>1 DEF TypeOK, vars
<1>2. ASSUME NEW c \in Clients, NEW k \in Keys, EnqueueCheck(c, k) PROVE TypeOK'
  BY <1>2 DEF TypeOK, EnqueueCheck
<1>3. ASSUME NEW c \in Clients, EnqueueInsert(c) PROVE TypeOK'
  <2>1. PICK t \in Tasks, p \in Priorities, k \in Work :
          /\ row' = [row EXCEPT ![t] =
                       [Blank EXCEPT !.state = "pending", !.key = asking[c],
                                     !.work = k, !.priority = p]]
          /\ Arrive({t})
    BY <1>3 DEF EnqueueInsert
  <2>2. [Blank EXCEPT !.state = "pending", !.key = asking[c],
                      !.work = k, !.priority = p] \in TaskRecord
    BY <1>a, <2>1, InputsAssumption DEF TypeOK, TaskRecord, TaskState
  <2>3. row' \in [Tasks -> TaskRecord]
    BY <2>1, <2>2 DEF TypeOK
  <2>4. earlier' \in [Tasks -> SUBSET Tasks]
    BY <2>1 DEF TypeOK, Arrive
  <2> QED BY <1>3, <2>3, <2>4 DEF TypeOK, EnqueueInsert
<1>4. ASSUME NEW w \in Workers, ReclaimRead(w) PROVE TypeOK'
  <2>1. \A t \in Tasks : row[t].attempts \in 0 .. AttemptCap
    BY DEF TypeOK, TaskRecord
  <2>2. expired' \in [Workers -> [Tasks -> {NotRead} \cup (0 .. AttemptCap)]]
    BY <1>4, <2>1 DEF TypeOK, ReclaimRead
  <2>3. at' \in [Workers -> Places] /\ contested' \subseteq Tasks
    BY <1>4 DEF TypeOK, ReclaimRead, Goto, Places
  <2> QED BY <1>4, <2>2, <2>3 DEF TypeOK, ReclaimRead
<1>5. ASSUME NEW w \in Workers, ReclaimWrite(w) PROVE TypeOK'
  <2>1. ASSUME NEW t \in Tasks, expired[w][t] # NotRead
        PROVE  [row[t] EXCEPT !.state = "pending", !.lease = NoLease,
                              !.attempts = Recorded(expired[w][t])] \in TaskRecord
    <3>1. Recorded(expired[w][t]) \in 0 .. AttemptCap
      BY <2>1, RecordedType DEF TypeOK
    <3>2. row[t] \in TaskRecord
      BY DEF TypeOK
    <3> QED BY <1>d, <3>1, <3>2 DEF TaskRecord, TaskState
  <2>2. row' \in [Tasks -> TaskRecord]
    BY <1>5, <2>1 DEF TypeOK, ReclaimWrite
  <2>3. earlier' \in [Tasks -> SUBSET Tasks] /\ at' \in [Workers -> Places]
    BY <1>5 DEF TypeOK, ReclaimWrite, Arrive, Goto, Places
  <2> QED BY <1>5, <1>b, <2>2, <2>3 DEF TypeOK, ReclaimWrite
<1>6. ASSUME NEW w \in Workers, ClaimSelect(w) PROVE TypeOK'
  BY <1>6 DEF TypeOK, ClaimSelect, Goto, Places
<1>7. ASSUME NEW w \in Workers, NothingDue(w) PROVE TypeOK'
  BY <1>7 DEF TypeOK, NothingDue, Goto, Places
<1>8. ASSUME NEW w \in Workers, ClaimUpdate(w) PROVE TypeOK'
  <2>1. picked[w] \in Tasks
    BY <1>8 DEF TypeOK, Placed, ClaimUpdate
  <2>2. row[picked[w]] \in TaskRecord
    BY <2>1 DEF TypeOK
  <2> DEFINE claimed == [row[picked[w]] EXCEPT !.state = "running", !.lease = LeaseTime]
  <2>3. claimed \in TaskRecord
    BY <2>2, <1>d DEF TaskRecord, TaskState
  <2>4. row' = [row EXCEPT ![picked[w]] = claimed] /\ rec' = [rec EXCEPT ![w] = claimed]
    BY <1>8 DEF ClaimUpdate, Claimed
  <2> HIDE DEF claimed
  <2>5. row' \in [Tasks -> TaskRecord] /\ rec' \in [Workers -> TaskRecord]
    BY <2>3, <2>4 DEF TypeOK
  <2>6. earlier' \in [Tasks -> SUBSET Tasks] /\ at' \in [Workers -> Places]
    BY <1>8 DEF TypeOK, ClaimUpdate, Leave, Goto, Places
  <2>7. /\ holding' \in [Workers -> Tasks \cup {NoTask}]
        /\ picked' \in [Workers -> Tasks \cup {NoTask}]
        /\ budget' \in [Workers -> 0 .. Timeout]
    BY <1>8, <1>c, <2>1 DEF TypeOK, ClaimUpdate
  <2> QED BY <1>8, <2>5, <2>6, <2>7 DEF TypeOK, ClaimUpdate
<1>9. ASSUME NEW w \in Workers, ClaimLost(w) PROVE TypeOK'
  BY <1>9 DEF TypeOK, ClaimLost, Goto, Places
<1>10. ASSUME NEW w \in Workers, Unhandled(w) \/ SaveBusy(w) PROVE TypeOK'
  <2>1. /\ Release(w)
        /\ UNCHANGED << row, earlier, asking, picked, expired, crashes, contested >>
    BY <1>10 DEF Unhandled, SaveBusy
  <2> QED BY <2>1, <1>a, <1>c DEF TypeOK, Release, Goto, Places
<1>11. ASSUME NEW w \in Workers, RejectPayload(w) PROVE TypeOK'
  <2>0. rec[w] \in TaskRecord
    BY DEF TypeOK
  <2>1. [rec[w] EXCEPT !.state = "failed"] \in TaskRecord
    BY <2>0 DEF TaskRecord, TaskState
  <2> QED BY <1>11, <2>1, SaveType DEF RejectPayload
<1>12. ASSUME NEW w \in Workers, Checkpoint(w) PROVE TypeOK'
  <2>1. rec[w] \in TaskRecord
    BY DEF TypeOK
  <2>2. rec[w].resume + 1 \in 0 .. MaxProgress
    BY <1>12, <2>1, BoundsAssumption DEF Checkpoint, TaskRecord
  <2>3. [rec[w] EXCEPT !.resume = @ + 1] \in TaskRecord
    BY <2>1, <2>2 DEF TaskRecord
  <2>4. rec' \in [Workers -> TaskRecord]
    BY <1>12, <2>3 DEF TypeOK, Checkpoint
  <2> QED BY <1>12, <2>4 DEF TypeOK, Checkpoint
<1>13. ASSUME NEW w \in Workers, Complete(w) PROVE TypeOK'
  <2>0. rec[w] \in TaskRecord
    BY DEF TypeOK
  <2>1. [rec[w] EXCEPT !.state = "succeeded"] \in TaskRecord
    BY <2>0 DEF TaskRecord, TaskState
  <2> QED BY <1>13, <2>1, SaveType DEF Complete
<1>14. ASSUME NEW w \in Workers, NEW error, Fail(w, error) PROVE TypeOK'
  BY <1>14, FailedRecordType, SaveType DEF Fail
<1>15. ASSUME NEW t \in Tasks, Requeue(t) \/ Block(t) PROVE TypeOK'
  <2>1. row[t] \in TaskRecord
    BY DEF TypeOK
  <2>2. /\ [row[t] EXCEPT !.state = "pending", !.lease = NoLease] \in TaskRecord
        /\ [row[t] EXCEPT !.state = "blocked"] \in TaskRecord
    BY <1>d, <2>1 DEF TaskRecord, TaskState
  <2>3. \/ row' = [row EXCEPT ![t] = [row[t] EXCEPT !.state = "pending", !.lease = NoLease]]
        \/ row' = [row EXCEPT ![t] = [row[t] EXCEPT !.state = "blocked"]]
    BY <1>15 DEF Requeue, Block, TypeOK
  <2>4. row' \in [Tasks -> TaskRecord]
    BY <2>2, <2>3 DEF TypeOK
  <2>5. earlier' \in [Tasks -> SUBSET Tasks]
    <3>1. CASE Requeue(t)
      BY <3>1 DEF TypeOK, Requeue, Arrive
    <3>2. CASE Block(t)
      BY <3>2 DEF TypeOK, Block, Leave
    <3> QED BY <1>15, <3>1, <3>2
  <2> QED BY <1>15, <2>4, <2>5 DEF TypeOK, Requeue, Block
<1>16. ASSUME NEW w \in Workers, Crash(w) PROVE TypeOK'
  BY <1>16, <1>a, <1>b, <1>c, BoundsAssumption DEF TypeOK, Crash, Release, Goto, Places
<1>17. ASSUME Tick PROVE TypeOK'
  <2>1. \A r \in TaskRecord : [r EXCEPT !.lease = CountDown(@)] \in TaskRecord
    BY CountDownType DEF TaskRecord
  <2>2. row' \in [Tasks -> TaskRecord] /\ rec' \in [Workers -> TaskRecord]
    BY <1>17, <2>1 DEF TypeOK, Tick
  <2>3. budget' \in [Workers -> 0 .. Timeout]
    BY <1>17, BoundsAssumption DEF TypeOK, Tick
  <2> QED BY <1>17, <2>2, <2>3 DEF TypeOK, Tick
<1> QED
  BY <1>1, <1>2, <1>3, <1>4, <1>5, <1>6, <1>7, <1>8, <1>9, <1>10, <1>11, <1>12,
     <1>13, <1>14, <1>15, <1>16, <1>17
  DEF Next, Poll, EndOfRun, HandlerRaises, TimedOut

\* The place of a worker keeps telling what it has in hand.
LEMMA PlacedStep == TypeOK /\ Placed /\ [Next]_vars => Placed'
<1> SUFFICES ASSUME TypeOK, Placed, [Next]_vars PROVE Placed'
  OBVIOUS
<1> USE DEF TypeOK, Placed, Goto, Release
<1>1. CASE UNCHANGED << at, holding, picked, expired >>
  BY <1>1
<1>2. ASSUME NEW w \in Workers, ReclaimRead(w) PROVE Placed'
  <2>1. ASSUME ~ \E t \in Tasks : row[t].state = "running" /\ row[t].lease = Lapsed
        PROVE  expired'[w] = NothingRead
    BY <1>2, <2>1 DEF ReclaimRead, NothingRead
  <2> QED BY <1>2, <2>1 DEF ReclaimRead
<1>3. ASSUME NEW w \in Workers, ReclaimWrite(w) PROVE Placed'
  BY <1>3 DEF ReclaimWrite
<1>4. ASSUME NEW w \in Workers, ClaimSelect(w) PROVE Placed'
  BY <1>4, NamesAssumption DEF ClaimSelect
<1>5. ASSUME NEW w \in Workers, NothingDue(w) PROVE Placed'
  BY <1>5 DEF NothingDue
<1>6. ASSUME NEW w \in Workers, ClaimUpdate(w) PROVE Placed'
  BY <1>6 DEF ClaimUpdate
<1>7. ASSUME NEW w \in Workers, ClaimLost(w) PROVE Placed'
  BY <1>7 DEF ClaimLost
<1>8. ASSUME NEW w \in Workers, Release(w), UNCHANGED << picked, expired >>,
             at[w] = "execute"
      PROVE  Placed'
  BY <1>8
<1>9. ASSUME NEW w \in Workers, EndOfRun(w) PROVE Placed'
  BY <1>9, <1>8
  DEF EndOfRun, Unhandled, RejectPayload, Complete, HandlerRaises, TimedOut,
      SaveBusy, Fail, SaveAndFinish, Executing
<1>10. ASSUME NEW w \in Workers, Checkpoint(w) PROVE Placed'
  BY <1>10 DEF Checkpoint
<1>11. ASSUME NEW w \in Workers, Crash(w) PROVE Placed'
  BY <1>11 DEF Crash
<1>12. ASSUME NEW c \in Clients, (\E k \in Keys : EnqueueCheck(c, k)) \/ EnqueueInsert(c)
       PROVE  Placed'
  BY <1>1, <1>12 DEF EnqueueCheck, EnqueueInsert
<1>13. ASSUME NEW t \in Tasks, Requeue(t) \/ Block(t) PROVE Placed'
  BY <1>1, <1>13 DEF Requeue, Block
<1>14. CASE Tick
  BY <1>1, <1>14 DEF Tick
<1>15. CASE UNCHANGED vars
  BY <1>1, <1>15 DEF vars
<1> QED
  BY <1>2, <1>3, <1>4, <1>5, <1>6, <1>7, <1>9, <1>10, <1>11, <1>12, <1>13, <1>14, <1>15
  DEF Next, Poll

-----------------------------------------------------------------------------
(* One claimant at a time *)

\* Nobody can have an uncontested task in hand unless its row says running.
LEMMA NoClaimant ==
    ASSUME SingleClaimant, NEW t \in Tasks \ contested, row[t].state # "running",
           NEW w \in Workers
    PROVE  holding[w] # t /\ expired[w][t] = NotRead
BY DEF SingleClaimant, Claimant

\* A step that takes nothing new in hand and leaves the rows that somebody has
\* in hand running preserves SingleClaimant.
LEMMA FrameStep ==
    ASSUME SingleClaimant, contested \subseteq contested',
           \A t \in Tasks \ contested : \A w \in Workers :
               Claimant(w, t)' => Claimant(w, t) /\ row'[t].state = row[t].state
    PROVE  SingleClaimant'
BY DEF SingleClaimant

\* Every step of the queue preserves SingleClaimant.
LEMMA SingleClaimantStep == QueueInv /\ [Next]_vars => SingleClaimant'
<1> SUFFICES ASSUME QueueInv, [Next]_vars PROVE SingleClaimant'
  OBVIOUS
<1> USE DEF QueueInv
<1>0. TypeOK' /\ Placed'
  BY TypeOKStep, PlacedStep
<1>1. CASE UNCHANGED << row, holding, expired, contested >>
  BY <1>1, FrameStep DEF Claimant
<1>2. ASSUME NEW c \in Clients, EnqueueInsert(c) PROVE SingleClaimant'
  <2>1. PICK t \in Tasks : /\ row[t].state = NoRow
                           /\ \A u \in Tasks \ {t} : row'[u] = row[u]
    BY <1>2 DEF EnqueueInsert, TypeOK
  <2>2. UNCHANGED << holding, expired, contested >>
    BY <1>2 DEF EnqueueInsert
  <2>3. row[t].state # "running"
    BY <2>1 DEF NoRow
  <2> QED BY <2>1, <2>2, <2>3, NoClaimant, FrameStep DEF Claimant
<1>3. ASSUME NEW w \in Workers, ReclaimRead(w) PROVE SingleClaimant'
  <2> DEFINE lapsed == {t \in Tasks : row[t].state = "running" /\ row[t].lease = Lapsed}
  <2>1. UNCHANGED << row, holding >>
    BY <1>3 DEF ReclaimRead
  <2>2. \A v \in Workers \ {w} : expired'[v] = expired[v]
    BY <1>3 DEF ReclaimRead, TypeOK
  <2>3. \A t \in Tasks : expired'[w][t] # NotRead => t \in lapsed
    BY <1>3 DEF ReclaimRead, TypeOK
  <2>4. \A t \in Tasks \ contested' : t \in lapsed =>
           \A v \in Workers : holding[v] # t /\ expired[v][t] = NotRead
    BY <1>3 DEF ReclaimRead
  <2>5. contested \subseteq contested'
    BY <1>3 DEF ReclaimRead
  <2>6. holding[w] = NoTask /\ \A t \in Tasks : holding[w] # t
    BY <1>3, NamesAssumption DEF ReclaimRead, Placed
  <2>7. SUFFICES ASSUME NEW t \in Tasks \ contested', NEW v \in Workers, Claimant(v, t)'
                 PROVE  /\ row[t].state = "running"
                        /\ \A u \in Workers : Claimant(u, t)' => u = v
    BY <2>1 DEF SingleClaimant
  <2>8. CASE t \in lapsed
    BY <2>1, <2>2, <2>4, <2>7, <2>8 DEF Claimant
  <2>9. CASE t \notin lapsed
    <3>1. \A u \in Workers : Claimant(u, t)' => Claimant(u, t)
      BY <2>1, <2>2, <2>3, <2>9 DEF Claimant
    <3> QED BY <2>5, <2>7, <3>1 DEF SingleClaimant
  <2> QED BY <2>8, <2>9
<1>4. ASSUME NEW w \in Workers, ReclaimWrite(w) PROVE SingleClaimant'
  <2>1. /\ UNCHANGED << holding, contested >>
        /\ expired'[w] = NothingRead
        /\ \A v \in Workers \ {w} : expired'[v] = expired[v]
        /\ \A t \in Tasks : expired[w][t] = NotRead => row'[t] = row[t]
        /\ at[w] = "reclaim"
    BY <1>4 DEF ReclaimWrite, TypeOK
  <2>2. \A t \in Tasks : holding[w] # t /\ expired'[w][t] = NotRead
    BY <2>1, NamesAssumption DEF Placed, NothingRead
  <2>3. ASSUME NEW t \in Tasks \ contested, NEW v \in Workers, Claimant(v, t)'
        PROVE  Claimant(v, t) /\ row'[t].state = row[t].state
    <3>1. v # w /\ Claimant(v, t)
      BY <2>1, <2>2, <2>3 DEF Claimant
    <3>2. expired[w][t] = NotRead
      BY <3>1 DEF SingleClaimant, Claimant
    <3> QED BY <2>1, <3>1, <3>2
  <2> QED BY <2>1, <2>3, FrameStep
<1>5. ASSUME NEW w \in Workers, ClaimUpdate(w) PROVE SingleClaimant'
  <2> DEFINE t == picked[w]
  <2>1. t \in Tasks
    BY <1>5 DEF ClaimUpdate, TypeOK, Placed
  <2>2. /\ UNCHANGED << expired, contested >>
        /\ row[t].state = "pending"
        /\ row'[t].state = "running"
        /\ \A u \in Tasks \ {t} : row'[u] = row[u]
        /\ holding' = [holding EXCEPT ![w] = t]
    BY <1>5, <2>1 DEF ClaimUpdate, Claimed, Pending, TypeOK, TaskRecord
  <2> HIDE DEF t
  <2>3. SUFFICES ASSUME NEW u \in Tasks \ contested, NEW v \in Workers, Claimant(v, u)'
                 PROVE  /\ row'[u].state = "running"
                        /\ \A x \in Workers : Claimant(x, u)' => x = v
    BY <2>2 DEF SingleClaimant
  <2>4. CASE u = t
    <3>1. \A x \in Workers : holding[x] # u /\ expired[x][u] = NotRead
      BY <2>2, <2>4, NoClaimant
    <3> QED BY <2>2, <2>3, <2>4, <3>1 DEF Claimant, TypeOK
  <2>5. CASE u # t
    <3>1. \A x \in Workers : Claimant(x, u)' => Claimant(x, u)
      BY <2>2, <2>5 DEF Claimant, TypeOK
    <3> QED BY <2>2, <2>3, <2>5, <3>1 DEF SingleClaimant
  <2> QED BY <2>4, <2>5
<1>6. ASSUME NEW w \in Workers, Release(w), UNCHANGED << expired, contested >>,
             at[w] = "execute",
             \A u \in Tasks \ {holding[w]} : row'[u] = row[u]
      PROVE  SingleClaimant'
  <2>1. \A t \in Tasks : holding'[w] # t /\ expired'[w][t] = NotRead
    BY <1>6, NamesAssumption DEF Release, Placed, NothingRead, TypeOK
  <2>2. \A v \in Workers \ {w} : holding'[v] = holding[v] /\ expired'[v] = expired[v]
    BY <1>6 DEF Release, TypeOK
  <2>3. ASSUME NEW t \in Tasks \ contested, NEW v \in Workers, Claimant(v, t)'
        PROVE  Claimant(v, t) /\ row'[t].state = row[t].state
    <3>1. v # w /\ Claimant(v, t)
      BY <2>1, <2>2, <2>3 DEF Claimant
    <3>2. holding[w] # t
      BY <3>1 DEF SingleClaimant, Claimant
    <3> QED BY <1>6, <3>1, <3>2
  <2> QED BY <1>6, <2>3, FrameStep
<1>7. ASSUME NEW w \in Workers, EndOfRun(w) PROVE SingleClaimant'
  <2>1. ASSUME NEW r, SaveAndFinish(w, r), at[w] = "execute" PROVE SingleClaimant'
    <3>1. \A u \in Tasks \ {holding[w]} : row'[u] = row[u]
      BY <2>1 DEF SaveAndFinish, TypeOK
    <3> QED BY <2>1, <3>1, <1>6 DEF SaveAndFinish
  <2> QED
    BY <1>6, <1>7, <2>1
    DEF EndOfRun, Unhandled, RejectPayload, Complete, HandlerRaises, TimedOut,
        SaveBusy, Fail, Executing
<1>8. ASSUME NEW w \in Workers, Crash(w) PROVE SingleClaimant'
  <2>1. \A v \in Workers, t \in Tasks : Claimant(v, t)' => Claimant(v, t)
    BY <1>8, NamesAssumption DEF Crash, Release, Claimant, NothingRead, TypeOK
  <2> QED BY <1>8, <2>1, FrameStep DEF Crash
<1>9. ASSUME NEW t \in Tasks, Requeue(t) \/ Block(t) PROVE SingleClaimant'
  <2>1. /\ row[t].state # "running"
        /\ \A u \in Tasks \ {t} : row'[u] = row[u]
        /\ UNCHANGED << holding, expired, contested >>
    BY <1>9 DEF Requeue, Block, TypeOK
  <2> QED BY <2>1, NoClaimant, FrameStep DEF Claimant
<1>10. CASE Tick
  <2>1. \A t \in Tasks : row'[t].state = row[t].state
    BY <1>10 DEF Tick, TypeOK, TaskRecord
  <2> QED BY <1>10, <2>1, FrameStep DEF Tick, Claimant
<1>11. CASE UNCHANGED vars
  BY <1>1, <1>11 DEF vars
<1>12. ASSUME NEW c \in Clients, NEW k \in Keys, EnqueueCheck(c, k) PROVE SingleClaimant'
  BY <1>1, <1>12 DEF EnqueueCheck
<1>13. ASSUME NEW w \in Workers,
              ClaimSelect(w) \/ NothingDue(w) \/ ClaimLost(w) \/ Checkpoint(w)
       PROVE  SingleClaimant'
  BY <1>1, <1>13 DEF ClaimSelect, NothingDue, ClaimLost, Checkpoint
<1> QED
  BY <1>2, <1>3, <1>4, <1>5, <1>7, <1>8, <1>9, <1>10, <1>11, <1>12, <1>13
  DEF Next, Poll

-----------------------------------------------------------------------------
(* The copies in hand are current *)

\* The part of a task's record that must only grow.
Covers(r, q) ==
    /\ q.attempts <= r.attempts
    /\ q.tried \subseteq r.tried
    /\ q.resume <= r.resume

\* A step that takes nothing new in hand and changes nothing that somebody has
\* in hand preserves CurrentCopies.
LEMMA CopiesFrame ==
    ASSUME CurrentCopies, contested \subseteq contested',
           \A t \in Tasks \ contested : \A w \in Workers :
             /\ holding'[w] = t =>
                  /\ holding[w] = t
                  /\ row'[t].attempts = row[t].attempts
                  /\ row'[t].tried = row[t].tried
                  /\ row'[t].resume = row[t].resume
                  /\ rec'[w].attempts = rec[w].attempts
                  /\ rec'[w].tried = rec[w].tried
                  /\ rec[w].resume = rec'[w].resume
             /\ expired'[w][t] # NotRead =>
                  /\ expired'[w][t] = expired[w][t]
                  /\ row'[t].attempts = row[t].attempts
    PROVE  CurrentCopies'
BY DEF CurrentCopies

\* Every step of the queue preserves CurrentCopies.
LEMMA CurrentCopiesStep == QueueInv /\ [Next]_vars => CurrentCopies'
<1> SUFFICES ASSUME QueueInv, [Next]_vars PROVE CurrentCopies'
  OBVIOUS
<1> USE DEF QueueInv
<1>1. CASE UNCHANGED << row, rec, holding, expired, contested >>
  BY <1>1, CopiesFrame
<1>2. ASSUME NEW t \in Tasks, row[t].state # "running",
             \A u \in Tasks \ {t} : row'[u] = row[u],
             UNCHANGED << rec, holding, expired, contested >>
      PROVE  CurrentCopies'
  BY <1>2, NoClaimant, CopiesFrame
<1>3. ASSUME NEW c \in Clients, EnqueueInsert(c) PROVE CurrentCopies'
  <2>1. PICK t \in Tasks : /\ row[t].state = NoRow
                           /\ \A u \in Tasks \ {t} : row'[u] = row[u]
    BY <1>3 DEF EnqueueInsert, TypeOK
  <2>2. row[t].state # "running"
    BY <2>1 DEF NoRow
  <2> QED BY <1>2, <1>3, <2>1, <2>2 DEF EnqueueInsert
<1>4. ASSUME NEW t \in Tasks, Requeue(t) \/ Block(t) PROVE CurrentCopies'
  <2>1. /\ row[t].state # "running"
        /\ \A u \in Tasks \ {t} : row'[u] = row[u]
        /\ UNCHANGED << rec, holding, expired, contested >>
    BY <1>4 DEF Requeue, Block, TypeOK
  <2> QED BY <1>2, <2>1
<1>5. ASSUME NEW w \in Workers, ReclaimRead(w) PROVE CurrentCopies'
  <2>1. /\ UNCHANGED << row, rec, holding >>
        /\ contested \subseteq contested'
        /\ \A v \in Workers \ {w} : expired'[v] = expired[v]
        /\ \A t \in Tasks : expired'[w][t] # NotRead => expired'[w][t] = row[t].attempts
    BY <1>5 DEF ReclaimRead, TypeOK
  <2>2. \A t \in Tasks : row[t].attempts \in Nat
    BY BoundsAssumption DEF TypeOK, TaskRecord
  <2> QED BY <2>1, <2>2 DEF CurrentCopies
<1>6. ASSUME NEW w \in Workers, ReclaimWrite(w) PROVE CurrentCopies'
  <2>1. /\ UNCHANGED << rec, holding, contested >>
        /\ expired'[w] = NothingRead
        /\ \A v \in Workers \ {w} : expired'[v] = expired[v]
        /\ \A t \in Tasks : expired[w][t] = NotRead => row'[t] = row[t]
        /\ at[w] = "reclaim"
    BY <1>6 DEF ReclaimWrite, TypeOK
  <2>2. \A t \in Tasks : holding[w] # t /\ expired'[w][t] = NotRead
    BY <2>1, NamesAssumption DEF Placed, NothingRead
  <2>3. ASSUME NEW t \in Tasks \ contested, NEW v \in Workers \ {w}, Claimant(v, t)
        PROVE  row'[t] = row[t]
    BY <2>1, <2>3 DEF SingleClaimant, Claimant
  <2> QED BY <2>1, <2>2, <2>3, CopiesFrame DEF Claimant
<1>7. ASSUME NEW w \in Workers, ClaimUpdate(w) PROVE CurrentCopies'
  <2> DEFINE t == picked[w]
  <2>1. t \in Tasks /\ row[t] \in TaskRecord
    BY <1>7 DEF ClaimUpdate, TypeOK, Placed
  <2>2. /\ UNCHANGED << expired, contested >>
        /\ row[t].state = "pending"
        /\ rec'[w] = row'[t]
        /\ \A v \in Workers \ {w} : rec'[v] = rec[v]
        /\ \A u \in Tasks \ {t} : row'[u] = row[u]
        /\ holding' = [holding EXCEPT ![w] = t]
    BY <1>7, <2>1 DEF ClaimUpdate, Pending, TypeOK
  <2>3. row'[t].attempts \in Nat /\ row'[t].resume \in Nat
    <3>1. TypeOK'
      BY TypeOKStep
    <3>2. row'[t] \in TaskRecord
      BY <2>1, <3>1 DEF TypeOK
    <3> QED BY <3>2, BoundsAssumption DEF TaskRecord
  <2>4. ASSUME t \notin contested, NEW v \in Workers
        PROVE  holding[v] # t /\ expired[v][t] = NotRead
    BY <2>1, <2>2, <2>4, NoClaimant
  <2> HIDE DEF t
  <2>5. SUFFICES ASSUME NEW u \in Tasks \ contested, NEW v \in Workers
                 PROVE  /\ holding'[v] = u => Covers(rec'[v], row'[u])
                        /\ expired[v][u] # NotRead => row'[u].attempts <= expired[v][u]
    BY <2>2 DEF CurrentCopies, Covers
  <2>6. CASE u = t
    BY <2>1, <2>2, <2>3, <2>4, <2>6 DEF Covers, TypeOK
  <2>7. CASE u # t
    BY <2>2, <2>7 DEF CurrentCopies, Covers, TypeOK
  <2> QED BY <2>6, <2>7
<1>8. ASSUME NEW w \in Workers, Release(w), UNCHANGED << expired, contested >>,
             at[w] = "execute",
             \A u \in Tasks \ {holding[w]} : row'[u] = row[u]
      PROVE  CurrentCopies'
  <2>1. \A t \in Tasks : holding'[w] # t /\ expired'[w][t] = NotRead
    BY <1>8, NamesAssumption DEF Release, Placed, NothingRead, TypeOK
  <2>2. \A v \in Workers \ {w} : holding'[v] = holding[v] /\ rec'[v] = rec[v]
    BY <1>8 DEF Release, TypeOK
  <2>3. ASSUME NEW t \in Tasks \ contested, NEW v \in Workers \ {w}, Claimant(v, t)
        PROVE  row'[t] = row[t]
    BY <1>8, <2>3 DEF SingleClaimant, Claimant
  <2> QED BY <1>8, <2>1, <2>2, <2>3, CopiesFrame DEF Claimant
<1>9. ASSUME NEW w \in Workers, EndOfRun(w) PROVE CurrentCopies'
  <2>1. ASSUME NEW r, SaveAndFinish(w, r), at[w] = "execute" PROVE CurrentCopies'
    <3>1. \A u \in Tasks \ {holding[w]} : row'[u] = row[u]
      BY <2>1 DEF SaveAndFinish, TypeOK
    <3> QED BY <2>1, <3>1, <1>8 DEF SaveAndFinish
  <2> QED
    BY <1>8, <1>9, <2>1
    DEF EndOfRun, Unhandled, RejectPayload, Complete, HandlerRaises, TimedOut,
        SaveBusy, Fail, Executing
<1>10. ASSUME NEW w \in Workers, Checkpoint(w) PROVE CurrentCopies'
  <2>1. /\ UNCHANGED << row, holding, expired, contested >>
        /\ \A v \in Workers \ {w} : rec'[v] = rec[v]
        /\ rec'[w].attempts = rec[w].attempts /\ rec'[w].tried = rec[w].tried
        /\ rec'[w].resume = rec[w].resume + 1
    BY <1>10 DEF Checkpoint, TypeOK, TaskRecord
  <2>2. rec[w].resume \in Nat /\ \A t \in Tasks : row[t].resume \in Nat
    BY BoundsAssumption DEF TypeOK, TaskRecord
  <2> QED BY <2>1, <2>2 DEF CurrentCopies
<1>11. ASSUME NEW w \in Workers, Crash(w) PROVE CurrentCopies'
  <2>1. /\ UNCHANGED << row, contested >>
        /\ \A v \in Workers \ {w} :
              rec'[v] = rec[v] /\ expired'[v] = expired[v] /\ holding'[v] = holding[v]
    BY <1>11 DEF Crash, Release, TypeOK
  <2>2. \A t \in Tasks : holding'[w] # t /\ expired'[w][t] = NotRead
    BY <1>11, NamesAssumption DEF Crash, Release, NothingRead, TypeOK
  <2> QED BY <2>1, <2>2, CopiesFrame
<1>12. CASE Tick
  <2>1. /\ UNCHANGED << holding, expired, contested >>
        /\ \A t \in Tasks : /\ row'[t].attempts = row[t].attempts
                            /\ row'[t].tried = row[t].tried
                            /\ row'[t].resume = row[t].resume
        /\ \A w \in Workers : /\ rec'[w].attempts = rec[w].attempts
                              /\ rec'[w].tried = rec[w].tried
                              /\ rec'[w].resume = rec[w].resume
    BY <1>12 DEF Tick, TypeOK, TaskRecord
  <2> QED BY <2>1, CopiesFrame
<1>13. ASSUME NEW w \in Workers, ClaimSelect(w) \/ NothingDue(w) \/ ClaimLost(w)
       PROVE  CurrentCopies'
  BY <1>1, <1>13 DEF ClaimSelect, NothingDue, ClaimLost
<1>14. ASSUME NEW c \in Clients, NEW k \in Keys, EnqueueCheck(c, k) PROVE CurrentCopies'
  BY <1>1, <1>14 DEF EnqueueCheck
<1>15. CASE UNCHANGED vars
  BY <1>1, <1>15 DEF vars
<1> QED
  BY <1>3, <1>4, <1>5, <1>6, <1>7, <1>9, <1>10, <1>11, <1>12, <1>13, <1>14, <1>15
  DEF Next, Poll

-----------------------------------------------------------------------------
(* The theorems *)

\* The empty queue satisfies the invariant.
LEMMA InitInv == Init => QueueInv
<1> SUFFICES ASSUME Init PROVE QueueInv
  OBVIOUS
<1>1. Blank \in TaskRecord
  BY BoundsAssumption DEF Blank, TaskRecord, NoRow, WorkKinds, Leases
<1>2. NothingRead \in [Tasks -> {NotRead} \cup (0 .. AttemptCap)]
  BY DEF NothingRead
<1>3. TypeOK
  BY <1>1, <1>2, BoundsAssumption DEF Init, TypeOK, Places
<1>4. Placed
  BY DEF Init, Placed
<1>5. \A w \in Workers, t \in Tasks : holding[w] # t /\ expired[w][t] = NotRead
  BY NamesAssumption DEF Init, NothingRead
<1> QED BY <1>3, <1>4, <1>5 DEF QueueInv, SingleClaimant, CurrentCopies, Claimant

\* Every step of the queue preserves the invariant.
LEMMA InvStep == QueueInv /\ [Next]_vars => QueueInv'
BY TypeOKStep, PlacedStep, SingleClaimantStep, CurrentCopiesStep DEF QueueInv

\* The inductive invariant of the queue holds in every reachable state: types,
\* control, one claimant per uncontested task, current copies.
THEOREM QueueInvariance == Spec => []QueueInv
BY InitInv, InvStep, PTL DEF Spec

\* Type correctness of TaskQueue.
THEOREM QueueTypeCorrect == Spec => []TypeOK
<1>1. QueueInv => TypeOK
  BY DEF QueueInv
<1> QED BY QueueInvariance, <1>1, PTL

\* claim_next and reclaim_expired_leases never give an uncontested task to two
\* workers.
THEOREM QueueExclusive == Spec => []SingleClaimant
<1>1. QueueInv => SingleClaimant
  BY DEF QueueInv
<1> QED BY QueueInvariance, <1>1, PTL

-----------------------------------------------------------------------------
(* What a step may not do to a task on record *)

\* The policy only retries what has attempts left.
LEMMA DecideBudget ==
    ASSUME NEW count \in Nat, NEW max \in Nat, NEW attempted, NEW error,
           NEW available,
           decide(count, max, attempted, error, available) = "retrying"
    PROVE  count < max
BY DEF decide

\* Every step keeps the tasks that wait for a retry within their budget.
LEMMA BudgetStep == QueueInv /\ RetryHasBudget /\ [Next]_vars => RetryHasBudget'
<1> SUFFICES ASSUME QueueInv, RetryHasBudget, [Next]_vars, NEW t \in Tasks,
                    row'[t].state = "retrying"
             PROVE  row'[t].attempts < MaxAttempts
  BY DEF RetryHasBudget
<1> USE DEF QueueInv
<1>0. row[t] \in TaskRecord
  BY DEF TypeOK
<1>1. ASSUME row'[t].state = row[t].state, row'[t].attempts = row[t].attempts
      PROVE  row'[t].attempts < MaxAttempts
  BY <1>1 DEF RetryHasBudget
<1>2. ASSUME NEW w \in Workers, NEW r \in TaskRecord, SaveAndFinish(w, r),
             r.state = "retrying" => r.attempts < MaxAttempts
      PROVE  row'[t].attempts < MaxAttempts
  BY <1>1, <1>2 DEF SaveAndFinish, TypeOK
<1>3. ASSUME NEW w \in Workers, EndOfRun(w) PROVE row'[t].attempts < MaxAttempts
  <2>1. rec[w] \in TaskRecord
    BY DEF TypeOK
  <2>2. ASSUME NEW s \in {"failed", "succeeded"}
        PROVE  /\ [rec[w] EXCEPT !.state = s] \in TaskRecord
               /\ [rec[w] EXCEPT !.state = s].state # "retrying"
    BY <2>1 DEF TaskRecord, TaskState
  <2>3. ASSUME NEW error, FailedRecord(w, error).state = "retrying"
        PROVE  FailedRecord(w, error).attempts < MaxAttempts
    <3> DEFINE count == Recorded(rec[w].attempts)
               tried == IF BlamedStrategy(w) = NoStrategy THEN rec[w].tried
                        ELSE rec[w].tried \cup {BlamedStrategy(w)}
    <3>1. count \in Nat /\ MaxAttempts \in Nat
      BY <2>1, RecordedType, BoundsAssumption DEF TaskRecord
    <3>2. /\ FailedRecord(w, error).attempts = count
          /\ FailedRecord(w, error).state = decide(count, MaxAttempts, tried, error, Strategies)
      BY <2>1 DEF FailedRecord, TaskRecord
    <3> HIDE DEF count, tried
    <3> QED BY <2>3, <3>1, <3>2, DecideBudget
  <2>4. CASE Unhandled(w) \/ SaveBusy(w)
    BY <1>1, <2>4 DEF Unhandled, SaveBusy
  <2>5. CASE RejectPayload(w) \/ Complete(w)
    BY <1>2, <2>2, <2>5 DEF RejectPayload, Complete
  <2>6. ASSUME NEW error, Fail(w, error) PROVE row'[t].attempts < MaxAttempts
    BY <1>2, <2>3, <2>6, FailedRecordType DEF Fail
  <2> QED BY <1>3, <2>4, <2>5, <2>6 DEF EndOfRun, HandlerRaises, TimedOut
<1>4. ASSUME NEW c \in Clients, EnqueueInsert(c) PROVE row'[t].attempts < MaxAttempts
  <2>1. PICK u \in Tasks : /\ row'[u].state = "pending"
                           /\ \A v \in Tasks \ {u} : row'[v] = row[v]
    BY <1>4 DEF EnqueueInsert, TypeOK, Blank
  <2> QED BY <1>1, <2>1
<1>5. ASSUME NEW w \in Workers, ReclaimWrite(w) PROVE row'[t].attempts < MaxAttempts
  BY <1>0, <1>1, <1>5 DEF ReclaimWrite, TaskRecord
<1>6. ASSUME NEW w \in Workers, ClaimUpdate(w) PROVE row'[t].attempts < MaxAttempts
  BY <1>0, <1>1, <1>6 DEF ClaimUpdate, Claimed, TypeOK, TaskRecord
<1>7. ASSUME NEW u \in Tasks, Requeue(u) \/ Block(u) PROVE row'[t].attempts < MaxAttempts
  <2>1. CASE u = t
    <3>1. row'[t].state \in {"pending", "blocked"}
      BY <1>0, <1>7, <2>1 DEF Requeue, Block, TypeOK, TaskRecord
    <3> QED BY <3>1
  <2>2. CASE u # t
    BY <1>1, <1>7, <2>2 DEF Requeue, Block, TypeOK
  <2> QED BY <2>1, <2>2
<1>8. CASE Tick
  BY <1>0, <1>1, <1>8 DEF Tick, TaskRecord
<1>9. ASSUME UNCHANGED row PROVE row'[t].attempts < MaxAttempts
  BY <1>1, <1>9
<1>10. CASE UNCHANGED vars
  BY <1>9, <1>10 DEF vars
<1>11. ASSUME NEW w \in Workers,
              \/ ReclaimRead(w) \/ ClaimSelect(w) \/ NothingDue(w)
              \/ ClaimLost(w) \/ Checkpoint(w) \/ Crash(w)
       PROVE  row'[t].attempts < MaxAttempts
  BY <1>9, <1>11 DEF ReclaimRead, ClaimSelect, NothingDue, ClaimLost, Checkpoint, Crash
<1>12. ASSUME NEW c \in Clients, NEW k \in Keys, EnqueueCheck(c, k)
       PROVE  row'[t].attempts < MaxAttempts
  BY <1>9, <1>12 DEF EnqueueCheck
<1> QED
  BY <1>3, <1>4, <1>5, <1>6, <1>7, <1>8, <1>10, <1>11, <1>12 DEF Next, Poll

\* A task that waits for a retry has attempts left: what fail decides after
\* counting the failed run, no reclaim, requeue or late save undoes.
THEOREM QueueBudget == Spec => []RetryHasBudget
<1>1. Init => RetryHasBudget
  BY DEF Init, RetryHasBudget, Blank, NoRow
<1> QED BY <1>1, BudgetStep, QueueInvariance, PTL DEF Spec

\* A step's write to the row of an uncontested task comes from a claimant,
\* keeps the history and does not touch a finished task.
LEMMA RowStep ==
    ASSUME QueueInv, [Next]_vars, NEW t \in Tasks \ contested'
    PROVE  /\ row[t].state \in TASK_TERMINAL_STATES => row'[t].state = row[t].state
           /\ row[t].state # NoRow => Covers(row'[t], row[t])
<1> USE DEF QueueInv
<1>0. row[t] \in TaskRecord /\ row[t].attempts \in Nat /\ row[t].resume \in Nat
  BY BoundsAssumption DEF TypeOK, TaskRecord
<1>1. ASSUME row'[t] = row[t]
      PROVE  /\ row[t].state \in TASK_TERMINAL_STATES => row'[t].state = row[t].state
             /\ Covers(row'[t], row[t])
  BY <1>0, <1>1 DEF Covers
<1> DEFINE Goal == /\ row[t].state \in TASK_TERMINAL_STATES => row'[t].state = row[t].state
                   /\ row[t].state # NoRow => Covers(row'[t], row[t])
<1>2. ASSUME NEW c \in Clients, EnqueueInsert(c) PROVE Goal
  <2>1. PICK u \in Tasks : /\ row[u].state = NoRow
                           /\ \A v \in Tasks \ {u} : row'[v] = row[v]
    BY <1>2 DEF EnqueueInsert, TypeOK
  <2> QED BY <1>1, <2>1 DEF NoRow, TASK_TERMINAL_STATES
<1>3. ASSUME NEW w \in Workers, ReclaimWrite(w) PROVE Goal
  <2>1. contested' = contested
    BY <1>3 DEF ReclaimWrite
  <2>2. CASE expired[w][t] # NotRead
    <3>1. row[t].state = "running"
      BY <2>1, <2>2 DEF SingleClaimant, Claimant
    <3>2. row[t].attempts <= expired[w][t] /\ expired[w][t] \in 0 .. AttemptCap
      BY <2>1, <2>2 DEF CurrentCopies, TypeOK
    <3>3. /\ row'[t].attempts = Recorded(expired[w][t])
          /\ row'[t].tried = row[t].tried /\ row'[t].resume = row[t].resume
      BY <1>3, <1>0, <2>2 DEF ReclaimWrite, TaskRecord
    <3>4. row[t].attempts <= row'[t].attempts
      BY <1>0, <3>2, <3>3, RecordedType, BoundsAssumption
    <3> QED BY <1>0, <3>1, <3>3, <3>4 DEF Covers, TASK_TERMINAL_STATES
  <2>3. CASE expired[w][t] = NotRead
    BY <1>1, <1>3, <2>3 DEF ReclaimWrite
  <2> QED BY <2>2, <2>3
<1>4. ASSUME NEW w \in Workers, ClaimUpdate(w) PROVE Goal
  <2>1. picked[w] \in Tasks
    BY <1>4 DEF ClaimUpdate, TypeOK, Placed
  <2>2. CASE picked[w] = t
    <3>1. /\ row[t].state = "pending"
          /\ row'[t] = [row[t] EXCEPT !.state = "running", !.lease = LeaseTime]
      BY <1>4, <2>2 DEF ClaimUpdate, Claimed, Pending, TypeOK
    <3> QED BY <1>0, <3>1 DEF Covers, TaskRecord, TASK_TERMINAL_STATES
  <2>3. CASE picked[w] # t
    BY <1>1, <1>4, <2>3 DEF ClaimUpdate, TypeOK
  <2> QED BY <2>2, <2>3
<1>5. ASSUME NEW w \in Workers, NEW r \in TaskRecord, SaveAndFinish(w, r),
             at[w] = "execute", Covers(r, rec[w])
      PROVE  Goal
  <2>1. contested' = contested
    BY <1>5 DEF SaveAndFinish
  <2>2. CASE holding[w] = t
    <3>1. row[t].state = "running"
      BY <2>1, <2>2 DEF SingleClaimant, Claimant
    <3>2. Covers(rec[w], row[t])
      BY <2>1, <2>2 DEF CurrentCopies, Covers
    <3>3. row'[t] = r
      BY <1>5, <2>2 DEF SaveAndFinish, TypeOK
    <3>4. /\ rec[w].attempts \in Nat /\ rec[w].resume \in Nat
          /\ r.attempts \in Nat /\ r.resume \in Nat
      BY <1>5, BoundsAssumption DEF TypeOK, TaskRecord
    <3> QED BY <1>0, <1>5, <3>1, <3>2, <3>3, <3>4 DEF Covers, TASK_TERMINAL_STATES
  <2>3. CASE holding[w] # t
    BY <1>1, <1>5, <2>3 DEF SaveAndFinish, TypeOK
  <2> QED BY <2>2, <2>3
<1>6. ASSUME NEW w \in Workers, EndOfRun(w) PROVE Goal
  <2>1. rec[w] \in TaskRecord /\ rec[w].attempts \in Nat /\ rec[w].resume \in Nat
    BY BoundsAssumption DEF TypeOK, TaskRecord
  <2>2. \A s \in {"failed", "succeeded"} :
          /\ [rec[w] EXCEPT !.state = s] \in TaskRecord
          /\ Covers([rec[w] EXCEPT !.state = s], rec[w])
    BY <2>1 DEF TaskRecord, TaskState, Covers
  <2>3. ASSUME NEW error
        PROVE  FailedRecord(w, error) \in TaskRecord /\ Covers(FailedRecord(w, error), rec[w])
    BY <2>1, FailedRecordType DEF Covers
  <2>4. CASE Unhandled(w) \/ SaveBusy(w)
    BY <1>1, <2>4 DEF Unhandled, SaveBusy
  <2>5. CASE RejectPayload(w) \/ Complete(w)
    BY <1>5, <2>2, <2>5 DEF RejectPayload, Complete, Executing
  <2>6. ASSUME NEW error, Fail(w, error) PROVE Goal
    BY <1>5, <2>3, <2>6 DEF Fail, Executing
  <2> QED BY <1>6, <2>4, <2>5, <2>6 DEF EndOfRun, HandlerRaises, TimedOut
<1>7. ASSUME NEW u \in Tasks, Requeue(u) \/ Block(u) PROVE Goal
  <2>1. CASE u = t
    <3>1. row[t].state \in {"blocked", "pending", "retrying"}
      BY <1>7, <2>1 DEF Requeue, Block
    <3>2. /\ row'[t].attempts = row[t].attempts
          /\ row'[t].tried = row[t].tried
          /\ row'[t].resume = row[t].resume
      BY <1>7, <1>0, <2>1 DEF Requeue, Block, TypeOK, TaskRecord
    <3> QED BY <1>0, <3>1, <3>2 DEF Covers, TASK_TERMINAL_STATES
  <2>2. CASE u # t
    BY <1>1, <1>7, <2>2 DEF Requeue, Block, TypeOK
  <2> QED BY <2>1, <2>2
<1>8. CASE Tick
  <2>1. row'[t] = [row[t] EXCEPT !.lease = CountDown(@)]
    BY <1>8 DEF Tick
  <2> QED BY <1>0, <2>1 DEF Covers, TaskRecord
<1>9. CASE UNCHANGED row
  BY <1>1, <1>9
<1>10. CASE UNCHANGED vars
  BY <1>9, <1>10 DEF vars
<1>11. ASSUME NEW w \in Workers,
              \/ ReclaimRead(w) \/ ClaimSelect(w) \/ NothingDue(w)
              \/ ClaimLost(w) \/ Checkpoint(w) \/ Crash(w)
       PROVE  Goal
  BY <1>9, <1>11 DEF ReclaimRead, ClaimSelect, NothingDue, ClaimLost, Checkpoint, Crash
<1>12. ASSUME NEW c \in Clients, NEW k \in Keys, EnqueueCheck(c, k) PROVE Goal
  BY <1>9, <1>12 DEF EnqueueCheck
<1> QED
  BY <1>2, <1>3, <1>4, <1>6, <1>7, <1>8, <1>10, <1>11, <1>12 DEF Next, Poll

\* No late save and no stale reclaim changes the outcome of an uncontested task.
THEOREM QueueFinality == Spec => FinishedStaysFinished
<1>1. QueueInv /\ [Next]_vars =>
        [\A t \in Tasks \ contested' :
            row[t].state \in TASK_TERMINAL_STATES => row'[t].state = row[t].state]_vars
  BY RowStep
<1> QED BY QueueInvariance, <1>1, PTL DEF Spec, FinishedStaysFinished

\* Whole-record saves never lose recorded attempts, burned strategies or
\* progress of an uncontested task.
THEOREM QueueHistory == Spec => HistoryOnlyGrows
<1>1. QueueInv /\ [Next]_vars =>
        [\A t \in Tasks \ contested' : row[t].state # NoRow =>
            /\ row[t].attempts <= row'[t].attempts
            /\ row[t].tried \subseteq row'[t].tried
            /\ row[t].resume <= row'[t].resume]_vars
  BY RowStep DEF Covers
<1> QED BY QueueInvariance, <1>1, PTL DEF Spec, HistoryOnlyGrows

-----------------------------------------------------------------------------
(* What the queue promises those who submit and run tasks *)

\* What a row's state is for them.
StageOf(state) ==
    IF state = NoRow THEN "absent"
    ELSE IF state \in {"pending", "running"} THEN state ELSE "over"

RowStage == [t \in Tasks |-> StageOf(row[t].state)]
ReadRows == [w \in Workers |-> {t \in Tasks : expired[w][t] # NotRead}]

Queue ==
    INSTANCE WorkerQueue WITH
        Reuse <- FALSE, stage <- RowStage, holds <- holding, read <- ReadRows

\* The queue without TaskQueue.requeue and TaskQueue.block, which no service calls.
Unattended == Next /\ ~ \E t \in Tasks : Requeue(t) \/ Block(t)

\* A step that writes one row changes the stage of one task.
LEMMA RowMaps ==
    ASSUME TypeOK, NEW t \in Tasks, NEW r, row' = [row EXCEPT ![t] = r]
    PROVE  RowStage' = [RowStage EXCEPT ![t] = StageOf(r.state)]
BY DEF TypeOK, RowStage

\* A step that leaves the states of all rows leaves the stages.
LEMMA StagesStay ==
    ASSUME \A t \in Tasks : row'[t].state = row[t].state
    PROVE  RowStage' = RowStage
BY DEF RowStage

\* A worker that is not between the two halves of a reclaim has read nothing.
LEMMA NothingIsRead ==
    ASSUME TypeOK, Placed, NEW w \in Workers, at[w] # "reclaim"
    PROVE  ReadRows[w] = {}
BY DEF TypeOK, Placed, ReadRows, NothingRead

\* The last save of a run is the worker's report.
LEMMA SaveMaps ==
    ASSUME TypeOK, Placed, NEW w \in Workers, NEW r, at[w] = "execute",
           SaveAndFinish(w, r), r.state \in {"succeeded", "failed", "blocked", "retrying"}
    PROVE  Queue!Report(w)
<1>1. holding[w] # NoTask /\ holding[w] \in Tasks
  BY DEF TypeOK, Placed
<1>2. row' = [row EXCEPT ![holding[w]] = r] /\ holding' = [holding EXCEPT ![w] = NoTask]
      /\ expired' = expired
  BY DEF SaveAndFinish, Release
<1>3. StageOf(r.state) = "over"
  BY DEF StageOf, NoRow
<1>4. RowStage' = [RowStage EXCEPT ![holding[w]] = "over"]
  <2>1. RowStage' = [RowStage EXCEPT ![holding[w]] = StageOf(r.state)]
    BY <1>1, <1>2, RowMaps
  <2> QED BY <1>3, <2>1
<1>5. ReadRows' = ReadRows
  BY <1>2 DEF ReadRows
<1> QED BY <1>1, <1>2, <1>4, <1>5 DEF Queue!Report

\* A worker whose unit of work ends without a save drops its task.
LEMMA ReleaseMaps ==
    ASSUME TypeOK, Placed, NEW w \in Workers, Release(w), UNCHANGED row,
           \/ at[w] # "reclaim" /\ expired' = expired
           \/ expired' = [expired EXCEPT ![w] = NothingRead]
    PROVE  Queue!Drop(w)
<1>1. RowStage' = RowStage
  BY DEF RowStage
<1>2. holding' = [holding EXCEPT ![w] = NoTask]
  BY DEF Release
<1>3. ReadRows' = [ReadRows EXCEPT ![w] = {}]
  <2>1. CASE at[w] # "reclaim" /\ expired' = expired
    <3>1. ReadRows' = ReadRows
      BY <2>1 DEF ReadRows
    <3>2. ReadRows[w] = {}
      BY <2>1, NothingIsRead
    <3> QED BY <3>1, <3>2 DEF ReadRows
  <2>2. CASE expired' = [expired EXCEPT ![w] = NothingRead]
    BY <2>2 DEF ReadRows, TypeOK, NothingRead
  <2> QED BY <2>1, <2>2
<1> QED BY <1>1, <1>2, <1>3 DEF Queue!Drop

\* A run ends with a report or is dropped.
LEMMA EndOfRunMaps ==
    ASSUME TypeOK, Placed, NEW w \in Workers, EndOfRun(w)
    PROVE  Queue!Report(w) \/ Queue!Drop(w)
<1>0. rec[w] \in TaskRecord
  BY DEF TypeOK
<1>1. CASE Unhandled(w) \/ SaveBusy(w)
  BY <1>1, ReleaseMaps DEF Unhandled, SaveBusy, Executing
<1>2. ASSUME NEW s \in {"succeeded", "failed"},
             SaveAndFinish(w, [rec[w] EXCEPT !.state = s]), at[w] = "execute"
      PROVE  Queue!Report(w)
  <2> DEFINE r == [rec[w] EXCEPT !.state = s]
  <2>1. r.state = s /\ SaveAndFinish(w, r)
    BY <1>0, <1>2 DEF TaskRecord
  <2> HIDE DEF r
  <2> QED BY <1>2, <2>1, SaveMaps
<1>3. CASE RejectPayload(w) \/ Complete(w)
  BY <1>2, <1>3 DEF RejectPayload, Complete, Executing
<1>4. ASSUME NEW error, Fail(w, error) PROVE Queue!Report(w)
  <2> DEFINE r == rec[w]
             count == Recorded(r.attempts)
             tried == IF BlamedStrategy(w) = NoStrategy THEN r.tried
                      ELSE r.tried \cup {BlamedStrategy(w)}
             action == decide(count, MaxAttempts, tried, error, Strategies)
  <2>1. count \in Nat /\ MaxAttempts \in Nat
    BY <1>0, RecordedType, BoundsAssumption DEF TaskRecord
  <2>2. action \in DECIDABLE_STATES
    <3> HIDE DEF count, tried
    <3> QED BY <2>1, DecideType
  <2>3. FailedRecord(w, error) =
          [r EXCEPT !.attempts = count, !.tried = tried, !.state = action,
                    !.lease = IF action = "retrying" THEN NoLease ELSE @]
    BY DEF FailedRecord
  <2> HIDE DEF count, tried, action
  <2>4. FailedRecord(w, error).state = action
    BY <1>0, <2>3 DEF TaskRecord
  <2> QED BY <1>4, <2>2, <2>4, SaveMaps DEF Fail, Executing, DECIDABLE_STATES
<1> QED BY <1>1, <1>3, <1>4 DEF EndOfRun, HandlerRaises, TimedOut

\* The SELECT of a reclaim finds running tasks.
LEMMA ReclaimReadMaps ==
    ASSUME TypeOK, Placed, NEW w \in Workers, ReclaimRead(w)
    PROVE  \E T \in SUBSET Tasks : Queue!Find(w, T)
<1> DEFINE lapsed == {t \in Tasks : row[t].state = "running" /\ row[t].lease = Lapsed}
<1>1. holding[w] = NoTask /\ ReadRows[w] = {}
  BY NothingIsRead DEF ReclaimRead, Placed
<1>2. expired' = [expired EXCEPT ![w] =
                    [t \in Tasks |-> IF t \in lapsed THEN row[t].attempts ELSE NotRead]]
      /\ UNCHANGED << row, holding >>
  BY DEF ReclaimRead
<1>3. \A t \in Tasks : row[t].attempts # NotRead
  BY DEF TypeOK, TaskRecord, NotRead
<1>4. ReadRows' = [ReadRows EXCEPT ![w] = lapsed]
  <2> HIDE DEF lapsed
  <2>1. lapsed \subseteq Tasks
    BY DEF lapsed
  <2>2. \A v \in Workers : {t \in Tasks : expired'[v][t] # NotRead}
                           = IF v = w THEN lapsed ELSE {t \in Tasks : expired[v][t] # NotRead}
    BY <1>2, <1>3, <2>1 DEF TypeOK
  <2> QED BY <2>2 DEF ReadRows
<1>5. \A t \in lapsed : RowStage[t] = "running"
  BY DEF RowStage, StageOf, NoRow
<1>6. RowStage' = RowStage
  BY <1>2 DEF RowStage
<1> HIDE DEF lapsed
<1>7. lapsed \in SUBSET Tasks
  BY DEF lapsed
<1> QED BY <1>1, <1>2, <1>4, <1>5, <1>6, <1>7 DEF Queue!Find, Queue!Free

\* Its commit returns what it found.
LEMMA ReclaimWriteMaps ==
    ASSUME TypeOK, NEW w \in Workers, ReclaimWrite(w)
    PROVE  Queue!Return(w)
<1>1. \A t \in Tasks : row'[t].state = IF t \in ReadRows[w] THEN "pending" ELSE row[t].state
  <2>1. ASSUME NEW t \in Tasks
        PROVE  row'[t].state = IF t \in ReadRows[w] THEN "pending" ELSE row[t].state
    <3>1. row[t] \in TaskRecord
      BY DEF TypeOK
    <3>2. row'[t] = IF t \in ReadRows[w]
                    THEN [row[t] EXCEPT !.state = "pending", !.lease = NoLease,
                                        !.attempts = Recorded(expired[w][t])]
                    ELSE row[t]
      BY DEF ReclaimWrite, ReadRows
    <3> QED BY <3>1, <3>2 DEF TaskRecord
  <2> QED BY <2>1
<1>2. RowStage' = [t \in Tasks |-> IF t \in ReadRows[w] THEN "pending" ELSE RowStage[t]]
  BY <1>1 DEF RowStage, StageOf, NoRow
<1>3. ReadRows' = [ReadRows EXCEPT ![w] = {}]
  BY DEF ReclaimWrite, ReadRows, TypeOK, NothingRead
<1>4. holding' = holding
  BY DEF ReclaimWrite
<1> QED BY <1>2, <1>3, <1>4 DEF Queue!Return

\* The conditional UPDATE of a claim takes a pending task.
LEMMA ClaimMaps ==
    ASSUME TypeOK, Placed, NEW w \in Workers, ClaimUpdate(w)
    PROVE  Queue!Take(w, picked[w])
<1>1. picked[w] \in Tasks /\ holding[w] = NoTask /\ ReadRows[w] = {}
  BY NothingIsRead DEF ClaimUpdate, TypeOK, Placed
<1>2. row[picked[w]] \in TaskRecord
  BY <1>1 DEF TypeOK
<1>3. /\ row' = [row EXCEPT ![picked[w]] = Claimed(row[picked[w]])]
      /\ holding' = [holding EXCEPT ![w] = picked[w]] /\ expired' = expired
      /\ row[picked[w]].state = "pending"
  BY DEF ClaimUpdate, Pending
<1>4. StageOf(Claimed(row[picked[w]]).state) = "running"
  BY <1>2 DEF Claimed, TaskRecord, StageOf, NoRow
<1>5. RowStage' = [RowStage EXCEPT ![picked[w]] = "running"]
  BY <1>1, <1>3, <1>4, RowMaps
<1>6. RowStage[picked[w]] = "pending"
  BY <1>1, <1>3 DEF RowStage, StageOf, NoRow
<1>7. ReadRows' = ReadRows
  BY <1>3 DEF ReadRows
<1> QED BY <1>1, <1>3, <1>5, <1>6, <1>7 DEF Queue!Take, Queue!Free

\* An insert submits a task.
LEMMA InsertMaps ==
    ASSUME TypeOK, NEW c \in Clients, EnqueueInsert(c)
    PROVE  \E t \in Tasks : Queue!Submit(t)
<1>1. PICK t \in Tasks, p \in Priorities, k \in Work :
        /\ row[t].state = NoRow
        /\ row' = [row EXCEPT ![t] = [Blank EXCEPT !.state = "pending", !.key = asking[c],
                                                   !.work = k, !.priority = p]]
  BY DEF EnqueueInsert
<1> DEFINE new == [Blank EXCEPT !.state = "pending", !.key = asking[c],
                                !.work = k, !.priority = p]
<1>2. new.state = "pending"
  BY DEF Blank
<1>3. RowStage' = [RowStage EXCEPT ![t] = "pending"] /\ RowStage[t] = "absent"
  <2> HIDE DEF new
  <2>1. row' = [row EXCEPT ![t] = new]
    BY <1>1 DEF new
  <2>2. RowStage' = [RowStage EXCEPT ![t] = StageOf(new.state)]
    BY <2>1, RowMaps
  <2>3. StageOf(new.state) = "pending"
    BY <1>2 DEF StageOf, NoRow
  <2>4. RowStage[t] = "absent"
    BY <1>1 DEF RowStage, StageOf
  <2> QED BY <2>2, <2>3, <2>4
<1> HIDE DEF new
<1>4. UNCHANGED << holding, ReadRows >>
  BY DEF EnqueueInsert, ReadRows
<1> QED BY <1>3, <1>4 DEF Queue!Submit

\* Every step of the queue is one of the steps it promises, or none of theirs.
LEMMA QueueMaps ==
    ASSUME QueueInv, [Unattended]_vars
    PROVE  [Queue!Next]_(Queue!vars)
<1>0. TypeOK /\ Placed
  BY DEF QueueInv
<1>1. ASSUME UNCHANGED << row, holding, expired >> PROVE UNCHANGED Queue!vars
  BY <1>1 DEF Queue!vars, RowStage, ReadRows
<1>2. CASE UNCHANGED vars
  BY <1>1, <1>2 DEF vars
<1>3. ASSUME NEW c \in Clients, NEW k \in Keys, EnqueueCheck(c, k)
      PROVE  UNCHANGED Queue!vars
  BY <1>1, <1>3 DEF EnqueueCheck
<1>4. ASSUME NEW c \in Clients, EnqueueInsert(c) PROVE Queue!Next
  BY <1>0, <1>4, InsertMaps DEF Queue!Next
<1>5. ASSUME NEW w \in Workers, ClaimSelect(w) \/ NothingDue(w) \/ ClaimLost(w) \/ Checkpoint(w)
      PROVE  UNCHANGED Queue!vars
  BY <1>1, <1>5 DEF ClaimSelect, NothingDue, ClaimLost, Checkpoint
<1>6. ASSUME NEW w \in Workers, ReclaimRead(w) PROVE Queue!Next
  BY <1>0, <1>6, ReclaimReadMaps DEF Queue!Next
<1>7. ASSUME NEW w \in Workers, ReclaimWrite(w) PROVE Queue!Next
  BY <1>0, <1>7, ReclaimWriteMaps DEF Queue!Next
<1>8. ASSUME NEW w \in Workers, ClaimUpdate(w) PROVE Queue!Next
  <2>1. picked[w] \in Tasks
    BY <1>0, <1>8 DEF ClaimUpdate, TypeOK, Placed
  <2> QED BY <1>0, <1>8, <2>1, ClaimMaps DEF Queue!Next
<1>9. ASSUME NEW w \in Workers, EndOfRun(w) PROVE Queue!Next
  BY <1>0, <1>9, EndOfRunMaps DEF Queue!Next
<1>10. ASSUME NEW w \in Workers, Crash(w) PROVE Queue!Next
  <2>1. Queue!Drop(w)
    BY <1>0, <1>10, ReleaseMaps DEF Crash
  <2> QED BY <2>1 DEF Queue!Next
<1>11. CASE Tick
  <2>1. \A t \in Tasks : row'[t].state = row[t].state
    BY <1>0, <1>11 DEF Tick, TypeOK, TaskRecord
  <2>2. RowStage' = RowStage
    BY <2>1, StagesStay
  <2>3. UNCHANGED << holding, ReadRows >>
    BY <1>11 DEF Tick, ReadRows
  <2> QED BY <2>2, <2>3 DEF Queue!vars
<1> QED
  BY <1>2, <1>3, <1>4, <1>5, <1>6, <1>7, <1>8, <1>9, <1>10, <1>11
  DEF Unattended, Next, Poll

\* The queue keeps what WorkerQueue promises, contested tasks included: a task
\* that succeeded, failed, was parked or waits for a retry is over for good,
\* but for a reclaim that read it while it was running.
THEOREM QueueImplementsWorkerQueue == Init /\ [][Unattended]_vars => Queue!Spec
<1>1. Init => Queue!Init
  BY DEF Init, Queue!Init, RowStage, ReadRows, StageOf, Blank, NothingRead
<1>2. [Unattended]_vars => [Next]_vars
  BY DEF Unattended
<1>3. QueueInv /\ [Unattended]_vars => [Queue!Next]_(Queue!vars)
  BY QueueMaps
<1> QED BY QueueInvariance, <1>1, <1>2, <1>3, PTL DEF Spec, Queue!Spec
=============================================================================
