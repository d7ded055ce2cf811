----------------------- MODULE AttemptWorkflowProofs -----------------------
(***************************************************************************)
(* Proofs about AttemptWorkflow for any number of workers, requests,       *)
(* attempts and tasks, and any number of crashes.                          *)
(***************************************************************************)
EXTENDS AttemptWorkflow, TLAPS

-----------------------------------------------------------------------------
(* The operators the steps are built from *)

\* Reconciling an attempt leaves the application in one of its states.
LEMMA ReconcileType ==
    ASSUME NEW s \in ApplicationState, NEW workflow
    PROVE  reconcile(s, workflow) \in ApplicationState
<1> DEFINE candidates == TerminalToApplication(workflow)
           legal == {i \in DOMAIN candidates : can_transition(s, candidates[i])}
           best == CHOOSE i \in legal : \A j \in legal : i <= j
<1>1. \A i \in DOMAIN candidates : i \in {1, 2} /\ candidates[i] \in ApplicationState
  BY DEF TerminalToApplication, ApplicationState
<1>2. ASSUME legal # {} PROVE best \in legal
  <2>1. \E i \in legal : \A j \in legal : i <= j
    <3>1. legal \subseteq {1, 2}
      BY <1>1
    <3> HIDE DEF legal, best, candidates
    <3>2. CASE 1 \in legal
      BY <3>1, <3>2
    <3>3. CASE 1 \notin legal
      <4>1. legal = {2}
        BY <1>2, <3>1, <3>3
      <4> QED BY <4>1
    <3> QED BY <3>2, <3>3
  <2> HIDE DEF legal
  <2> QED BY <2>1
<1>3. reconcile(s, workflow) = IF legal = {} THEN s ELSE candidates[best]
  BY DEF reconcile
<1> HIDE DEF best
<1>4. legal # {} => candidates[best] \in ApplicationState
  BY <1>1, <1>2
<1> QED BY <1>3, <1>4

\* Walking towards APPLYING leaves the application in one of its states.
LEMMA AdvanceType ==
    ASSUME NEW s \in ApplicationState
    PROVE  advance_to_applying(s) \in ApplicationState
<1> DEFINE Before(i) == IF i = 1 THEN s ELSE ApplyingPath[i - 1]
           legal == {n \in 0 .. Len(ApplyingPath) :
                       \A i \in 1 .. n : can_transition(Before(i), ApplyingPath[i])}
           hops == CHOOSE n \in legal : \A m \in legal : m <= n
<1>1. Len(ApplyingPath) = 4 /\ \A i \in 1 .. 4 : ApplyingPath[i] \in ApplicationState
  BY DEF ApplyingPath, ApplicationState
<1>2. 0 \in legal /\ legal \subseteq 0 .. 4
  BY <1>1
<1>3. hops \in legal
  <2> HIDE DEF legal
  <2>1. \E n \in legal : \A m \in legal : m <= n
    <3>1. CASE 4 \in legal
      BY <1>2, <3>1
    <3>2. CASE 4 \notin legal /\ 3 \in legal
      BY <1>2, <3>2
    <3>3. CASE 4 \notin legal /\ 3 \notin legal /\ 2 \in legal
      BY <1>2, <3>3
    <3>4. CASE 4 \notin legal /\ 3 \notin legal /\ 2 \notin legal
      BY <1>2, <3>4
    <3> QED BY <3>1, <3>2, <3>3, <3>4
  <2> QED BY <2>1
<1>4. advance_to_applying(s) =
        IF s = "applying" \/ hops = 0 THEN s ELSE ApplyingPath[hops]
  BY DEF advance_to_applying
<1> HIDE DEF hops
<1>5. hops # 0 => hops \in 1 .. 4
  BY <1>2, <1>3
<1> QED BY <1>1, <1>4, <1>5

\* Queuing a task leaves the rows that workers have in hand alone.
LEMMA EnqueueFrame ==
    ASSUME TypeOK, NEW a \in Attempts, Enqueue(a)
    PROVE  /\ task' \in [Tasks -> TaskRow]
           /\ \A t \in Tasks : \/ task'[t] = task[t]
                               \/ Unused(t) /\ task'[t] = Submitted(a)
<1>1. Submitted(a) \in TaskRow
  BY DEF Submitted, TaskRow
<1>2. CASE UNCHANGED task
  BY <1>2 DEF TypeOK
<1>3. CASE \E t \in Tasks : Unused(t) /\ task' = [task EXCEPT ![t] = Submitted(a)]
  BY <1>1, <1>3 DEF TypeOK
<1> QED BY <1>2, <1>3 DEF Enqueue

\* What a reclaim writes is the row it read, pending.
LEMMA ReclaimFrame ==
    ASSUME TypeOK, NEW w \in Workers, ReclaimWrite(w), run[w] \in Tasks
    PROVE  /\ task' \in [Tasks -> TaskRow]
           /\ \A t \in Tasks : task'[t].of = task[t].of /\ (t # run[w] => task'[t] = task[t])
           /\ task'[run[w]].state = "pending"
           /\ task'[run[w]].late = (task[run[w]].late \/ task[run[w]].state = "over")
<1> DEFINE old == task[run[w]]
           new == Reclaimed(old)
<1>1. task' = [task EXCEPT ![run[w]] = new]
  BY DEF ReclaimWrite
<1>2. old \in TaskRow
  BY DEF TypeOK
<1>3. /\ new \in TaskRow /\ new.of = old.of /\ new.state = "pending"
      /\ new.late = (old.late \/ old.state = "over")
  <2>1. old.late \in BOOLEAN /\ (old.late \/ old.state = "over") \in BOOLEAN
    BY <1>2 DEF TaskRow
  <2> QED BY <1>2, <2>1 DEF Reclaimed, TaskRow
<1> HIDE DEF new
<1> QED BY <1>1, <1>3 DEF TypeOK

\* A step that pauses leaves a record.
LEMMA PausedType ==
    ASSUME NEW r \in ApplicationAttempt, NEW item \in Interventions
    PROVE  /\ Paused(r, item) \in ApplicationAttempt
           /\ Paused(r, item).marked = r.marked
           /\ Paused(r, item).state # NoRow
BY DEF Paused, ApplicationAttempt, WorkflowState, NoRow

\* Resolving an intervention on a request's copy leaves a record.
LEMMA SettledType ==
    ASSUME NEW r \in Request, NEW s \in WorkflowState
    PROVE  /\ [Settled(r) EXCEPT !.state = s] \in ApplicationAttempt
           /\ [Settled(r) EXCEPT !.state = s].marked = r.copy.marked
           /\ [Settled(r) EXCEPT !.state = s].state = s
BY DEF Settled, Request, ApplicationAttempt

\* So does every state the code assigns to a record.
LEMMA SetStateType ==
    ASSUME NEW r \in ApplicationAttempt, NEW s \in WorkflowState
    PROVE  /\ [r EXCEPT !.state = s] \in ApplicationAttempt
           /\ [r EXCEPT !.state = s].marked = r.marked
           /\ [r EXCEPT !.state = s].state = s
BY DEF ApplicationAttempt

-----------------------------------------------------------------------------
(* Type correctness *)

\* A request that saves a record preserves the types.
LEMMA SaveCopyType ==
    ASSUME TypeOK, Existing, NEW c \in Clients, NEW r \in ApplicationAttempt,
           SaveCopy(c, r), task' \in [Tasks -> TaskRow], client' \in [Clients -> Request]
    PROVE  TypeOK'
<1>1. client[c].of \in Attempts
  BY DEF TypeOK, SaveCopy, Existing, Request
<1>2. raced' \subseteq Attempts
  BY <1>1 DEF TypeOK, SaveCopy
<1> QED BY <1>2 DEF TypeOK, SaveCopy

\* So does the save that ends a request.
LEMMA SaveRequestType ==
    ASSUME TypeOK, Existing, NEW c \in Clients, NEW r \in ApplicationAttempt,
           SaveRequest(c, r), task' \in [Tasks -> TaskRow]
    PROVE  TypeOK'
<1>1. Quiet \in Request
  BY DEF Quiet, Request, NoRecord, ApplicationAttempt, Interventions, ApplicationState, NoRow
<1>2. client' \in [Clients -> Request]
  BY <1>1 DEF SaveRequest, TypeOK
<1> QED BY <1>2, SaveCopyType DEF SaveRequest

\* A handler that proceeds with a record preserves the types it touches.
LEMMA ProceedType ==
    ASSUME TypeOK, NEW w \in Workers, NEW p \in Places, NEW r \in ApplicationAttempt,
           Proceed(w, p, r), attempt' \in [Attempts -> ApplicationAttempt],
           txn' \in Workers \cup {NoWorker}, clicks' \in [Attempts -> 0 .. ClickCap]
    PROVE  TypeOK'
BY DEF TypeOK, Proceed

\* A handler that ends preserves the types it touches.
LEMMA LetGoType ==
    ASSUME TypeOK, NEW w \in Workers, LetGo(w),
           UNCHANGED << app, attempt, client, clicks, raced >>,
           crashes' \in 0 .. MaxCrashes, task' \in [Tasks -> TaskRow]
    PROVE  TypeOK'
<1>1. NoRecord \in ApplicationAttempt
  BY DEF NoRecord, ApplicationAttempt, NoRow
<1> QED BY <1>1 DEF TypeOK, LetGo, Places

\* A worker that is not idle works on an attempt that exists.
LEMMA OfType ==
    ASSUME TypeOK, Held, NEW w \in Workers, at[w] # "idle"
    PROVE  run[w] \in Tasks /\ Of(w) \in Attempts /\ attempt[Of(w)].state # NoRow
BY DEF TypeOK, Held, Of, TaskRow

\* Every step preserves the types.
LEMMA TypeOKStep == TypeOK /\ Held /\ Existing /\ [Next]_vars => TypeOK'
<1> SUFFICES ASSUME TypeOK, Held, Existing, [Next]_vars PROVE TypeOK'
  OBVIOUS
<1>a. Quiet \in Request
  BY DEF Quiet, Request, NoRecord, ApplicationAttempt, Interventions, ApplicationState, NoRow
<1>b. \A w \in Workers : mem[w] \in ApplicationAttempt
  BY DEF TypeOK
<1>c. \A c \in Clients : client[c] \in Request /\ client[c].copy \in ApplicationAttempt
  BY DEF TypeOK, Request
<1>1. CASE UNCHANGED vars
  BY <1>1 DEF TypeOK, vars
<1>2. ASSUME NEW c \in Clients, StartCheck(c) PROVE TypeOK'
  <2>1. [Quiet EXCEPT !.doing = "start", !.saw = app] \in Request
    BY <1>a DEF TypeOK, Request
  <2> QED BY <1>2, <2>1 DEF TypeOK, StartCheck
<1>3. ASSUME NEW c \in Clients, StartInsert(c) PROVE TypeOK'
  <2>1. PICK a \in Attempts, m \in Modes, h \in Hosts :
          /\ attempt' = [attempt EXCEPT ![a] =
                           [NoRecord EXCEPT !.state = "pending", !.mode = m, !.host = h]]
          /\ Enqueue(a)
    BY <1>3 DEF StartInsert
  <2>2. [NoRecord EXCEPT !.state = "pending", !.mode = m, !.host = h] \in ApplicationAttempt
    BY AttemptInputs DEF NoRecord, ApplicationAttempt, WorkflowState
  <2>3. attempt' \in [Attempts -> ApplicationAttempt]
    BY <2>1, <2>2 DEF TypeOK
  <2>4. task' \in [Tasks -> TaskRow]
    BY <2>1, EnqueueFrame
  <2>5. app' \in ApplicationState
    BY <1>3, <1>c, AdvanceType DEF StartInsert, Request
  <2> QED BY <1>3, <1>a, <2>3, <2>4, <2>5 DEF TypeOK, StartInsert
<1>4. ASSUME NEW c \in Clients, NEW a \in Attempts, NEW item \in Interventions,
             ResolveRead(c, a, item)
      PROVE  TypeOK'
  <2>1. [Quiet EXCEPT !.doing = "resolve", !.of = a, !.item = item,
                      !.copy = attempt[a]] \in Request
    BY <1>a DEF TypeOK, Request
  <2> QED BY <1>4, <2>1 DEF TypeOK, ResolveRead
<1>5. ASSUME NEW c \in Clients, Abandon(c) PROVE TypeOK'
  BY <1>5, <1>a DEF TypeOK, Abandon
<1>6. ASSUME NEW c \in Clients, KeepControl(c) PROVE TypeOK'
  BY <1>6, <1>c, SetStateType, SaveRequestType DEF KeepControl, WorkflowState, TypeOK
<1>7. ASSUME NEW c \in Clients, Cancel(c) PROVE TypeOK'
  <2>1. [Settled(client[c]) EXCEPT !.state = "cancelled"] \in ApplicationAttempt
    BY <1>c, SettledType DEF WorkflowState, WORKFLOW_TERMINAL
  <2> QED BY <1>7, <2>1, SaveRequestType DEF Cancel, TypeOK
<1>8. ASSUME NEW c \in Clients, Resume(c) PROVE TypeOK'
  <2>1. [Settled(client[c]) EXCEPT !.state = "pending"] \in ApplicationAttempt
    BY <1>c, SettledType DEF WorkflowState
  <2>2. client[c].of \in Attempts
    BY <1>8, <1>c DEF Resume, SaveRequest, SaveCopy, Existing, Request
  <2>3. task' \in [Tasks -> TaskRow]
    BY <1>8, <2>2, EnqueueFrame DEF Resume
  <2> QED BY <1>8, <2>1, <2>3, SaveRequestType DEF Resume
<1>9. ASSUME NEW c \in Clients, ReclaimFails(c) \/ Activate(c) PROVE TypeOK'
  BY <1>9, <1>c, SaveRequestType DEF ReclaimFails, Activate, TypeOK
<1>b9. ASSUME NEW c \in Clients, ReclaimBinds(c) PROVE TypeOK'
  <2>1. client' \in [Clients -> Request]
    BY <1>b9 DEF ReclaimBinds, TypeOK, Request
  <2> QED BY <1>b9, <1>c, <2>1, SaveCopyType DEF ReclaimBinds, TypeOK
<1>10. ASSUME NEW w \in Workers, Claim(w) PROVE TypeOK'
  BY <1>10 DEF TypeOK, Claim, Places, TaskRow
<1>11. ASSUME NEW w \in Workers, Load(w) PROVE TypeOK'
  <2>1. Of(w) \in Attempts
    BY <1>11, OfType DEF Load
  <2> QED BY <1>11, <2>1 DEF TypeOK, Load, Places
<1>12. ASSUME NEW w \in Workers, Bind(w) PROVE TypeOK'
  <2>1. \A item \in Pauses : Paused(mem[w], item) \in ApplicationAttempt
    BY <1>b, PausedType, AttemptInputs DEF Interventions
  <2>2. at[w] = "bind"
    BY <1>12 DEF Bind, BindHosted, BindCreated, BindLocal, BindRefused
  <2>3. Of(w) \in Attempts
    BY <2>2, OfType
  <2>4. attempt' \in [Attempts -> ApplicationAttempt]
    BY <1>12, <1>b, <2>3 DEF TypeOK, Bind, BindHosted, BindCreated, BindLocal, BindRefused
  <2>5. txn' \in Workers \cup {NoWorker} /\ clicks' = clicks
    BY <1>12 DEF TypeOK, Bind, BindHosted, BindCreated, BindLocal, BindRefused
  <2>6. \E p \in Places, r \in ApplicationAttempt : Proceed(w, p, r)
    BY <1>12, <1>b, <2>1 DEF Bind, BindHosted, BindCreated, BindLocal, BindRefused, Places
  <2> QED BY <2>4, <2>5, <2>6, ProceedType DEF TypeOK
<1>13. ASSUME NEW w \in Workers, Drive(w) \/ Observe(w), ~ Mark(w) PROVE TypeOK'
  <2>1. \A item \in Interventions : Paused(mem[w], item) \in ApplicationAttempt
    BY <1>b, PausedType
  <2>2. \A s \in WorkflowState : [mem[w] EXCEPT !.state = s] \in ApplicationAttempt
    BY <1>b, SetStateType
  <2>3. Evidence(mem[w]) \subseteq ApplicationAttempt
    BY <2>1, <2>2 DEF Evidence, Interventions, WorkflowState, WORKFLOW_TERMINAL
  <2>4. UNCHANGED << attempt, txn, clicks >>
    BY <1>13 DEF Drive, Observe, NoDriver, PageNeedsHuman, VerifyOnly, NoSubmitControl,
                 FilledOnly
  <2>5. \E r \in ApplicationAttempt : Proceed(w, "save", r)
    <3>1. CASE PageNeedsHuman(w)
      BY <3>1, <2>1, AttemptInputs DEF PageNeedsHuman, Interventions
    <3>2. CASE ~ PageNeedsHuman(w)
      BY <1>13, <3>2, <2>2, <2>3
      DEF Drive, Observe, NoDriver, VerifyOnly, NoSubmitControl, FilledOnly,
          WorkflowState, WORKFLOW_TERMINAL
    <3> QED BY <3>1, <3>2
  <2> QED BY <2>4, <2>5, ProceedType DEF TypeOK, Places
<1>14. ASSUME NEW w \in Workers, Mark(w) PROVE TypeOK'
  <2> DEFINE marked == [mem[w] EXCEPT !.marked = TRUE, !.state = "running"]
  <2>1. marked \in ApplicationAttempt
    BY <1>b DEF ApplicationAttempt, WorkflowState
  <2>2. /\ attempt' = [attempt EXCEPT ![Of(w)] = marked]
        /\ txn' = NoWorker /\ clicks' = clicks
        /\ Proceed(w, "click", marked)
    BY <1>14 DEF Mark
  <2> HIDE DEF marked
  <2> QED BY <2>1, <2>2, ProceedType DEF TypeOK, Places
<1>15. ASSUME NEW w \in Workers, Click(w) PROVE TypeOK'
  <2>1. PICK landed \in {0, 1} :
          clicks' = [clicks EXCEPT ![Of(w)] = IF @ < ClickCap THEN @ + landed ELSE @]
    BY <1>15 DEF Click
  <2>2. \A n \in 0 .. ClickCap :
          (IF n < ClickCap THEN n + landed ELSE n) \in 0 .. ClickCap
    BY DEF ClickCap
  <2>3. Of(w) \in Attempts
    BY <1>15, OfType DEF Click
  <2>4. clicks' \in [Attempts -> 0 .. ClickCap]
    BY <2>1, <2>2, <2>3 DEF TypeOK
  <2> QED BY <1>15, <1>b, <2>4, ProceedType DEF TypeOK, Click, Places
<1>16. ASSUME NEW w \in Workers, Save(w) PROVE TypeOK'
  <2>1. attempt' \in [Attempts -> ApplicationAttempt]
    BY <1>16, <1>b DEF TypeOK, Save
  <2>2. app' \in ApplicationState
    BY <1>16, ReconcileType DEF TypeOK, Save
  <2> QED BY <1>16, <2>1, <2>2 DEF TypeOK, Save, Places
<1>17. ASSUME NEW w \in Workers, Report(w) \/ Raise(w) PROVE TypeOK'
  <2>1. task' \in [Tasks -> TaskRow]
    BY <1>17 DEF TypeOK, Report, Raise, TaskRow
  <2> QED BY <1>17, <2>1, LetGoType DEF TypeOK, Report, Raise
<1>18. ASSUME NEW w \in Workers, Crash(w) PROVE TypeOK'
  <2>1. crashes' \in 0 .. MaxCrashes
    BY <1>18, AttemptInputs DEF TypeOK, Crash
  <2> QED BY <1>18, <2>1, LetGoType DEF TypeOK, Crash
<1>19. ASSUME NEW w \in Workers, NEW t \in Tasks, ReclaimRead(w, t) PROVE TypeOK'
  BY <1>19 DEF TypeOK, ReclaimRead, Places
<1>20. ASSUME NEW w \in Workers, ReclaimWrite(w) PROVE TypeOK'
  <2>1. run[w] \in Tasks
    BY <1>20, OfType DEF ReclaimWrite
  <2>2. task' \in [Tasks -> TaskRow]
    BY <1>20, <2>1, ReclaimFrame
  <2> QED BY <1>20, <2>2, LetGoType DEF TypeOK, ReclaimWrite
<1> QED
  BY <1>1, <1>2, <1>3, <1>4, <1>5, <1>6, <1>7, <1>8, <1>9, <1>b9, <1>10, <1>11,
     <1>12, <1>13, <1>14, <1>15, <1>16, <1>17, <1>18, <1>19, <1>20
  DEF Next, Start, Resolve, Step

-----------------------------------------------------------------------------
(* Tasks and records that exist keep existing *)

\* What a step does to the attempt a busy worker has in hand: nothing, for its
\* task row is not reused, and a worker only starts to run one with Load.
LEMMA OfStep ==
    ASSUME TypeOK, Held, Existing, [Next]_vars, NEW w \in Workers, at'[w] # "idle",
           at[w] # "idle"
    PROVE  run'[w] = run[w] /\ Of(w)' = Of(w)
<1>1. run[w] \in Tasks /\ ~ Unused(run[w])
  BY DEF TypeOK, Held, Unused
<1>2. ASSUME NEW a \in Attempts, Enqueue(a) PROVE task'[run[w]] = task[run[w]]
  BY <1>1, <1>2, EnqueueFrame
<1>3. ASSUME run' = run, task'[run[w]].of = task[run[w]].of
      PROVE  run'[w] = run[w] /\ Of(w)' = Of(w)
  BY <1>3 DEF Of
<1>4. CASE UNCHANGED vars
  BY <1>3, <1>4 DEF vars
<1>5. ASSUME NEW c \in Clients, Start(c) \/ Resolve(c) \/ Abandon(c)
      PROVE  run' = run /\ task'[run[w]] = task[run[w]]
  <2>1. Resolving(c) => client[c].of \in Attempts
    BY DEF TypeOK, Existing, Request
  <2> QED
    BY <1>2, <1>5, <2>1
    DEF Start, StartCheck, StartInsert, Resolve, ResolveRead, Activate, KeepControl,
        Cancel, ReclaimBinds, Resume, ReclaimFails, Abandon, SaveRequest, SaveCopy
<1>6. ASSUME NEW v \in Workers, Step(v) \/ Raise(v) \/ Crash(v)
      PROVE  run'[w] = run[w] /\ task'[run[w]].of = task[run[w]].of
  <2>1. CASE Claim(v)
    BY <1>1, <2>1 DEF Claim, TypeOK, TaskRow
  <2>2. CASE Report(v) \/ Raise(v) \/ Crash(v)
    BY <1>1, <2>2 DEF Report, Raise, Crash, LetGo, TypeOK, TaskRow
  <2>4. CASE ReclaimWrite(v)
    <3>1. run[v] \in Tasks
      BY <2>4, OfType DEF ReclaimWrite
    <3>2. task'[run[w]].of = task[run[w]].of
      BY <1>1, <2>4, <3>1, ReclaimFrame
    <3> QED BY <2>4, <3>2 DEF ReclaimWrite, LetGo, TypeOK
  <2>3. CASE ~ Claim(v) /\ ~ Report(v) /\ ~ Raise(v) /\ ~ Crash(v) /\ ~ ReclaimWrite(v)
    BY <1>6, <2>3
    DEF Step, Load, Bind, BindHosted, BindCreated, BindLocal, BindRefused, Drive, NoDriver,
        PageNeedsHuman, VerifyOnly, NoSubmitControl, FilledOnly, Mark, Click,
        Observe, Save, Proceed
  <2> QED BY <2>1, <2>2, <2>3, <2>4
<1>7. ASSUME NEW v \in Workers, NEW t \in Tasks, ReclaimRead(v, t)
      PROVE  run'[w] = run[w] /\ task' = task
  BY <1>7 DEF ReclaimRead, TypeOK
<1> QED BY <1>3, <1>4, <1>5, <1>6, <1>7 DEF Next, Of

\* The records a handler or a request saves are of attempts that exist, so an
\* attempt that exists goes on existing.
LEMMA AttemptsStay ==
    ASSUME TypeOK, Held, Existing, [Next]_vars, NEW a \in Attempts,
           attempt[a].state # NoRow
    PROVE  attempt'[a].state # NoRow
<1> USE DEF NoRow
<1>1. CASE UNCHANGED attempt
  BY <1>1
<1>2. ASSUME NEW c \in Clients, NEW r \in ApplicationAttempt, SaveCopy(c, r),
             r.state # NoRow
      PROVE  attempt'[a].state # NoRow
  BY <1>2 DEF SaveCopy, TypeOK
<1>3. ASSUME NEW c \in Clients, Start(c) \/ Resolve(c) \/ Abandon(c)
      PROVE  attempt'[a].state # NoRow
  <2>0. client[c] \in Request /\ client[c].copy \in ApplicationAttempt
    BY DEF TypeOK, Request
  <2>1. CASE StartInsert(c)
    BY <2>1 DEF StartInsert, NoRecord, TypeOK
  <2>2. CASE KeepControl(c)
    <3>1. /\ [client[c].copy EXCEPT !.state = "waiting_for_human"] \in ApplicationAttempt
          /\ [client[c].copy EXCEPT !.state = "waiting_for_human"].state = "waiting_for_human"
      BY <2>0, SetStateType DEF WorkflowState
    <3> QED BY <1>2, <2>2, <3>1 DEF KeepControl, SaveRequest
  <2>3. CASE Cancel(c)
    <3>1. /\ [Settled(client[c]) EXCEPT !.state = "cancelled"] \in ApplicationAttempt
          /\ [Settled(client[c]) EXCEPT !.state = "cancelled"].state = "cancelled"
      BY <2>0, SettledType DEF WorkflowState, WORKFLOW_TERMINAL
    <3> QED BY <1>2, <2>3, <3>1 DEF Cancel, SaveRequest
  <2>4. CASE Resume(c)
    <3>1. /\ [Settled(client[c]) EXCEPT !.state = "pending"] \in ApplicationAttempt
          /\ [Settled(client[c]) EXCEPT !.state = "pending"].state = "pending"
      BY <2>0, SettledType DEF WorkflowState
    <3> QED BY <1>2, <2>4, <3>1 DEF Resume, SaveRequest
  <2>5. CASE ReclaimFails(c) \/ ReclaimBinds(c) \/ Activate(c)
    <3>1. SaveCopy(c, client[c].copy) /\ client[c].copy.state # NoRow
      BY <2>5 DEF ReclaimFails, ReclaimBinds, Activate, SaveRequest, SaveCopy, Existing
    <3> QED BY <1>2, <2>0, <3>1
  <2>6. CASE StartCheck(c) \/ Abandon(c)
              \/ \E b \in Attempts, item \in Interventions : ResolveRead(c, b, item)
    BY <1>1, <2>6 DEF StartCheck, Abandon, ResolveRead
  <2> QED BY <1>3, <2>1, <2>2, <2>3, <2>4, <2>5, <2>6 DEF Start, Resolve
<1>4. ASSUME NEW w \in Workers, NEW r, r.state # NoRow,
             attempt' = [attempt EXCEPT ![Of(w)] = r]
      PROVE  attempt'[a].state # NoRow
  BY <1>4 DEF TypeOK
<1>5. ASSUME NEW w \in Workers, Step(w) \/ Raise(w) \/ Crash(w)
      PROVE  attempt'[a].state # NoRow
  <2>1. CASE BindCreated(w) \/ Save(w)
    BY <1>4, <2>1 DEF BindCreated, Save, Existing, Running
  <2>2. CASE Mark(w)
    <3>1. [mem[w] EXCEPT !.marked = TRUE, !.state = "running"].state = "running"
      BY DEF TypeOK, ApplicationAttempt
    <3> QED BY <1>4, <2>2, <3>1 DEF Mark
  <2>3. CASE ~ BindCreated(w) /\ ~ Save(w) /\ ~ Mark(w)
    BY <1>1, <1>5, <2>3
    DEF Step, ReclaimWrite, Claim, Load, Bind, BindHosted, BindLocal, BindRefused, Drive,
        NoDriver, PageNeedsHuman, VerifyOnly, NoSubmitControl, FilledOnly, Click, Observe,
        Report, Raise, Crash
  <2> QED BY <2>1, <2>2, <2>3
<1>6. ASSUME NEW w \in Workers, NEW t \in Tasks, ReclaimRead(w, t)
      PROVE  attempt'[a].state # NoRow
  BY <1>1, <1>6 DEF ReclaimRead
<1> QED BY <1>1, <1>3, <1>5, <1>6 DEF Next, vars

\* Busy workers have a task in hand and task rows name attempts that exist.
LEMMA HeldStep == TypeOK /\ Held /\ Existing /\ [Next]_vars => Held'
<1> SUFFICES ASSUME TypeOK, Held, Existing, [Next]_vars PROVE Held'
  OBVIOUS
<1>1. \A a \in Attempts : attempt[a].state # NoRow => attempt'[a].state # NoRow
  BY AttemptsStay
<1>2. \A w \in Workers : at[w] # "idle" => run[w] \in Tasks
  BY OfType
\* It is enough to look at the task rows and at what workers have in hand.
<1>3. ASSUME \A t \in Tasks : task'[t].state # "absent" =>
               /\ task'[t].of \in Attempts
               /\ attempt'[task'[t].of].state # NoRow,
             \A w \in Workers : at'[w] # "idle" =>
               run'[w] \in Tasks /\ task'[run'[w]].state # "absent"
      PROVE  Held'
  BY <1>3, AttemptNames DEF Held
<1>4. \A t \in Tasks : task[t].state # "absent" =>
        task[t].of \in Attempts /\ attempt'[task[t].of].state # NoRow
  BY <1>1 DEF Held, TypeOK, TaskRow
<1>5. ASSUME task' = task,
             \A w \in Workers : at'[w] # "idle" => at[w] # "idle" /\ run'[w] = run[w]
      PROVE  Held'
  BY <1>3, <1>4, <1>5, <1>2 DEF Held
<1>6. ASSUME NEW a \in Attempts, Enqueue(a), attempt'[a].state # NoRow,
             UNCHANGED << at, run >>
      PROVE  Held'
  <2>1. \A t \in Tasks : task'[t] = task[t] \/ task'[t] = Submitted(a)
    BY <1>6, EnqueueFrame
  <2>2. \A t \in Tasks : task[t].state # "absent" => task'[t].state # "absent"
    BY <2>1 DEF Submitted
  <2> QED BY <1>2, <1>3, <1>4, <1>6, <2>1, <2>2 DEF Held, Submitted
<1>7. ASSUME NEW t \in Tasks, task[t].state # "absent",
             task'[t].of = task[t].of /\ task'[t].state # "absent",
             \A u \in Tasks : u # t => task'[u] = task[u],
             \A w \in Workers : at'[w] # "idle" =>
               run'[w] = t \/ (at[w] # "idle" /\ run'[w] = run[w])
      PROVE  Held'
  <2>1. \A u \in Tasks : task'[u].of = task[u].of /\
                         (task'[u].state # "absent" <=> task[u].state # "absent")
    BY <1>7
  <2> QED BY <1>2, <1>3, <1>4, <1>7, <2>1 DEF Held
<1>c. ASSUME NEW t \in Tasks, NEW s \in {"pending", "running", "over"},
             task' = [task EXCEPT ![t].state = s]
      PROVE  /\ task'[t].of = task[t].of /\ task'[t].state # "absent"
             /\ \A u \in Tasks : u # t => task'[u] = task[u]
  BY <1>c DEF TypeOK, TaskRow
<1>8. CASE UNCHANGED vars
  BY <1>5, <1>8 DEF vars
<1>9. ASSUME NEW c \in Clients, Start(c) \/ Resolve(c) \/ Abandon(c) PROVE Held'
  <2>1. CASE StartInsert(c)
    <3>1. PICK a \in Attempts : attempt'[a].state = "pending" /\ Enqueue(a)
      BY <2>1 DEF StartInsert, NoRecord, TypeOK
    <3> QED BY <1>6, <2>1, <3>1 DEF StartInsert, NoRow
  <2>2. CASE Resume(c)
    <3>1. client[c].of \in Attempts /\ client[c] \in Request
      BY <2>2 DEF Resume, SaveRequest, SaveCopy, TypeOK, Existing, Request
    <3>2. attempt'[client[c].of].state = "pending"
      BY <2>2, <3>1, SettledType
      DEF Resume, SaveRequest, SaveCopy, TypeOK, WorkflowState
    <3> QED BY <1>6, <2>2, <3>1, <3>2 DEF Resume, SaveRequest, SaveCopy, NoRow
  <2>3. CASE ~ StartInsert(c) /\ ~ Resume(c)
    <3>1. UNCHANGED << task, at, run >>
      BY <1>9, <2>3
      DEF Start, StartCheck, Resolve, ResolveRead, Activate, KeepControl, Cancel,
          ReclaimBinds, ReclaimFails, Abandon, SaveRequest, SaveCopy
    <3> QED BY <1>5, <3>1
  <2> QED BY <2>1, <2>2, <2>3
<1>10. ASSUME NEW w \in Workers, Step(w) \/ Raise(w) \/ Crash(w) PROVE Held'
  <2>1. CASE Claim(w)
    <3>1. PICK t \in Tasks : /\ task[t].state = "pending"
                             /\ task' = [task EXCEPT ![t].state = "running"]
                             /\ run' = [run EXCEPT ![w] = t]
      BY <2>1 DEF Claim
    <3>2. \A v \in Workers : at'[v] # "idle" =>
            run'[v] = t \/ (at[v] # "idle" /\ run'[v] = run[v])
      <4>1. at' = [at EXCEPT ![w] = "load"]
        BY <2>1 DEF Claim
      <4>2. DOMAIN at = Workers /\ DOMAIN run = Workers
        BY DEF TypeOK
      <4>3. ASSUME NEW v \in Workers, v # w PROVE at'[v] = at[v] /\ run'[v] = run[v]
        BY <3>1, <4>1, <4>2, <4>3
      <4>4. run'[w] = t
        BY <3>1, <4>2
      <4> QED BY <4>3, <4>4
    <3> QED BY <1>7, <1>c, <3>1, <3>2
  <2>2. CASE Report(w) \/ Raise(w) \/ ReclaimWrite(w)
    <3>1. at[w] # "idle"
      BY <2>2 DEF Report, Raise, Running, ReclaimWrite
    <3>2. run[w] \in Tasks /\ task[run[w]].state # "absent"
      BY <1>2, <3>1 DEF Held
    <3>3. /\ task'[run[w]].of = task[run[w]].of /\ task'[run[w]].state # "absent"
          /\ \A u \in Tasks : u # run[w] => task'[u] = task[u]
      <4>1. CASE Report(w) \/ Raise(w)
        BY <1>c, <3>2, <4>1 DEF Report, Raise
      <4>2. CASE ReclaimWrite(w)
        BY <3>2, <4>2, ReclaimFrame
      <4> QED BY <2>2, <4>1, <4>2
    <3>4. \A v \in Workers : at'[v] # "idle" => at[v] # "idle" /\ run'[v] = run[v]
      BY <2>2 DEF Report, Raise, ReclaimWrite, LetGo, TypeOK
    <3> QED BY <1>7, <3>2, <3>3, <3>4
  <2>3. CASE Crash(w)
    <3>1. \A v \in Workers : at'[v] # "idle" => at[v] # "idle" /\ run'[v] = run[v]
      BY <2>3 DEF Crash, LetGo, TypeOK
    <3> QED BY <1>5, <2>3, <3>1 DEF Crash
  <2>4. CASE ~ Claim(w) /\ ~ Report(w) /\ ~ Raise(w) /\ ~ Crash(w) /\ ~ ReclaimWrite(w)
    <3>1. at[w] # "idle" /\ task' = task /\ run' = run
          /\ \E p \in Places : at' = [at EXCEPT ![w] = p]
      BY <1>10, <2>4
      DEF Step, Load, Bind, BindHosted, BindCreated, BindLocal, BindRefused, Drive, NoDriver,
          PageNeedsHuman, VerifyOnly, NoSubmitControl, FilledOnly, Mark, Click,
          Observe, Save, Proceed, Places
    <3>2. \A v \in Workers : at'[v] # "idle" => at[v] # "idle" /\ run'[v] = run[v]
      BY <3>1 DEF TypeOK
    <3> QED BY <1>5, <3>1, <3>2
  <2> QED BY <2>1, <2>2, <2>3, <2>4
<1>11. ASSUME NEW w \in Workers, NEW t \in Tasks, ReclaimRead(w, t) PROVE Held'
  <2>1. task' = task /\ task[t].state # "absent"
    BY <1>11 DEF ReclaimRead
  <2>2. \A v \in Workers : at'[v] # "idle" =>
          run'[v] = t \/ (at[v] # "idle" /\ run'[v] = run[v])
    BY <1>11 DEF ReclaimRead, TypeOK
  <2> QED BY <1>7, <2>1, <2>2
<1> QED BY <1>8, <1>9, <1>10, <1>11 DEF Next

\* What the handler's own steps have in common: they go on with a record that
\* exists; only Mark changes the marker in it or leads to the click, and the
\* wait for the page begins with the click.
LEMMA HandlerGoesOn ==
    ASSUME TypeOK, Existing, NEW w \in Workers,
           Bind(w) \/ Drive(w) \/ Click(w) \/ Observe(w)
    PROVE  /\ at[w] \in {"bind", "drive", "click", "verify"}
           /\ \E p \in {"drive", "click", "verify", "save"}, r \in ApplicationAttempt :
                /\ Proceed(w, p, r)
                /\ r.state # NoRow
                /\ ~ Mark(w) => r.marked = mem[w].marked /\ p # "click"
                /\ p = "verify" => at[w] = "click"
<1> DEFINE GoesOn(p, r) == /\ Proceed(w, p, r)
                           /\ r.state # NoRow
                           /\ ~ Mark(w) => r.marked = mem[w].marked /\ p # "click"
                           /\ p = "verify" => at[w] = "click"
            Goal == \E p \in {"drive", "click", "verify", "save"}, r \in ApplicationAttempt :
                     GoesOn(p, r)
<1>1. mem[w] \in ApplicationAttempt
  BY DEF TypeOK
<1>2. at[w] \in {"bind", "drive", "click", "verify"}
  BY DEF Bind, BindHosted, BindCreated, BindLocal, BindRefused, Drive, NoDriver,
         PageNeedsHuman, VerifyOnly, NoSubmitControl, FilledOnly, Mark, Click, Observe
<1>3. mem[w].state # NoRow
  BY <1>2 DEF Existing, Running
<1>4. \A item \in Interventions :
        /\ Paused(mem[w], item) \in ApplicationAttempt
        /\ Paused(mem[w], item).marked = mem[w].marked
        /\ Paused(mem[w], item).state # NoRow
  BY <1>1, PausedType
<1>5. \A s \in WorkflowState :
        /\ [mem[w] EXCEPT !.state = s] \in ApplicationAttempt
        /\ [mem[w] EXCEPT !.state = s].marked = mem[w].marked
        /\ [mem[w] EXCEPT !.state = s].state # NoRow
  BY <1>1, SetStateType DEF NoRow, WorkflowState, WORKFLOW_TERMINAL
<1>6. \A r \in Evidence(mem[w]) :
        r \in ApplicationAttempt /\ r.marked = mem[w].marked /\ r.state # NoRow
  BY <1>4, <1>5 DEF Evidence, Interventions, WorkflowState, WORKFLOW_TERMINAL
<1>7. ASSUME NEW r \in ApplicationAttempt, r.marked = mem[w].marked, r.state # NoRow,
             Proceed(w, "save", r) \/ Proceed(w, "drive", r)
      PROVE  Goal
  BY <1>7
<1>8. CASE BindHosted(w) \/ BindCreated(w) \/ BindLocal(w)
  <2>1. Proceed(w, "drive", mem[w])
    BY <1>8 DEF BindHosted, BindCreated, BindLocal
  <2> QED BY <1>1, <1>2, <1>3, <1>7, <2>1
<1>9. CASE BindRefused(w) \/ PageNeedsHuman(w)
  <2>1. PICK item \in Interventions : Proceed(w, "save", Paused(mem[w], item))
    BY <1>9, AttemptInputs DEF BindRefused, PageNeedsHuman, Interventions
  <2> QED BY <1>2, <1>4, <1>7, <2>1
<1>10. CASE NoDriver(w) \/ NoSubmitControl(w) \/ FilledOnly(w)
  <2>1. PICK s \in WorkflowState : Proceed(w, "save", [mem[w] EXCEPT !.state = s])
    BY <1>10 DEF NoDriver, NoSubmitControl, FilledOnly, WorkflowState, WORKFLOW_TERMINAL
  <2> QED BY <1>2, <1>5, <1>7, <2>1
<1>11. CASE VerifyOnly(w) \/ Observe(w)
  <2>1. PICK r \in Evidence(mem[w]) \cup { [mem[w] EXCEPT !.state = "failed"] } :
          Proceed(w, "save", r)
    BY <1>11 DEF VerifyOnly, Observe
  <2>2. r \in ApplicationAttempt /\ r.marked = mem[w].marked /\ r.state # NoRow
    BY <1>5, <1>6, <2>1 DEF WorkflowState, WORKFLOW_TERMINAL
  <2> QED BY <1>2, <1>7, <2>1, <2>2
<1>12. CASE Mark(w)
  <2> DEFINE marked == [mem[w] EXCEPT !.marked = TRUE, !.state = "running"]
  <2>1. marked \in ApplicationAttempt /\ marked.state # NoRow
    BY <1>1 DEF ApplicationAttempt, WorkflowState, NoRow
  <2>2. Proceed(w, "click", marked)
    BY <1>12 DEF Mark
  <2> HIDE DEF marked
  <2> QED BY <1>2, <1>12, <2>1, <2>2
<1>13. CASE Click(w)
  <2>1. Proceed(w, "verify", mem[w]) /\ at[w] = "click"
    BY <1>13 DEF Click
  <2> QED BY <1>1, <1>3, <2>1
<1> QED
  BY <1>8, <1>9, <1>10, <1>11, <1>12, <1>13 DEF Bind, Drive

\* The copies in hand go on being copies of rows that exist.
LEMMA ExistingStep == TypeOK /\ Held /\ Existing /\ [Next]_vars => Existing'
<1> SUFFICES ASSUME TypeOK, Held, Existing, [Next]_vars PROVE Existing'
  OBVIOUS
<1>1. CASE UNCHANGED vars
  BY <1>1 DEF Existing, Resolving, Running, vars
<1>2. ASSUME NEW c \in Clients, NEW q, client' = [client EXCEPT ![c] = q],
             q.doing \in {"resolve", "reclaim"} => q.of # NoAttempt /\ q.copy.state # NoRow,
             UNCHANGED << at, mem >>
      PROVE  Existing'
  BY <1>2 DEF Existing, Resolving, Running, TypeOK
<1>3. ASSUME NEW c \in Clients, Start(c) \/ Resolve(c) \/ Abandon(c) PROVE Existing'
  <2>1. Quiet.doing \notin {"resolve", "reclaim"}
    BY DEF Quiet
  <2>2. CASE StartCheck(c)
    <3>1. [Quiet EXCEPT !.doing = "start", !.saw = app].doing \notin {"resolve", "reclaim"}
      BY DEF Quiet
    <3> QED BY <1>2, <2>2, <3>1 DEF StartCheck
  <2>3. ASSUME NEW a \in Attempts, NEW item \in Interventions, ResolveRead(c, a, item)
        PROVE  Existing'
    <3> DEFINE q == [Quiet EXCEPT !.doing = "resolve", !.of = a, !.item = item,
                                  !.copy = attempt[a]]
    <3>1. q.of # NoAttempt /\ q.copy.state # NoRow
      BY <2>3, AttemptNames DEF ResolveRead, Quiet
    <3>2. client' = [client EXCEPT ![c] = q] /\ UNCHANGED << at, mem >>
      BY <2>3 DEF ResolveRead
    <3> HIDE DEF q
    <3> QED BY <1>2, <3>1, <3>2
  <2>4. CASE ReclaimBinds(c)
    <3> DEFINE q == [client[c] EXCEPT !.doing = "reclaim"]
    <3>1. q.of # NoAttempt /\ q.copy.state # NoRow
      BY <2>4 DEF ReclaimBinds, Existing, Resolving, TypeOK, Request
    <3>2. client' = [client EXCEPT ![c] = q] /\ UNCHANGED << at, mem >>
      BY <2>4 DEF ReclaimBinds, SaveCopy, TypeOK
    <3> HIDE DEF q
    <3> QED BY <1>2, <3>1, <3>2
  <2>5. CASE ~ StartCheck(c) /\ ~ ReclaimBinds(c)
             /\ ~ \E a \in Attempts, item \in Interventions : ResolveRead(c, a, item)
    <3>1. client' = [client EXCEPT ![c] = Quiet] /\ UNCHANGED << at, mem >>
      BY <1>3, <2>5
      DEF Start, StartInsert, Resolve, Activate, KeepControl, Cancel, Resume,
          ReclaimFails, Abandon, SaveRequest, SaveCopy
    <3> QED BY <1>2, <2>1, <3>1
  <2> QED BY <2>2, <2>3, <2>4, <2>5
<1>4. ASSUME NEW w \in Workers, NEW p, NEW r, at' = [at EXCEPT ![w] = p],
             mem' = [mem EXCEPT ![w] = r],
             p \in {"bind", "drive", "click", "verify", "save"} => r.state # NoRow,
             UNCHANGED client
      PROVE  Existing'
  BY <1>4 DEF Existing, Resolving, Running, TypeOK
<1>5. ASSUME NEW w \in Workers, Step(w) \/ Raise(w) \/ Crash(w) PROVE Existing'
  <2>1. CASE Claim(w)
    BY <2>1 DEF Claim, Existing, Resolving, Running, TypeOK
  <2>2. CASE Load(w)
    <3>1. attempt[Of(w)].state # NoRow
      BY <2>2, OfType DEF Load
    <3> QED BY <1>4, <2>2, <3>1 DEF Load
  <2>3. CASE Bind(w) \/ Drive(w) \/ Click(w) \/ Observe(w)
    <3>1. PICK p \in {"drive", "click", "verify", "save"}, r \in ApplicationAttempt :
            Proceed(w, p, r) /\ r.state # NoRow
      BY <2>3, HandlerGoesOn
    <3> QED BY <1>4, <3>1 DEF Proceed
  <2>4. CASE Save(w)
    BY <2>4 DEF Save, Existing, Resolving, Running, TypeOK
  <2>5. CASE Report(w) \/ Raise(w) \/ Crash(w) \/ ReclaimWrite(w)
    BY <1>4, <2>5 DEF Report, Raise, Crash, ReclaimWrite, LetGo
  <2> QED BY <1>5, <2>1, <2>2, <2>3, <2>4, <2>5 DEF Step
<1>6. ASSUME NEW w \in Workers, NEW t \in Tasks, ReclaimRead(w, t) PROVE Existing'
  BY <1>6 DEF ReclaimRead, Existing, Resolving, Running, TypeOK
<1> QED BY <1>1, <1>3, <1>5, <1>6 DEF Next

-----------------------------------------------------------------------------
(* The marker *)

\* Worker w keeps what it knows of the marker, or runs an attempt that raced.
RunsOn(w) ==
    Running(w)' =>
        \/ Of(w)' \in raced'
        \/ /\ Running(w) /\ Of(w)' = Of(w)
           /\ mem'[w].marked = mem[w].marked
           /\ at'[w] \in {"click", "verify"} => at[w] \in {"click", "verify"}
           /\ at'[w] = "click" => at[w] = "click"

\* The row of attempt a keeps its marker and the site its count, or a raced.
RowKept(a) ==
    \/ a \in raced'
    \/ /\ attempt'[a].marked = attempt[a].marked
       /\ clicks'[a] = clicks[a]
       /\ attempt'[a].state = NoRow => attempt[a].state = NoRow

\* A step that keeps every worker and every row keeps the invariant.
LEMMA MarkerFrame ==
    ASSUME TypeOK, Held, MarkerInv, raced \subseteq raced',
           \A w \in Workers : RunsOn(w), \A a \in Attempts : RowKept(a)
    PROVE  MarkerInv'
<1>1. \A w \in Workers : Running(w) => Of(w) \in Attempts
  BY OfType DEF Running
<1>2. ASSUME NEW w \in Workers, Running(w)', Of(w)' \notin raced'
      PROVE  /\ Running(w) /\ Of(w)' = Of(w) /\ Of(w) \notin raced
             /\ mem'[w].marked = mem[w].marked
             /\ at'[w] \in {"click", "verify"} => at[w] \in {"click", "verify"}
             /\ at'[w] = "click" => at[w] = "click"
  BY <1>2 DEF RunsOn
<1>3. Untouched'
  BY DEF MarkerInv, Untouched, RowKept
<1>4. Exclusive'
  BY <1>2 DEF MarkerInv, Exclusive
<1>5. Synced'
  <2> SUFFICES ASSUME NEW w \in Workers, Running(w)', Of(w)' \notin raced'
               PROVE  /\ mem'[w].marked = attempt'[Of(w)'].marked
                      /\ at'[w] \in {"click", "verify"} => mem'[w].marked
                      /\ at'[w] = "click" => clicks'[Of(w)'] = 0
    BY DEF Synced
  <2>1. RowKept(Of(w)) /\ Of(w)' = Of(w)
    BY <1>1, <1>2
  <2> QED BY <1>2, <2>1 DEF MarkerInv, Synced, RowKept
<1>6. ClickIsOnRecord' /\ SubmitOnce'
  BY DEF MarkerInv, ClickIsOnRecord, SubmitOnce, RowKept
<1> QED BY <1>3, <1>4, <1>5, <1>6 DEF MarkerInv

\* A request's save keeps the row's marker unless it saves a stale copy.
LEMMA SaveCopyKeeps ==
    ASSUME TypeOK, Existing, NEW c \in Clients, NEW r \in ApplicationAttempt,
           SaveCopy(c, r), r.marked = client[c].copy.marked, r.state # NoRow
    PROVE  raced \subseteq raced' /\ \A a \in Attempts : RowKept(a)
BY DEF SaveCopy, RowKept, TypeOK

\* Every step preserves what is known of the marker.
LEMMA MarkerStep == AttemptInv /\ [Next]_vars => MarkerInv'
<1> SUFFICES ASSUME TypeOK, Held, Existing, MarkerInv, [Next]_vars PROVE MarkerInv'
  BY DEF AttemptInv
<1>1. \A w \in Workers : at[w] # "idle" => Of(w) \in Attempts
  BY OfType
<1>2. \A w \in Workers : at[w] # "idle" /\ at'[w] # "idle" => Of(w)' = Of(w)
  BY OfStep
\* Workers whose place and record a step leaves alone run on.
<1>3. ASSUME NEW w \in Workers, at'[w] = at[w], mem'[w] = mem[w] PROVE RunsOn(w)
  BY <1>2, <1>3 DEF RunsOn, Running
<1>4. ASSUME UNCHANGED << attempt, clicks >> PROVE \A a \in Attempts : RowKept(a)
  BY <1>4 DEF RowKept
<1>5. CASE UNCHANGED vars
  BY <1>3, <1>4, <1>5, MarkerFrame DEF vars
<1>6. ASSUME NEW c \in Clients, Start(c) \/ Resolve(c) \/ Abandon(c) PROVE MarkerInv'
  <2>0. client[c] \in Request /\ client[c].copy \in ApplicationAttempt
    BY DEF TypeOK, Request
  <2>1. UNCHANGED << at, mem >>
    BY <1>6 DEF Start, StartCheck, StartInsert, Resolve, ResolveRead, Activate,
                KeepControl, Cancel, ReclaimBinds, Resume, ReclaimFails, Abandon,
                SaveRequest, SaveCopy
  <2>2. \A w \in Workers : RunsOn(w)
    BY <1>3, <2>1
  <2>3. CASE StartInsert(c)
    <3>1. PICK a \in Attempts, m \in Modes, h \in Hosts :
            /\ attempt[a].state = NoRow
            /\ attempt' = [attempt EXCEPT ![a] =
                             [NoRecord EXCEPT !.state = "pending", !.mode = m, !.host = h]]
      BY <2>3 DEF StartInsert
    <3>2. /\ attempt'[a].state # NoRow
          /\ attempt'[a].marked = FALSE
          /\ \A b \in Attempts \ {a} : attempt'[b] = attempt[b]
      BY <3>1 DEF NoRecord, NoRow, TypeOK
    <3>3. a \in raced \/ attempt[a].marked = FALSE
      BY <3>1 DEF MarkerInv, Untouched, TypeOK, ApplicationAttempt
    <3>4. UNCHANGED << clicks, raced >>
      BY <2>3 DEF StartInsert
    <3>5. \A b \in Attempts : RowKept(b)
      BY <3>2, <3>3, <3>4 DEF RowKept
    <3> QED BY <2>2, <3>4, <3>5, MarkerFrame
  <2>4. CASE KeepControl(c)
    <3>1. /\ [client[c].copy EXCEPT !.state = "waiting_for_human"] \in ApplicationAttempt
          /\ [client[c].copy EXCEPT !.state = "waiting_for_human"].marked
               = client[c].copy.marked
          /\ [client[c].copy EXCEPT !.state = "waiting_for_human"].state # NoRow
      BY <2>0, SetStateType DEF WorkflowState, NoRow
    <3> QED BY <2>2, <2>4, <3>1, SaveCopyKeeps, MarkerFrame
        DEF KeepControl, SaveRequest
  <2>5. CASE Cancel(c)
    <3>1. /\ [Settled(client[c]) EXCEPT !.state = "cancelled"] \in ApplicationAttempt
          /\ [Settled(client[c]) EXCEPT !.state = "cancelled"].marked = client[c].copy.marked
          /\ [Settled(client[c]) EXCEPT !.state = "cancelled"].state # NoRow
      <4>1. "cancelled" \in WorkflowState /\ "cancelled" # NoRow
        BY DEF WorkflowState, WORKFLOW_TERMINAL, NoRow
      <4> QED BY <2>0, <4>1, SettledType
    <3> QED BY <2>2, <2>5, <3>1, SaveCopyKeeps, MarkerFrame
        DEF Cancel, SaveRequest
  <2>6. CASE Resume(c)
    <3>1. /\ [Settled(client[c]) EXCEPT !.state = "pending"] \in ApplicationAttempt
          /\ [Settled(client[c]) EXCEPT !.state = "pending"].marked = client[c].copy.marked
          /\ [Settled(client[c]) EXCEPT !.state = "pending"].state # NoRow
      BY <2>0, SettledType DEF WorkflowState, NoRow
    <3> QED BY <2>2, <2>6, <3>1, SaveCopyKeeps, MarkerFrame
        DEF Resume, SaveRequest
  <2>7. CASE ReclaimFails(c) \/ ReclaimBinds(c) \/ Activate(c)
    <3>1. SaveCopy(c, client[c].copy) /\ client[c].copy.state # NoRow
      BY <2>7 DEF ReclaimFails, ReclaimBinds, Activate, SaveRequest, SaveCopy, Existing
    <3> QED BY <2>0, <2>2, <3>1, SaveCopyKeeps, MarkerFrame
  <2>8. CASE StartCheck(c) \/ Abandon(c)
              \/ \E b \in Attempts, item \in Interventions : ResolveRead(c, b, item)
    <3>1. UNCHANGED << attempt, clicks, raced >>
      BY <2>8 DEF StartCheck, Abandon, ResolveRead
    <3> QED BY <1>4, <2>2, <3>1, MarkerFrame
  <2> QED BY <1>6, <2>3, <2>4, <2>5, <2>6, <2>7, <2>8 DEF Start, Resolve
<1>7. ASSUME NEW w \in Workers, Step(w) \/ Raise(w) \/ Crash(w) PROVE MarkerInv'
  <2>0. DOMAIN at = Workers /\ DOMAIN mem = Workers
    BY DEF TypeOK
  \* The other workers run on.
  <2>1. \A v \in Workers \ {w} : RunsOn(v)
    <3>1. \A v \in Workers \ {w} : at'[v] = at[v] /\ mem'[v] = mem[v]
      <4>1. CASE Bind(w) \/ Drive(w) \/ Click(w) \/ Observe(w)
        BY <2>0, <4>1, HandlerGoesOn DEF Proceed
      <4>2. CASE ~ (Bind(w) \/ Drive(w) \/ Click(w) \/ Observe(w))
        BY <1>7, <2>0, <4>2 DEF Step, ReclaimWrite, Claim, Load, Save, Report, Raise, Crash,
                                LetGo
      <4> QED BY <4>1, <4>2
    <3> QED BY <1>3, <3>1
  <2>2. CASE ReclaimWrite(w) \/ Claim(w) \/ Report(w) \/ Raise(w) \/ Crash(w)
    <3>1. ~ Running(w)' /\ UNCHANGED << attempt, clicks, raced >>
      BY <2>0, <2>2 DEF ReclaimWrite, Claim, Report, Raise, Crash, LetGo, Running
    <3>2. RunsOn(w)
      BY <3>1 DEF RunsOn
    <3> QED BY <1>4, <2>1, <3>1, <3>2, MarkerFrame
  <2>3. CASE Load(w)
    <3>1. /\ Of(w) \in Attempts /\ Of(w)' = Of(w)
          /\ at[w] = "load" /\ at'[w] = "bind" /\ mem'[w] = attempt[Of(w)]
          /\ UNCHANGED << attempt, clicks >>
      BY <1>1, <1>2, <2>0, <2>3 DEF Load
    <3>2. CASE Of(w) \in raced'
      <4>1. RunsOn(w) /\ raced \subseteq raced'
        BY <2>3, <3>1, <3>2 DEF RunsOn, Load
      <4> QED BY <1>4, <2>1, <3>1, <4>1, MarkerFrame
    <3>3. CASE Of(w) \notin raced'
      <4>1. raced' = raced /\ \A v \in Workers : Running(v) => Of(v) # Of(w)
        BY <2>3, <3>3 DEF Load
      <4>2. ASSUME NEW v \in Workers, v # w, Running(v)', Of(v)' \notin raced'
            PROVE  /\ Running(v) /\ Of(v)' = Of(v) /\ at'[v] = at[v]
                   /\ mem'[v] = mem[v] /\ Of(v) # Of(w)
        BY <1>2, <2>0, <2>3, <4>1, <4>2 DEF Load, Running
      <4>3. Exclusive'
        BY <3>1, <4>1, <4>2 DEF MarkerInv, Exclusive
      <4>4. Synced'
        BY <3>1, <4>1, <4>2 DEF MarkerInv, Synced
      <4> QED
        BY <3>1, <4>1, <4>3, <4>4
        DEF MarkerInv, Untouched, ClickIsOnRecord, SubmitOnce
    <3> QED BY <3>2, <3>3
  <2>4. CASE (Bind(w) \/ Drive(w) \/ Observe(w)) /\ ~ Mark(w)
    <3>1. PICK p \in {"drive", "click", "verify", "save"}, r \in ApplicationAttempt :
            /\ Proceed(w, p, r) /\ r.marked = mem[w].marked /\ p # "click"
            /\ p = "verify" => at[w] = "click"
      BY <2>4, HandlerGoesOn
    <3>2. Running(w) /\ at[w] # "idle" /\ at'[w] = p /\ mem'[w] = r /\ UNCHANGED raced
      BY <2>0, <2>4, <3>1, HandlerGoesOn DEF Proceed, Running
    <3>3. RunsOn(w)
      BY <1>2, <3>1, <3>2 DEF RunsOn
    <3>4. \A a \in Attempts : RowKept(a)
      <4>1. CASE BindCreated(w)
        <5>1. Of(w) \in raced \/ attempt[Of(w)].marked = mem[w].marked
          BY <3>2 DEF MarkerInv, Synced
        <5>2. Of(w) \in Attempts /\ mem[w].state # NoRow
          BY <1>1, <3>2 DEF Existing
        <5> QED BY <3>2, <4>1, <5>1, <5>2 DEF BindCreated, RowKept, TypeOK
      <4>2. CASE ~ BindCreated(w)
        <5>1. UNCHANGED << attempt, clicks >>
          BY <2>4, <4>2
          DEF Bind, BindHosted, BindLocal, BindRefused, Drive, NoDriver,
              PageNeedsHuman, VerifyOnly, NoSubmitControl, FilledOnly, Observe
        <5> QED BY <1>4, <5>1
      <4> QED BY <4>1, <4>2
    <3> QED BY <2>1, <3>2, <3>3, <3>4, MarkerFrame
  <2>5. CASE Mark(w)
    <3> DEFINE marked == [mem[w] EXCEPT !.marked = TRUE, !.state = "running"]
    <3>1. marked.marked = TRUE /\ marked.state # NoRow
      BY DEF TypeOK, ApplicationAttempt, NoRow
    <3>2. /\ at[w] = "drive" /\ at'[w] = "click" /\ mem[w].marked # TRUE
          /\ attempt' = [attempt EXCEPT ![Of(w)] = marked]
          /\ mem'[w] = marked /\ UNCHANGED << clicks, raced >>
      BY <2>0, <2>5 DEF Mark, Proceed, Unsubmitted
    <3> HIDE DEF marked
    <3>3. Of(w) \in Attempts /\ Of(w)' = Of(w) /\ Running(w)
      BY <1>1, <1>2, <3>2 DEF Running
    <3>4. /\ attempt'[Of(w)] = marked
          /\ \A a \in Attempts : a # Of(w) => attempt'[a] = attempt[a]
      BY <3>2, <3>3 DEF TypeOK
    <3>5. CASE Of(w) \in raced
      <4>1. RunsOn(w) /\ \A a \in Attempts : RowKept(a)
        BY <3>2, <3>3, <3>4, <3>5 DEF RunsOn, RowKept
      <4> QED BY <2>1, <3>2, <4>1, MarkerFrame
    <3>6. CASE Of(w) \notin raced
      <4>1. attempt[Of(w)].marked # TRUE
        BY <3>2, <3>3, <3>6 DEF MarkerInv, Synced
      <4>2. clicks[Of(w)] = 0
        <5>1. attempt[Of(w)].marked \in BOOLEAN /\ clicks[Of(w)] \in 0 .. 2
          BY <3>3 DEF TypeOK, ApplicationAttempt, ClickCap
        <5>2. ~ attempt[Of(w)].marked
          BY <4>1, <5>1
        <5>3. ~ (clicks[Of(w)] > 0)
          BY <3>3, <3>6, <5>2 DEF MarkerInv, ClickIsOnRecord
        <5> QED BY <5>1, <5>3
      <4>3. ASSUME NEW v \in Workers, v # w, Running(v)', Of(v)' \notin raced'
            PROVE  /\ Running(v) /\ Of(v)' = Of(v) /\ at'[v] = at[v]
                   /\ mem'[v] = mem[v] /\ Of(v) \in Attempts /\ Of(v) # Of(w)
        <5>1. at'[v] = at[v] /\ mem'[v] = mem[v] /\ Running(v)
          BY <2>0, <2>5, <4>3 DEF Mark, Proceed, Running
        <5>2. Of(v)' = Of(v) /\ Of(v) \in Attempts
          BY <1>1, <1>2, <4>3, <5>1 DEF Running
        <5> QED BY <3>2, <3>3, <4>3, <5>1, <5>2 DEF MarkerInv, Exclusive
      <4>4. Exclusive'
        BY <3>2, <3>3, <4>3 DEF MarkerInv, Exclusive
      <4>5. Synced'
        <5> SUFFICES ASSUME NEW v \in Workers, Running(v)', Of(v)' \notin raced'
                     PROVE  /\ mem'[v].marked = attempt'[Of(v)'].marked
                            /\ at'[v] \in {"click", "verify"} => mem'[v].marked
                            /\ at'[v] = "click" => clicks'[Of(v)'] = 0
          BY DEF Synced
        <5>1. CASE v = w
          BY <3>1, <3>2, <3>3, <3>4, <4>2, <5>1
        <5>2. CASE v # w
          BY <3>2, <3>4, <4>3, <5>2 DEF MarkerInv, Synced
        <5> QED BY <5>1, <5>2
      <4>6. Untouched' /\ ClickIsOnRecord' /\ SubmitOnce'
        BY <3>1, <3>2, <3>4 DEF MarkerInv, Untouched, ClickIsOnRecord, SubmitOnce
      <4> QED BY <4>4, <4>5, <4>6 DEF MarkerInv
    <3> QED BY <3>5, <3>6
  <2>6. CASE Click(w)
    <3>1. PICK landed \in {0, 1} :
            clicks' = [clicks EXCEPT ![Of(w)] = IF @ < ClickCap THEN @ + landed ELSE @]
      BY <2>6 DEF Click
    <3>2. /\ at[w] = "click" /\ at'[w] = "verify" /\ mem'[w] = mem[w]
          /\ UNCHANGED << attempt, raced >>
      BY <2>0, <2>6 DEF Click, Proceed
    <3>3. Of(w) \in Attempts /\ Of(w)' = Of(w) /\ Running(w)
      BY <1>1, <1>2, <3>2 DEF Running
    <3>4. /\ clicks'[Of(w)] = IF clicks[Of(w)] < ClickCap
                              THEN clicks[Of(w)] + landed ELSE clicks[Of(w)]
          /\ \A a \in Attempts : a # Of(w) => clicks'[a] = clicks[a]
      BY <3>1, <3>3 DEF TypeOK
    <3>5. CASE Of(w) \in raced
      <4>1. RunsOn(w) /\ \A a \in Attempts : RowKept(a)
        BY <3>2, <3>3, <3>4, <3>5 DEF RunsOn, RowKept
      <4> QED BY <2>1, <3>2, <4>1, MarkerFrame
    <3>6. CASE Of(w) \notin raced
      <4>1. clicks[Of(w)] = 0 /\ mem[w].marked /\ attempt[Of(w)].marked
        BY <3>2, <3>3, <3>6 DEF MarkerInv, Synced
      <4>2. clicks'[Of(w)] <= 1
        BY <3>4, <4>1 DEF ClickCap
      <4>3. ASSUME NEW v \in Workers, v # w, Running(v)', Of(v)' \notin raced'
            PROVE  /\ Running(v) /\ Of(v)' = Of(v) /\ at'[v] = at[v]
                   /\ mem'[v] = mem[v] /\ Of(v) \in Attempts /\ Of(v) # Of(w)
        <5>1. at'[v] = at[v] /\ mem'[v] = mem[v] /\ Running(v)
          BY <2>0, <2>6, <4>3 DEF Click, Proceed, Running
        <5>2. Of(v)' = Of(v) /\ Of(v) \in Attempts
          BY <1>1, <1>2, <4>3, <5>1 DEF Running
        <5> QED BY <3>2, <3>3, <4>3, <5>1, <5>2 DEF MarkerInv, Exclusive
      <4>4. Exclusive'
        BY <3>2, <3>3, <4>3 DEF MarkerInv, Exclusive
      <4>5. Synced'
        <5> SUFFICES ASSUME NEW v \in Workers, Running(v)', Of(v)' \notin raced'
                     PROVE  /\ mem'[v].marked = attempt'[Of(v)'].marked
                            /\ at'[v] \in {"click", "verify"} => mem'[v].marked
                            /\ at'[v] = "click" => clicks'[Of(v)'] = 0
          BY DEF Synced
        <5>1. CASE v = w
          BY <3>2, <3>3, <4>1, <5>1 DEF MarkerInv, Synced
        <5>2. CASE v # w
          BY <3>2, <3>4, <4>3, <5>2 DEF MarkerInv, Synced
        <5> QED BY <5>1, <5>2
      <4>6. Untouched' /\ ClickIsOnRecord' /\ SubmitOnce'
        <5>1. attempt[Of(w)].state # NoRow
          BY <3>2, OfType
        <5> QED
          BY <3>2, <3>3, <3>4, <4>1, <4>2, <5>1
          DEF MarkerInv, Untouched, ClickIsOnRecord, SubmitOnce
      <4> QED BY <4>4, <4>5, <4>6 DEF MarkerInv
    <3> QED BY <3>5, <3>6
  <2>7. CASE Save(w)
    <3>1. /\ at[w] = "save" /\ at'[w] = "report" /\ UNCHANGED << clicks, raced >>
          /\ attempt' = [attempt EXCEPT ![Of(w)] = mem[w]]
      BY <2>0, <2>7 DEF Save
    <3>2. Of(w) \in Attempts /\ mem[w].state # NoRow /\ Running(w)
      BY <1>1, <3>1 DEF Existing, Running
    <3>3. Of(w) \in raced \/ attempt[Of(w)].marked = mem[w].marked
      BY <3>2 DEF MarkerInv, Synced
    <3>4. RunsOn(w)
      BY <3>1 DEF RunsOn, Running
    <3>5. \A a \in Attempts : RowKept(a)
      BY <3>1, <3>2, <3>3 DEF RowKept, TypeOK
    <3> QED BY <2>1, <3>1, <3>4, <3>5, MarkerFrame
  <2> QED BY <1>7, <2>2, <2>3, <2>4, <2>5, <2>6, <2>7 DEF Step, Drive
<1>8. ASSUME NEW w \in Workers, NEW t \in Tasks, ReclaimRead(w, t) PROVE MarkerInv'
  <2>1. UNCHANGED << mem, attempt, clicks, raced >>
    BY <1>8 DEF ReclaimRead
  <2>2. \A v \in Workers \ {w} : at'[v] = at[v]
    BY <1>8 DEF ReclaimRead, TypeOK
  <2>3. RunsOn(w)
    BY <1>8 DEF ReclaimRead, RunsOn, Running, TypeOK
  <2> QED BY <1>3, <1>4, <2>1, <2>2, <2>3, MarkerFrame
<1> QED BY <1>5, <1>6, <1>7, <1>8 DEF Next

-----------------------------------------------------------------------------
(* The theorems *)

\* The initial states satisfy the invariant.
LEMMA AttemptInvInit == Init => AttemptInv
<1> SUFFICES ASSUME Init PROVE AttemptInv
  OBVIOUS
<1>1. NoRecord \in ApplicationAttempt /\ Quiet \in Request
  BY DEF NoRecord, Quiet, Request, ApplicationAttempt, Interventions, ApplicationState, NoRow
<1>2. TypeOK
  BY <1>1, AttemptInputs DEF Init, TypeOK, TaskRow, Places, ClickCap
<1>3. Held /\ Existing
  BY DEF Init, Held, Existing, Resolving, Running, Quiet
<1>4. MarkerInv
  BY DEF Init, MarkerInv, Untouched, Exclusive, Synced, ClickIsOnRecord, SubmitOnce,
         Running, NoRecord
<1> QED BY <1>2, <1>3, <1>4 DEF AttemptInv

\* AttemptInv is an inductive invariant.
THEOREM AttemptInvariance == Spec => []AttemptInv
<1>1. AttemptInv /\ [Next]_vars => AttemptInv'
  BY TypeOKStep, HeldStep, ExistingStep, MarkerStep DEF AttemptInv
<1> QED BY <1>1, AttemptInvInit, PTL DEF Spec

\* Every reachable state has the types the model declares: rows hold states of
\* the enumerations and nothing else, whatever is raced, retried or lost.
THEOREM AttemptTypeCorrect == Spec => []TypeOK
<1>1. AttemptInv => TypeOK
  BY DEF AttemptInv
<1> QED BY <1>1, AttemptInvariance, PTL

\* The submit click is received at most once for an attempt that is never run
\* twice at once nor saved from a stale copy, however often its workers crash.
THEOREM AttemptSubmitsOnce == Spec => []SubmitOnce
<1>1. AttemptInv => SubmitOnce
  BY DEF AttemptInv, MarkerInv
<1> QED BY <1>1, AttemptInvariance, PTL

\* A click the site received is on record from before it was made.
THEOREM AttemptRecordsClicks == Spec => []ClickIsOnRecord
<1>1. AttemptInv => ClickIsOnRecord
  BY DEF AttemptInv, MarkerInv
<1> QED BY <1>1, AttemptInvariance, PTL

\* Every step leaves at most one live task per attempt, but for those a reclaim
\* brought back: a new task is only queued when there is none, and what is over
\* only a reclaim revives, which is noted.
LEMMA OneLiveTaskStep == AttemptInv /\ OneLiveTask /\ [Next]_vars => OneLiveTask'
<1> SUFFICES ASSUME TypeOK, Held, Existing, OneLiveTask, [Next]_vars PROVE OneLiveTask'
  BY DEF AttemptInv
<1>1. ASSUME \A t \in Tasks : Live(t)' =>
               \/ task'[t].late
               \/ Live(t) /\ task'[t].of = task[t].of /\ (task[t].late => task'[t].late)
      PROVE  OneLiveTask'
  BY <1>1 DEF OneLiveTask
<1>2. CASE UNCHANGED task
  BY <1>1, <1>2 DEF Live
<1>3. ASSUME NEW a \in Attempts, Enqueue(a) PROVE OneLiveTask'
  <2>1. CASE \E t \in Tasks : Live(t) /\ task[t].of = a
    BY <1>2, <1>3, <2>1 DEF Enqueue
  <2>2. CASE ~ \E t \in Tasks : Live(t) /\ task[t].of = a
    <3>1. PICK t \in Tasks : task' = [task EXCEPT ![t] = Submitted(a)]
      BY <1>3, <2>2 DEF Enqueue
    <3>2. \A u \in Tasks \ {t} : task'[u] = task[u]
      BY <3>1 DEF TypeOK
    <3>3. task'[t].of = a
      BY <3>1 DEF TypeOK, Submitted
    <3>4. \A u \in Tasks \ {t} : Live(u)' => Live(u) /\ task'[u].of # a
      BY <2>2, <3>2 DEF Live
    <3> QED BY <3>2, <3>3, <3>4 DEF OneLiveTask
  <2> QED BY <2>1, <2>2
<1>4. ASSUME NEW t \in Tasks, NEW s, task' = [task EXCEPT ![t].state = s],
             Live(t) \/ s = "over"
      PROVE  OneLiveTask'
  <2>1. \A u \in Tasks : /\ task'[u].of = task[u].of /\ task'[u].late = task[u].late
                         /\ u # t => task'[u] = task[u]
    BY <1>4 DEF TypeOK, TaskRow
  <2>2. task'[t].state = s
    BY <1>4 DEF TypeOK, TaskRow
  <2>3. \A u \in Tasks : Live(u)' => Live(u)
    BY <1>4, <2>1, <2>2 DEF Live
  <2> QED BY <1>1, <2>1, <2>3
<1>5. ASSUME NEW c \in Clients, Start(c) \/ Resolve(c) \/ Abandon(c) PROVE OneLiveTask'
  <2>1. CASE StartInsert(c)
    BY <1>3, <2>1 DEF StartInsert
  <2>2. CASE Resume(c)
    <3>1. client[c].of \in Attempts
      BY <2>2 DEF Resume, SaveRequest, SaveCopy, TypeOK, Existing, Request
    <3> QED BY <1>3, <2>2, <3>1 DEF Resume
  <2>3. CASE ~ StartInsert(c) /\ ~ Resume(c)
    <3>1. UNCHANGED task
      BY <1>5, <2>3
      DEF Start, StartCheck, Resolve, ResolveRead, Activate, KeepControl, Cancel,
          ReclaimBinds, ReclaimFails, Abandon
    <3> QED BY <1>2, <3>1
  <2> QED BY <2>1, <2>2, <2>3
<1>6. ASSUME NEW w \in Workers, Step(w) \/ Raise(w) \/ Crash(w) PROVE OneLiveTask'
  <2>1. CASE Claim(w)
    BY <1>4, <2>1 DEF Claim, Live
  <2>2. CASE Report(w) \/ Raise(w)
    <3>1. run[w] \in Tasks
      BY <2>2, OfType DEF Report, Raise, Running
    <3> QED BY <1>4, <2>2, <3>1 DEF Report, Raise
  <2>4. CASE ReclaimWrite(w)
    <3>1. run[w] \in Tasks /\ task[run[w]].state # "absent"
      BY <2>4, OfType DEF ReclaimWrite, Held
    <3>2. Live(run[w]) \/ task[run[w]].state = "over"
      BY <3>1 DEF Live, TypeOK, TaskRow
    <3>3. /\ task'[run[w]].of = task[run[w]].of
          /\ task'[run[w]].late = (task[run[w]].late \/ task[run[w]].state = "over")
          /\ \A t \in Tasks : t # run[w] => task'[t] = task[t]
      BY <2>4, <3>1, ReclaimFrame
    <3>4. ASSUME NEW t \in Tasks, Live(t)'
          PROVE  \/ task'[t].late
                 \/ Live(t) /\ task'[t].of = task[t].of /\ (task[t].late => task'[t].late)
      <4>1. CASE t = run[w]
        BY <3>2, <3>3, <4>1
      <4>2. CASE t # run[w]
        BY <3>3, <3>4, <4>2 DEF Live
      <4> QED BY <4>1, <4>2
    <3> QED BY <1>1, <3>4
  <2>3. CASE ~ Claim(w) /\ ~ Report(w) /\ ~ Raise(w) /\ ~ ReclaimWrite(w)
    <3>1. UNCHANGED task
      BY <1>6, <2>3
      DEF Step, Load, Bind, BindHosted, BindCreated, BindLocal, BindRefused, Drive,
          NoDriver, PageNeedsHuman, VerifyOnly, NoSubmitControl, FilledOnly, Mark, Click,
          Observe, Save, Crash, Proceed
    <3> QED BY <1>2, <3>1
  <2> QED BY <2>1, <2>2, <2>3, <2>4
<1>7. ASSUME NEW w \in Workers, NEW t \in Tasks, ReclaimRead(w, t) PROVE OneLiveTask'
  BY <1>2, <1>7 DEF ReclaimRead
<1> QED BY <1>2, <1>5, <1>6, <1>7 DEF Next, vars

\* However an attempt is resumed and however often its lease lapses, at most one
\* pending or running task runs it, besides those that a reclaim brought back
\* because its commit came after their report.
THEOREM AttemptHasOneTask == Spec => []OneLiveTask
<1>1. Init => OneLiveTask
  BY DEF Init, OneLiveTask, Live
<1> QED BY <1>1, OneLiveTaskStep, AttemptInvariance, PTL DEF Spec

-----------------------------------------------------------------------------
(* What SUBMITTED is worth *)

\* Only a completed attempt makes an application submitted that was not.
LEMMA ReconcileEarns ==
    ASSUME NEW s, NEW workflow, reconcile(s, workflow) \in SUBMITTED_STATES
    PROVE  s \in SUBMITTED_STATES \/ workflow = "completed"
<1> DEFINE candidates == TerminalToApplication(workflow)
           legal == {i \in DOMAIN candidates : can_transition(s, candidates[i])}
           best == CHOOSE i \in legal : \A j \in legal : i <= j
<1>1. ASSUME workflow # "completed"
      PROVE  \A i \in DOMAIN candidates : i \in {1, 2} /\ candidates[i] \notin SUBMITTED_STATES
  BY <1>1 DEF TerminalToApplication, SUBMITTED_STATES
<1>2. ASSUME workflow # "completed", legal # {} PROVE best \in legal
  <2>1. legal \subseteq {1, 2}
    BY <1>1, <1>2
  <2>2. \E i \in legal : \A j \in legal : i <= j
    <3> HIDE DEF legal
    <3>1. CASE 1 \in legal
      BY <2>1, <3>1
    <3>2. CASE 1 \notin legal
      <4>1. legal = {2}
        BY <1>2, <2>1, <3>2
      <4> QED BY <4>1
    <3> QED BY <3>1, <3>2
  <2> HIDE DEF legal
  <2> QED BY <2>2
<1>3. reconcile(s, workflow) = IF legal = {} THEN s ELSE candidates[best]
  BY DEF reconcile
<1> HIDE DEF best
<1> QED BY <1>1, <1>2, <1>3

\* Walking towards APPLYING makes no application submitted.
LEMMA AdvanceEarnsNothing ==
    ASSUME NEW s, advance_to_applying(s) \in SUBMITTED_STATES
    PROVE  s \in SUBMITTED_STATES
<1> DEFINE Before(i) == IF i = 1 THEN s ELSE ApplyingPath[i - 1]
           legal == {n \in 0 .. Len(ApplyingPath) :
                       \A i \in 1 .. n : can_transition(Before(i), ApplyingPath[i])}
           hops == CHOOSE n \in legal : \A m \in legal : m <= n
<1>1. Len(ApplyingPath) = 4 /\ \A i \in 1 .. 4 : ApplyingPath[i] \notin SUBMITTED_STATES
  BY DEF ApplyingPath, SUBMITTED_STATES
<1>2. 0 \in legal /\ legal \subseteq 0 .. 4
  BY <1>1
<1>3. hops \in legal
  <2> HIDE DEF legal
  <2>1. \E n \in legal : \A m \in legal : m <= n
    <3>1. CASE 4 \in legal
      BY <1>2, <3>1
    <3>2. CASE 4 \notin legal /\ 3 \in legal
      BY <1>2, <3>2
    <3>3. CASE 4 \notin legal /\ 3 \notin legal /\ 2 \in legal
      BY <1>2, <3>3
    <3>4. CASE 4 \notin legal /\ 3 \notin legal /\ 2 \notin legal
      BY <1>2, <3>4
    <3> QED BY <3>1, <3>2, <3>3, <3>4
  <2> QED BY <2>1
<1>4. advance_to_applying(s) =
        IF s = "applying" \/ hops = 0 THEN s ELSE ApplyingPath[hops]
  BY DEF advance_to_applying
<1> HIDE DEF hops
<1>5. hops # 0 => hops \in 1 .. 4
  BY <1>2, <1>3
<1> QED BY <1>1, <1>4, <1>5

\* What the code assigns to a record leaves its mode and its marker.
LEMMA RecordKeeps ==
    ASSUME NEW r \in ApplicationAttempt
    PROVE  /\ \A item : /\ Paused(r, item).mode = r.mode
                        /\ Paused(r, item).marked = r.marked
                        /\ Paused(r, item).state = "waiting_for_human"
           /\ \A s : /\ [r EXCEPT !.state = s].mode = r.mode
                     /\ [r EXCEPT !.state = s].marked = r.marked
                     /\ [r EXCEPT !.state = s].state = s
BY DEF Paused, ApplicationAttempt

LEMMA SettledKeeps ==
    ASSUME NEW r \in Request, NEW s
    PROVE  /\ [Settled(r) EXCEPT !.state = s].mode = r.copy.mode
           /\ [Settled(r) EXCEPT !.state = s].marked = r.copy.marked
BY DEF Settled, Request, ApplicationAttempt

\* What a request saves is its copy, but for the state and the interventions.
LEMMA RequestSaves ==
    ASSUME TypeOK, NEW c \in Clients, Resolve(c), attempt' # attempt
    PROVE  \E r : SaveCopy(c, r) /\ r.mode = client[c].copy.mode
                                 /\ r.marked = client[c].copy.marked
<1>1. client[c] \in Request /\ client[c].copy \in ApplicationAttempt
  BY DEF TypeOK, Request
<1>2. CASE Activate(c) \/ ReclaimBinds(c) \/ ReclaimFails(c)
  BY <1>2 DEF Activate, ReclaimBinds, ReclaimFails, SaveRequest
<1>3. CASE KeepControl(c)
  <2> DEFINE r == [client[c].copy EXCEPT !.state = "waiting_for_human"]
  <2>1. SaveCopy(c, r)
    BY <1>3 DEF KeepControl, SaveRequest
  <2>2. r.mode = client[c].copy.mode /\ r.marked = client[c].copy.marked
    BY <1>1, RecordKeeps
  <2> HIDE DEF r
  <2> QED BY <2>1, <2>2
<1>4. ASSUME NEW s, SaveCopy(c, [Settled(client[c]) EXCEPT !.state = s])
      PROVE  \E r : SaveCopy(c, r) /\ r.mode = client[c].copy.mode
                                   /\ r.marked = client[c].copy.marked
  <2> DEFINE r == [Settled(client[c]) EXCEPT !.state = s]
  <2>1. SaveCopy(c, r)
    BY <1>4
  <2>2. r.mode = client[c].copy.mode /\ r.marked = client[c].copy.marked
    BY <1>1, SettledKeeps
  <2> HIDE DEF r
  <2> QED BY <2>1, <2>2
<1>5. CASE Cancel(c) \/ Resume(c)
  <2>1. \E s : SaveCopy(c, [Settled(client[c]) EXCEPT !.state = s])
    BY <1>5 DEF Cancel, Resume, SaveRequest
  <2> QED BY <1>4, <2>1
<1>6. ASSUME NEW a \in Attempts, NEW item \in Interventions, ResolveRead(c, a, item)
      PROVE  FALSE
  BY <1>6 DEF ResolveRead
<1> QED BY <1>2, <1>3, <1>5, <1>6 DEF Resolve

\* An attempt that raced stays one that raced.
LEMMA RacedGrows == [Next]_vars => raced \subseteq raced'
<1>1. ASSUME NEW c \in Clients, Start(c) \/ Resolve(c) \/ Abandon(c)
      PROVE  raced \subseteq raced'
  <2>1. ASSUME NEW r, SaveCopy(c, r) PROVE raced \subseteq raced'
    BY <2>1 DEF SaveCopy
  <2>2. CASE Activate(c) \/ KeepControl(c) \/ Cancel(c) \/ ReclaimBinds(c) \/ Resume(c)
               \/ ReclaimFails(c)
    <3>1. \E r : SaveCopy(c, r)
      BY <2>2 DEF Activate, KeepControl, Cancel, ReclaimBinds, Resume, ReclaimFails, SaveRequest
    <3> QED BY <2>1, <3>1
  <2> QED BY <1>1, <2>2 DEF Start, StartCheck, StartInsert, Resolve, ResolveRead, Abandon
<1>2. ASSUME NEW w \in Workers, Step(w) \/ Raise(w) \/ Crash(w)
      PROVE  raced \subseteq raced'
  <2>1. CASE Load(w)
    BY <2>1 DEF Load
  <2>2. CASE ~ Load(w)
    BY <1>2, <2>2
    DEF Step, ReclaimWrite, Claim, Bind, BindHosted, BindCreated, BindLocal, BindRefused, Drive,
        NoDriver, PageNeedsHuman, VerifyOnly, NoSubmitControl, FilledOnly, Mark, Click,
        Observe, Save, Report, Raise, Crash, Proceed
  <2> QED BY <2>1, <2>2
<1> QED BY <1>1, <1>2 DEF Next, ReclaimRead, vars

\* A step may give an attempt that exists another state, but neither another
\* mode nor, unless it raced, an empty marker.
LEMMA RowStep ==
    ASSUME AttemptInv, ModesKept, [Next]_vars, NEW a \in Attempts,
           attempt[a].state # NoRow
    PROVE  /\ attempt'[a].state # NoRow
           /\ attempt'[a].mode = attempt[a].mode
           /\ attempt[a].marked => attempt'[a].marked \/ a \in raced'
<1> DEFINE Kept == /\ attempt'[a].mode = attempt[a].mode
                   /\ attempt[a].marked => attempt'[a].marked \/ a \in raced'
<1>0. TypeOK /\ Held /\ Existing /\ Synced
  BY DEF AttemptInv, MarkerInv
<1>1. attempt'[a].state # NoRow
  BY <1>0, AttemptsStay
<1>2. ASSUME UNCHANGED attempt PROVE Kept
  BY <1>2
<1>3. ASSUME NEW b \in Attempts, NEW r, attempt' = [attempt EXCEPT ![b] = r],
             a = b => /\ r.mode = attempt[b].mode
                      /\ attempt[b].marked => r.marked \/ b \in raced'
      PROVE  Kept
  BY <1>0, <1>3 DEF TypeOK
<1>4. ASSUME NEW c \in Clients, Start(c) \/ Resolve(c) \/ Abandon(c) PROVE Kept
  <2>1. CASE StartInsert(c)
    <3>1. PICK b \in Attempts, m \in Modes, h \in Hosts :
            /\ attempt[b].state = NoRow
            /\ attempt' = [attempt EXCEPT ![b] =
                            [NoRecord EXCEPT !.state = "pending", !.mode = m, !.host = h]]
      BY <2>1 DEF StartInsert
    <3> QED BY <1>3, <3>1
  <2>2. CASE Resolve(c) /\ attempt' # attempt
    <3>1. PICK r : SaveCopy(c, r) /\ r.mode = client[c].copy.mode
                                  /\ r.marked = client[c].copy.marked
      BY <1>0, <2>2, RequestSaves
    <3> DEFINE b == client[c].of
    <3>2. b \in Attempts
      BY <1>0, <3>1 DEF SaveCopy, Existing, TypeOK, Request
    <3>3. /\ attempt' = [attempt EXCEPT ![b] = r]
          /\ attempt[b] = client[c].copy \/ b \in raced'
      BY <3>1 DEF SaveCopy
    <3>4. r.mode = attempt[b].mode
      BY <3>1 DEF SaveCopy, ModesKept
    <3>5. attempt[b].marked => r.marked \/ b \in raced'
      BY <3>1, <3>3
    <3> HIDE DEF b
    <3> QED BY <1>3, <3>2, <3>3, <3>4, <3>5
  <2>3. CASE UNCHANGED attempt
    BY <1>2, <2>3
  <2> QED BY <1>4, <2>1, <2>2, <2>3 DEF Start, StartCheck, Abandon
<1>5. ASSUME NEW w \in Workers, Step(w) \/ Raise(w) \/ Crash(w) PROVE Kept
  <2>1. CASE BindCreated(w) \/ Save(w)
    <3>1. /\ attempt' = [attempt EXCEPT ![Of(w)] = mem[w]]
          /\ UNCHANGED raced /\ Running(w)
      BY <2>1 DEF BindCreated, Save, Proceed, Running
    <3>2. Of(w) \in Attempts
      BY <1>0, <3>1, OfType DEF Running
    <3>3. mem[w].mode = attempt[Of(w)].mode
      BY <3>1 DEF ModesKept
    <3>4. Of(w) \in raced' \/ mem[w].marked = attempt[Of(w)].marked
      BY <1>0, <3>1 DEF Synced
    <3>5. attempt[Of(w)].marked => mem[w].marked \/ Of(w) \in raced'
      BY <3>4
    <3> QED BY <1>3, <3>1, <3>2, <3>3, <3>5
  <2>2. CASE Mark(w)
    <3> DEFINE r == [mem[w] EXCEPT !.marked = TRUE, !.state = "running"]
    <3>1. attempt' = [attempt EXCEPT ![Of(w)] = r] /\ Running(w)
      BY <2>2 DEF Mark, Running
    <3>2. Of(w) \in Attempts
      BY <1>0, <3>1, OfType DEF Running
    <3>3. r.marked /\ r.mode = mem[w].mode
      BY <1>0 DEF TypeOK, ApplicationAttempt
    <3>4. r.mode = attempt[Of(w)].mode
      BY <3>1, <3>3 DEF ModesKept
    <3> HIDE DEF r
    <3> QED BY <1>3, <3>1, <3>2, <3>3, <3>4
  <2>3. CASE ~ BindCreated(w) /\ ~ Save(w) /\ ~ Mark(w)
    <3>1. UNCHANGED attempt
      BY <1>5, <2>3
      DEF Step, ReclaimWrite, Claim, Load, Bind, BindHosted, BindLocal, BindRefused, Drive,
          NoDriver, PageNeedsHuman, VerifyOnly, NoSubmitControl, FilledOnly, Click, Observe,
          Report, Raise, Crash
    <3> QED BY <1>2, <3>1
  <2> QED BY <2>1, <2>2, <2>3
<1>6. Kept
  BY <1>2, <1>4, <1>5 DEF Next, ReclaimRead, vars
<1> QED BY <1>1, <1>6

\* What an attempt earned it does not lose.
LEMMA EarnedStays ==
    ASSUME AttemptInv, ModesKept, [Next]_vars, NEW a \in Attempts, Earned(a)
    PROVE  Earned(a)'
<1>1. CASE a \in raced
  BY <1>1, RacedGrows DEF Earned
<1>2. CASE a \notin raced
  <2>1. attempt[a].state # NoRow
    BY <1>2 DEF Earned, AttemptInv, MarkerInv, Untouched
  <2> QED BY <1>2, <2>1, RowStep DEF Earned
<1> QED BY <1>1, <1>2

\* The handler's own steps keep the mode, and complete an attempt only if it
\* clicked or was to fill the form and stop.
LEMMA HandlerEarns ==
    ASSUME AttemptInv, NEW w \in Workers,
           Bind(w) \/ Drive(w) \/ Click(w) \/ Observe(w)
    PROVE  /\ mem'[w].mode = mem[w].mode
           /\ at'[w] = "save" /\ mem'[w].state = "completed" =>
                mem'[w].marked \/ mem'[w].mode = "fill" \/ Of(w) \in raced
<1> DEFINE Goal == /\ mem'[w].mode = mem[w].mode
                   /\ at'[w] = "save" /\ mem'[w].state = "completed" =>
                        mem'[w].marked \/ mem'[w].mode = "fill" \/ Of(w) \in raced
<1>1. mem[w] \in ApplicationAttempt /\ TypeOK /\ Synced
  BY DEF AttemptInv, TypeOK, MarkerInv
<1>2. ASSUME NEW p, NEW r, Proceed(w, p, r), r.mode = mem[w].mode,
             p = "save" /\ r.state = "completed" =>
               r.marked \/ r.mode = "fill" \/ Of(w) \in raced
      PROVE  Goal
  BY <1>1, <1>2 DEF Proceed, TypeOK
<1>3. ASSUME NEW item, Proceed(w, "save", Paused(mem[w], item)) PROVE Goal
  <2> DEFINE r == Paused(mem[w], item)
  <2>1. r.mode = mem[w].mode /\ r.state # "completed"
    BY <1>1, RecordKeeps
  <2> HIDE DEF r
  <2> QED BY <1>2, <1>3, <2>1 DEF r
<1>4. ASSUME NEW s, Proceed(w, "save", [mem[w] EXCEPT !.state = s]),
             s = "completed" => mem[w].marked \/ mem[w].mode = "fill" \/ Of(w) \in raced
      PROVE  Goal
  <2> DEFINE r == [mem[w] EXCEPT !.state = s]
  <2>1. r.mode = mem[w].mode /\ r.marked = mem[w].marked /\ r.state = s
    BY <1>1, RecordKeeps
  <2>2. Proceed(w, "save", r)
    BY <1>4
  <2> HIDE DEF r
  <2> QED BY <1>2, <1>4, <2>1, <2>2
<1>5. CASE BindHosted(w) \/ BindCreated(w) \/ BindLocal(w)
  BY <1>2, <1>5 DEF BindHosted, BindCreated, BindLocal
<1>6. CASE BindRefused(w) \/ PageNeedsHuman(w)
  BY <1>3, <1>6 DEF BindRefused, PageNeedsHuman
<1>7. CASE NoDriver(w) \/ NoSubmitControl(w) \/ FilledOnly(w)
  BY <1>4, <1>7 DEF NoDriver, NoSubmitControl, FilledOnly
<1>8. CASE VerifyOnly(w) \/ Observe(w)
  <2>1. mem[w].marked \/ Of(w) \in raced
    BY <1>1, <1>8 DEF VerifyOnly, Unsubmitted, Observe, Synced, Running
  <2>2. \/ \E s : Proceed(w, "save", [mem[w] EXCEPT !.state = s])
        \/ Proceed(w, "save", Paused(mem[w], "browser"))
    BY <1>8 DEF VerifyOnly, Observe, Evidence
  <2> QED BY <1>3, <1>4, <2>1, <2>2
<1>9. CASE Mark(w)
  <2> DEFINE r == [mem[w] EXCEPT !.marked = TRUE, !.state = "running"]
  <2>1. r.mode = mem[w].mode
    BY <1>1 DEF ApplicationAttempt
  <2>2. Proceed(w, "click", r)
    BY <1>9 DEF Mark
  <2> HIDE DEF r
  <2> QED BY <1>2, <2>1, <2>2
<1>10. CASE Click(w)
  BY <1>2, <1>10 DEF Click
<1> QED BY <1>5, <1>6, <1>7, <1>8, <1>9, <1>10 DEF Bind, Drive

\* A handler that was running goes on in the mode it was in.
LEMMA HandlerStep ==
    ASSUME AttemptInv, [Next]_vars, NEW w \in Workers, Running(w)'
    PROVE  \/ /\ Running(w) /\ mem'[w].mode = mem[w].mode
              /\ \/ at'[w] = at[w] /\ mem'[w] = mem[w]
                 \/ Bind(w) \/ Drive(w) \/ Click(w) \/ Observe(w)
           \/ /\ at'[w] = "bind" /\ mem'[w] = attempt[Of(w)]
              /\ UNCHANGED << attempt, task, run >>
<1>1. TypeOK
  BY DEF AttemptInv
<1>2. CASE UNCHANGED << at, mem >>
  BY <1>2 DEF Running
<1>3. ASSUME NEW c \in Clients, Start(c) \/ Resolve(c) \/ Abandon(c)
      PROVE  UNCHANGED << at, mem >>
  BY <1>3 DEF Start, StartCheck, StartInsert, Resolve, ResolveRead, Activate, KeepControl,
              Cancel, ReclaimBinds, Resume, ReclaimFails, Abandon, SaveRequest, SaveCopy
<1>4. ASSUME NEW v \in Workers, v # w, Step(v) \/ Raise(v) \/ Crash(v)
      PROVE  at'[w] = at[w] /\ mem'[w] = mem[w]
  BY <1>1, <1>4
  DEF TypeOK, Step, ReclaimWrite, Claim, Load, Bind, BindHosted, BindCreated, BindLocal, BindRefused,
      Drive, NoDriver, PageNeedsHuman, VerifyOnly, NoSubmitControl, FilledOnly, Mark,
      Click, Observe, Save, Report, Raise, Crash, Proceed, LetGo
<1>5. CASE Bind(w) \/ Drive(w) \/ Click(w) \/ Observe(w)
  <2>1. Running(w)
    BY <1>1, <1>5, HandlerGoesOn DEF AttemptInv, Running
  <2> QED BY <1>5, <2>1, HandlerEarns
<1>6. CASE Load(w)
  BY <1>1, <1>6 DEF Load, TypeOK
<1>7. CASE ReclaimWrite(w) \/ Claim(w) \/ Save(w) \/ Report(w) \/ Raise(w) \/ Crash(w)
  BY <1>1, <1>7 DEF ReclaimWrite, Claim, Save, Report, Raise, Crash, LetGo, TypeOK, Running
<1>8. ASSUME NEW v \in Workers, Step(v) \/ Raise(v) \/ Crash(v)
      PROVE  \/ at'[w] = at[w] /\ mem'[w] = mem[w]
             \/ Bind(w) \/ Drive(w) \/ Click(w) \/ Observe(w) \/ Load(w)
             \/ ReclaimWrite(w) \/ Claim(w) \/ Save(w) \/ Report(w) \/ Raise(w) \/ Crash(w)
  BY <1>4, <1>8 DEF Step
<1>9. CASE at'[w] = at[w] /\ mem'[w] = mem[w]
  BY <1>9 DEF Running
<1>10. CASE UNCHANGED vars
  BY <1>2, <1>10 DEF vars
<1>11. ASSUME NEW v \in Workers, NEW t \in Tasks, ReclaimRead(v, t)
       PROVE  at'[w] = at[w] /\ mem'[w] = mem[w]
  BY <1>1, <1>11 DEF ReclaimRead, TypeOK, Running
<1> QED BY <1>2, <1>3, <1>5, <1>6, <1>7, <1>8, <1>9, <1>10, <1>11 DEF Next

\* A request keeps its copy and what it saw, or has just read them.
LEMMA RequestStep ==
    ASSUME AttemptInv, [Next]_vars, NEW c \in Clients
    PROVE  /\ client'[c].doing = "start" => client'[c].saw = app \/ client'[c] = client[c]
           /\ Resolving(c)' =>
                \/ /\ Resolving(c) /\ client'[c].of = client[c].of
                   /\ client'[c].copy = client[c].copy
                \/ /\ client'[c].of \in Attempts /\ UNCHANGED attempt
                   /\ attempt[client'[c].of].state # NoRow
                   /\ client'[c].copy = attempt[client'[c].of]
<1> DEFINE Goal(q) ==
      /\ q.doing = "start" => q.saw = app \/ q = client[c]
      /\ q.doing \in {"resolve", "reclaim"} =>
           \/ /\ Resolving(c) /\ q.of = client[c].of
              /\ q.copy = client[c].copy
           \/ /\ q.of \in Attempts /\ UNCHANGED attempt
              /\ attempt[q.of].state # NoRow
              /\ q.copy = attempt[q.of]
<1>1. TypeOK /\ client[c] \in Request
  BY DEF AttemptInv, TypeOK
<1>2. Goal(client[c])
  BY DEF Resolving
<1>3. Goal(Quiet)
  BY DEF Quiet
<1>4. ASSUME NEW d \in Clients, NEW q, client' = [client EXCEPT ![d] = q],
             d = c => Goal(q)
      PROVE  Goal(client'[c])
  <2> HIDE DEF Goal
  <2> QED BY <1>1, <1>2, <1>4 DEF TypeOK
<1>5. ASSUME NEW d \in Clients, Start(d) \/ Resolve(d) \/ Abandon(d)
      PROVE  Goal(client'[c])
  <2>1. CASE StartCheck(d)
    <3> DEFINE q == [Quiet EXCEPT !.doing = "start", !.saw = app]
    <3>1. Goal(q)
      BY DEF Quiet
    <3>2. client' = [client EXCEPT ![d] = q]
      BY <2>1 DEF StartCheck
    <3> HIDE DEF q, Goal
    <3> QED BY <1>4, <3>1, <3>2
  <2>2. ASSUME NEW a \in Attempts, NEW item \in Interventions, ResolveRead(d, a, item)
        PROVE  Goal(client'[c])
    <3> DEFINE q == [Quiet EXCEPT !.doing = "resolve", !.of = a, !.item = item,
                                  !.copy = attempt[a]]
    <3>1. q.doing = "resolve" /\ q.of = a /\ q.copy = attempt[a]
      BY DEF Quiet
    <3>2. /\ client' = [client EXCEPT ![d] = q]
          /\ attempt[a].state # NoRow /\ UNCHANGED attempt
      BY <2>2 DEF ResolveRead
    <3> HIDE DEF q
    <3>3. Goal(q)
      BY <3>1, <3>2
    <3> HIDE DEF Goal
    <3> QED BY <1>4, <3>2, <3>3
  <2>3. CASE ReclaimBinds(d)
    <3> DEFINE q == [client[d] EXCEPT !.doing = "reclaim"]
    <3>1. /\ q.doing = "reclaim" /\ q.of = client[d].of /\ q.copy = client[d].copy
          /\ client' = [client EXCEPT ![d] = q] /\ Resolving(d)
      BY <1>1, <2>3 DEF ReclaimBinds, TypeOK, Request, Resolving
    <3> HIDE DEF q
    <3>2. d = c => Goal(q)
      BY <3>1
    <3> HIDE DEF Goal
    <3> QED BY <1>4, <3>1, <3>2
  <2>4. CASE ~ StartCheck(d) /\ ~ ReclaimBinds(d)
             /\ ~ \E a \in Attempts, item \in Interventions : ResolveRead(d, a, item)
    <3>1. client' = [client EXCEPT ![d] = Quiet]
      BY <1>5, <2>4
      DEF Start, StartInsert, Resolve, Activate, KeepControl, Cancel, Resume,
          ReclaimFails, Abandon, SaveRequest
    <3> HIDE DEF Goal
    <3> QED BY <1>3, <1>4, <3>1
  <2> QED BY <2>1, <2>2, <2>3, <2>4
<1>6. ASSUME UNCHANGED client PROVE Goal(client'[c])
  <2> HIDE DEF Goal
  <2> QED BY <1>2, <1>6
<1>7. ASSUME NEW w \in Workers, Step(w) \/ Raise(w) \/ Crash(w) PROVE UNCHANGED client
  BY <1>7
  DEF Step, ReclaimWrite, Claim, Load, Bind, BindHosted, BindCreated, BindLocal, BindRefused,
      Drive, NoDriver, PageNeedsHuman, VerifyOnly, NoSubmitControl, FilledOnly, Mark,
      Click, Observe, Save, Report, Raise, Crash, Proceed
<1>8. Goal(client'[c])
  <2> HIDE DEF Goal
  <2> QED BY <1>5, <1>6, <1>7 DEF Next, ReclaimRead, vars
<1> QED BY <1>8 DEF Resolving

\* The copies in hand go on being in the mode of their rows.
LEMMA ModesKeptStep == AttemptInv /\ ModesKept /\ [Next]_vars => ModesKept'
<1> SUFFICES ASSUME AttemptInv, ModesKept, [Next]_vars PROVE ModesKept'
  OBVIOUS
<1>0. TypeOK /\ Held /\ Existing
  BY DEF AttemptInv
<1>1. ASSUME NEW w \in Workers, Running(w)'
      PROVE  mem'[w].mode = attempt'[Of(w)'].mode
  <2>1. CASE Running(w) /\ mem'[w].mode = mem[w].mode
    <3>1. at[w] # "idle" /\ at'[w] # "idle"
      BY <1>1, <2>1 DEF Running
    <3>2. Of(w)' = Of(w) /\ Of(w) \in Attempts /\ attempt[Of(w)].state # NoRow
      BY <1>0, <3>1, OfStep, OfType
    <3>3. attempt'[Of(w)].mode = attempt[Of(w)].mode
      BY <3>2, RowStep
    <3> QED BY <2>1, <3>2, <3>3 DEF ModesKept
  <2>2. CASE mem'[w] = attempt[Of(w)] /\ UNCHANGED << attempt, task, run >>
    BY <2>2 DEF Of
  <2> QED BY <1>1, <2>1, <2>2, HandlerStep
<1>2. ASSUME NEW c \in Clients, Resolving(c)'
      PROVE  /\ attempt'[client'[c].of].state # NoRow
             /\ client'[c].copy.mode = attempt'[client'[c].of].mode
  <2>1. CASE /\ Resolving(c) /\ client'[c].of = client[c].of
             /\ client'[c].copy = client[c].copy
    <3>1. /\ client[c].of \in Attempts /\ attempt[client[c].of].state # NoRow
          /\ client[c].copy.mode = attempt[client[c].of].mode
      BY <1>0, <2>1 DEF ModesKept, Existing, TypeOK, Request
    <3> QED BY <2>1, <3>1, RowStep
  <2>2. CASE /\ client'[c].of \in Attempts /\ UNCHANGED attempt
             /\ attempt[client'[c].of].state # NoRow
             /\ client'[c].copy = attempt[client'[c].of]
    BY <2>2
  <2> QED BY <1>2, <2>1, <2>2, RequestStep
<1> QED BY <1>1, <1>2 DEF ModesKept

\* A completed attempt that is about to be saved has clicked or was to stop
\* before the click.
LEMMA CompletedIsEarnedStep ==
    AttemptInv /\ CompletedIsEarned /\ [Next]_vars => CompletedIsEarned'
<1> SUFFICES ASSUME AttemptInv, CompletedIsEarned, [Next]_vars,
                    NEW w \in Workers, at'[w] = "save", mem'[w].state = "completed"
             PROVE  mem'[w].marked \/ mem'[w].mode = "fill" \/ Of(w)' \in raced'
  BY DEF CompletedIsEarned
<1>0. TypeOK /\ Held /\ Existing
  BY DEF AttemptInv
<1>1. /\ Running(w)
      /\ \/ at'[w] = at[w] /\ mem'[w] = mem[w]
         \/ Bind(w) \/ Drive(w) \/ Click(w) \/ Observe(w)
  BY HandlerStep DEF Running
<1>2. Of(w)' = Of(w)
  BY <1>0, <1>1, OfStep DEF Running
<1>3. mem'[w].marked \/ mem'[w].mode = "fill" \/ Of(w) \in raced
  <2>1. CASE at'[w] = at[w] /\ mem'[w] = mem[w]
    BY <2>1 DEF CompletedIsEarned
  <2>2. CASE Bind(w) \/ Drive(w) \/ Click(w) \/ Observe(w)
    BY <2>2, HandlerEarns
  <2> QED BY <1>1, <2>1, <2>2
<1> QED BY <1>2, <1>3, RacedGrows

\* What a request has seen of a submitted application stays earned.
LEMMA SeenIsEarnedStep == AttemptInv /\ EarnedInv /\ [Next]_vars => SeenIsEarned'
<1> SUFFICES ASSUME AttemptInv, EarnedInv, [Next]_vars, NEW c \in Clients,
                    client'[c].doing = "start", client'[c].saw \in SUBMITTED_STATES
             PROVE  \E a \in Attempts : Earned(a)'
  BY DEF SeenIsEarned
<1>1. client'[c].saw = app \/ client'[c] = client[c]
  BY RequestStep
<1>2. \E a \in Attempts : Earned(a)
  BY <1>1 DEF EarnedInv, SeenIsEarned, SubmittedIsEarned
<1> QED BY <1>2, EarnedStays DEF EarnedInv

\* Only StartInsert and Save write the application.
LEMMA ApplicationStep ==
    ASSUME [Next]_vars, app' # app
    PROVE  (\E c \in Clients : StartInsert(c)) \/ (\E w \in Workers : Save(w))
<1>1. ASSUME NEW c \in Clients, Start(c) \/ Resolve(c) \/ Abandon(c), ~ StartInsert(c)
      PROVE  UNCHANGED app
  BY <1>1 DEF Start, StartCheck, Resolve, ResolveRead, Activate, KeepControl,
              Cancel, ReclaimBinds, Resume, ReclaimFails, Abandon, SaveRequest, SaveCopy
<1>2. ASSUME NEW w \in Workers, Step(w) \/ Raise(w) \/ Crash(w), ~ Save(w)
      PROVE  UNCHANGED app
  BY <1>2
  DEF Step, ReclaimWrite, Claim, Load, Bind, BindHosted, BindCreated, BindLocal, BindRefused,
      Drive, NoDriver, PageNeedsHuman, VerifyOnly, NoSubmitControl, FilledOnly, Mark,
      Click, Observe, Report, Raise, Crash, Proceed
<1> QED BY <1>1, <1>2 DEF Next, ReclaimRead, vars

\* An application that becomes or stays submitted was earned.
LEMMA SubmittedIsEarnedStep ==
    AttemptInv /\ EarnedInv /\ [Next]_vars => SubmittedIsEarned'
<1> SUFFICES ASSUME AttemptInv, EarnedInv, [Next]_vars, app' \in SUBMITTED_STATES
             PROVE  \E a \in Attempts : Earned(a)'
  BY DEF SubmittedIsEarned
<1>1. ASSUME \E a \in Attempts : Earned(a) PROVE \E a \in Attempts : Earned(a)'
  BY <1>1, EarnedStays DEF EarnedInv
<1>2. CASE app \in SUBMITTED_STATES
  BY <1>1, <1>2 DEF EarnedInv, SubmittedIsEarned
<1>3. ASSUME NEW c \in Clients, StartInsert(c) PROVE \E a \in Attempts : Earned(a)
  <2>1. client[c].doing = "start" /\ client[c].saw \in SUBMITTED_STATES
    BY <1>3, AdvanceEarnsNothing DEF StartInsert
  <2> QED BY <2>1 DEF EarnedInv, SeenIsEarned
<1>4. ASSUME app \notin SUBMITTED_STATES, NEW w \in Workers, Save(w)
      PROVE  \E a \in Attempts : Earned(a)'
  <2>1. at[w] = "save" /\ mem[w].state = "completed"
    BY <1>4, ReconcileEarns DEF Save
  <2>2. mem[w].marked \/ mem[w].mode = "fill" \/ Of(w) \in raced
    BY <2>1 DEF EarnedInv, CompletedIsEarned
  <2>3. Of(w) \in Attempts
    BY <2>1, OfType DEF AttemptInv
  <2>4. attempt'[Of(w)] = mem[w] /\ raced' = raced
    BY <1>4, <2>3 DEF Save, AttemptInv, TypeOK
  <2>5. mem[w].state # NoRow
    BY <2>1 DEF NoRow
  <2>6. Earned(Of(w))'
    <3> DEFINE b == Of(w)
    <3>1. \/ attempt'[b].marked
          \/ attempt'[b].state # NoRow /\ attempt'[b].mode = "fill"
          \/ b \in raced'
      BY <2>2, <2>4, <2>5
    <3>2. Of(w)' = b
      BY <1>4 DEF Save, Of
    <3> QED BY <3>1, <3>2 DEF Earned
  <2>7. Of(w)' \in Attempts
    BY <1>4, <2>3 DEF Save, Of
  <2> QED BY <2>6, <2>7
<1> QED BY <1>1, <1>2, <1>3, <1>4, ApplicationStep

\* Initially nothing is completed, saved or seen.
LEMMA EarnedInvInit == Init /\ StartStates \cap SUBMITTED_STATES = {} => EarnedInv
BY DEF Init, EarnedInv, SubmittedIsEarned, ModesKept, CompletedIsEarned, SeenIsEarned,
       Running, Resolving, Quiet, NoRecord

\* An application that was not submitted when its first attempt started is only
\* marked submitted by an attempt whose click is on record, or that was asked
\* to fill the form and stop, unless an attempt was run twice at once or saved
\* from a stale copy.
THEOREM AttemptEarnsSubmitted ==
    ASSUME StartStates \cap SUBMITTED_STATES = {}
    PROVE  Spec => []SubmittedIsEarned
<1>1. Init => EarnedInv
  BY EarnedInvInit
<1>2. AttemptInv /\ EarnedInv /\ [Next]_vars => EarnedInv'
  BY ModesKeptStep, CompletedIsEarnedStep, SeenIsEarnedStep, SubmittedIsEarnedStep
  DEF EarnedInv
<1>3. EarnedInv => SubmittedIsEarned
  BY DEF EarnedInv
<1> QED BY <1>1, <1>2, <1>3, AttemptInvariance, PTL DEF Spec

-----------------------------------------------------------------------------
(* The queue the attempts rely on *)

TaskStage == [t \in Tasks |-> task[t].state]
Executes == [w \in Workers |-> IF at[w] = "reclaim" THEN NoTask ELSE run[w]]
Reclaims == [w \in Workers |-> IF at[w] = "reclaim" THEN {run[w]} ELSE {}]

Queue ==
    INSTANCE WorkerQueue WITH
        Reuse <- TRUE, stage <- TaskStage, holds <- Executes, read <- Reclaims

\* A worker that is idle has no task in hand.
IdleHands == \A w \in Workers : at[w] = "idle" => run[w] = NoTask

\* What the handler does between the claim and its report is not the queue's.
LEMMA HandlerIsSilent ==
    ASSUME TypeOK, Held, Existing, NEW w \in Workers,
           Load(w) \/ Bind(w) \/ Drive(w) \/ Click(w) \/ Observe(w) \/ Save(w)
    PROVE  /\ UNCHANGED << task, run >>
           /\ at[w] \notin {"idle", "reclaim"} /\ at'[w] \notin {"idle", "reclaim"}
           /\ \A v \in Workers \ {w} : at'[v] = at[v]
<1>1. CASE Load(w) \/ Save(w)
  BY <1>1 DEF Load, Save, TypeOK
<1>2. CASE Bind(w) \/ Drive(w) \/ Click(w) \/ Observe(w)
  BY <1>2, HandlerGoesOn DEF Proceed, TypeOK
<1> QED BY <1>1, <1>2

\* A request leaves the workers alone, and the tasks unless it queues one.
LEMMA RequestQueues ==
    ASSUME TypeOK, Existing, NEW c \in Clients, Start(c) \/ Resolve(c) \/ Abandon(c)
    PROVE  /\ UNCHANGED << at, run >>
           /\ task' # task =>
                \E a \in Attempts, t \in Tasks :
                  Unused(t) /\ task' = [task EXCEPT ![t] = Submitted(a)]
<1>1. UNCHANGED << at, run >>
  BY DEF Start, StartCheck, StartInsert, Resolve, ResolveRead, Activate, KeepControl,
         Cancel, ReclaimBinds, Resume, ReclaimFails, Abandon, SaveRequest, SaveCopy
<1>2. ASSUME NEW a \in Attempts, Enqueue(a), task' # task
      PROVE  \E t \in Tasks : Unused(t) /\ task' = [task EXCEPT ![t] = Submitted(a)]
  BY <1>2 DEF Enqueue
<1>3. CASE StartInsert(c)
  BY <1>1, <1>2, <1>3 DEF StartInsert
<1>4. CASE Resume(c)
  <2>1. client[c].of \in Attempts
    BY <1>4 DEF Resume, SaveRequest, SaveCopy, TypeOK, Existing, Request
  <2> QED BY <1>1, <1>2, <1>4, <2>1 DEF Resume
<1>5. CASE ~ StartInsert(c) /\ ~ Resume(c)
  BY <1>1, <1>5 DEF Start, StartCheck, Resolve, ResolveRead, Activate, KeepControl,
                    Cancel, ReclaimBinds, ReclaimFails, Abandon
<1> QED BY <1>3, <1>4, <1>5

\* Every step leaves the idle workers empty-handed.
LEMMA IdleHandsStep == AttemptInv /\ IdleHands /\ [Next]_vars => IdleHands'
<1> SUFFICES ASSUME TypeOK, Held, Existing, IdleHands, [Next]_vars PROVE IdleHands'
  BY DEF AttemptInv
<1>1. CASE UNCHANGED << at, run >>
  BY <1>1 DEF IdleHands
<1>2. ASSUME NEW c \in Clients, Start(c) \/ Resolve(c) \/ Abandon(c) PROVE IdleHands'
  BY <1>1, <1>2, RequestQueues
<1>3. ASSUME NEW w \in Workers, NEW t \in Tasks, ReclaimRead(w, t) PROVE IdleHands'
  BY <1>3 DEF ReclaimRead, IdleHands, TypeOK
<1>4. ASSUME NEW w \in Workers, Step(w) \/ Raise(w) \/ Crash(w) PROVE IdleHands'
  <2>1. CASE Claim(w)
    BY <2>1 DEF Claim, IdleHands, TypeOK
  <2>2. CASE ReclaimWrite(w) \/ Report(w) \/ Raise(w) \/ Crash(w)
    BY <2>2 DEF ReclaimWrite, Report, Raise, Crash, LetGo, IdleHands, TypeOK
  <2>3. CASE Load(w) \/ Bind(w) \/ Drive(w) \/ Click(w) \/ Observe(w) \/ Save(w)
    <3>1. /\ run' = run /\ at'[w] # "idle" /\ \A v \in Workers \ {w} : at'[v] = at[v]
      BY <2>3, HandlerIsSilent
    <3> QED BY <3>1 DEF IdleHands
  <2> QED BY <1>4, <2>1, <2>2, <2>3 DEF Step
<1> QED BY <1>1, <1>2, <1>3, <1>4 DEF Next, vars

\* Writing one task row changes the stage of one task.
LEMMA TaskMaps ==
    ASSUME TypeOK, NEW t \in Tasks, NEW r, task' = [task EXCEPT ![t] = r]
    PROVE  TaskStage' = [TaskStage EXCEPT ![t] = r.state]
BY DEF TypeOK, TaskStage

\* So does assigning its state.
LEMMA TaskStateMaps ==
    ASSUME TypeOK, NEW t \in Tasks, NEW s, task' = [task EXCEPT ![t].state = s]
    PROVE  TaskStage' = [TaskStage EXCEPT ![t] = s]
BY DEF TypeOK, TaskRow, TaskStage

\* A worker that lets go has neither a task nor a reclaim in hand.
LEMMA LetGoMaps ==
    ASSUME TypeOK, NEW w \in Workers, LetGo(w)
    PROVE  /\ Executes' = [Executes EXCEPT ![w] = NoTask]
           /\ Reclaims' = [Reclaims EXCEPT ![w] = {}]
<1>1. /\ at'[w] = "idle" /\ run'[w] = NoTask
      /\ \A v \in Workers \ {w} : at'[v] = at[v] /\ run'[v] = run[v]
  BY DEF LetGo, TypeOK
<1> QED BY <1>1 DEF Executes, Reclaims

\* A request submits a task or does not touch the queue.
LEMMA RequestMaps ==
    ASSUME TypeOK, Existing, NEW c \in Clients, Start(c) \/ Resolve(c) \/ Abandon(c)
    PROVE  Queue!Next \/ UNCHANGED Queue!vars
<1>1. UNCHANGED << at, run, Executes, Reclaims >>
  BY RequestQueues DEF Executes, Reclaims
<1>2. CASE task' = task
  BY <1>1, <1>2 DEF Queue!vars, TaskStage
<1>3. CASE task' # task
  <2>1. PICK a \in Attempts, t \in Tasks :
          Unused(t) /\ task' = [task EXCEPT ![t] = Submitted(a)]
    BY <1>3, RequestQueues
  <2>2. TaskStage' = [TaskStage EXCEPT ![t] = Submitted(a).state]
    BY <2>1, TaskMaps
  <2>3. Submitted(a).state = "pending"
    BY DEF Submitted
  <2>4. TaskStage[t] = "absent" \/ Queue!Forgotten(t)
    <3>1. CASE task[t].state = "absent"
      BY <3>1 DEF TaskStage
    <3>2. CASE task[t].state = "over" /\ \A w \in Workers : run[w] # t
      <4>1. t # NoTask
        BY AttemptNames
      <4>2. \A w \in Workers : Executes[w] # t /\ t \notin Reclaims[w]
        BY <3>2, <4>1 DEF Executes, Reclaims
      <4> QED BY <3>2, <4>2 DEF Queue!Forgotten, TaskStage
    <3> QED BY <2>1, <3>1, <3>2 DEF Unused
  <2>5. Queue!Submit(t)
    BY <1>1, <2>2, <2>3, <2>4 DEF Queue!Submit
  <2> QED BY <2>5 DEF Queue!Next
<1> QED BY <1>2, <1>3

\* A worker that is idle is free.
LEMMA IdleIsFree ==
    ASSUME IdleHands, NEW w \in Workers, at[w] = "idle"
    PROVE  Queue!Free(w)
BY DEF IdleHands, Queue!Free, Executes, Reclaims

\* A worker claims, reclaims, reports and crashes as the queue promises.
LEMMA WorkerMaps ==
    ASSUME TypeOK, Held, Existing, IdleHands, NEW w \in Workers,
           Step(w) \/ Raise(w) \/ Crash(w)
    PROVE  Queue!Next \/ UNCHANGED Queue!vars
<1>1. CASE Claim(w)
  <2>1. PICK t \in Tasks : /\ task[t].state = "pending"
                           /\ task' = [task EXCEPT ![t].state = "running"]
                           /\ run' = [run EXCEPT ![w] = t]
    BY <1>1 DEF Claim
  <2>2. TaskStage' = [TaskStage EXCEPT ![t] = "running"] /\ TaskStage[t] = "pending"
    BY <2>1, TaskStateMaps DEF TaskStage
  <2>3. at[w] = "idle" /\ at' = [at EXCEPT ![w] = "load"]
    BY <1>1 DEF Claim
  <2>4. /\ at'[w] = "load" /\ run'[w] = t
        /\ \A v \in Workers \ {w} : at'[v] = at[v] /\ run'[v] = run[v]
    BY <2>1, <2>3 DEF TypeOK
  <2>5. Executes' = [Executes EXCEPT ![w] = t] /\ Reclaims' = Reclaims
    BY <2>3, <2>4 DEF Executes, Reclaims
  <2>6. Queue!Take(w, t)
    BY <2>2, <2>3, <2>5, IdleIsFree DEF Queue!Take
  <2> QED BY <2>6 DEF Queue!Next
<1>2. CASE Report(w) \/ Raise(w)
  <2>1. at[w] \notin {"idle", "reclaim"}
    BY <1>2 DEF Report, Raise, Running
  <2>2. run[w] \in Tasks /\ Executes[w] = run[w] /\ Reclaims[w] = {}
    BY <2>1, OfType DEF Executes, Reclaims
  <2>3. run[w] # NoTask
    BY <2>2, AttemptNames
  <2>4. TaskStage' = [TaskStage EXCEPT ![run[w]] = "over"]
    BY <1>2, <2>2, TaskStateMaps DEF Report, Raise
  <2>5. LetGo(w)
    BY <1>2 DEF Report, Raise
  <2>6. Executes' = [Executes EXCEPT ![w] = NoTask] /\ Reclaims' = Reclaims
    BY <2>2, <2>5, LetGoMaps DEF Reclaims
  <2>7. Queue!Report(w)
    BY <2>2, <2>3, <2>4, <2>6 DEF Queue!Report
  <2> QED BY <2>7 DEF Queue!Next
<1>3. CASE Crash(w)
  <2>1. LetGo(w) /\ TaskStage' = TaskStage
    BY <1>3 DEF Crash, TaskStage
  <2>2. Queue!Drop(w)
    BY <2>1, LetGoMaps DEF Queue!Drop
  <2> QED BY <2>2 DEF Queue!Next
<1>4. CASE ReclaimWrite(w)
  <2>1. at[w] = "reclaim" /\ LetGo(w)
    BY <1>4 DEF ReclaimWrite
  <2>2. run[w] \in Tasks /\ Reclaims[w] = {run[w]} /\ Executes[w] = NoTask
    BY <2>1, OfType DEF Reclaims, Executes
  <2>3. Executes' = Executes /\ Reclaims' = [Reclaims EXCEPT ![w] = {}]
    BY <2>1, <2>2, LetGoMaps DEF Executes
  <2>4. \A t \in Tasks : task'[t].state = IF t \in Reclaims[w] THEN "pending" ELSE task[t].state
    BY <1>4, <2>2, ReclaimFrame
  <2>5. TaskStage' = [t \in Tasks |-> IF t \in Reclaims[w] THEN "pending" ELSE TaskStage[t]]
    BY <2>4 DEF TaskStage
  <2>6. Queue!Return(w)
    BY <2>3, <2>5 DEF Queue!Return
  <2> QED BY <2>6 DEF Queue!Next
<1>5. CASE Load(w) \/ Bind(w) \/ Drive(w) \/ Click(w) \/ Observe(w) \/ Save(w)
  <2>1. /\ UNCHANGED << task, run >>
        /\ at[w] # "reclaim" /\ at'[w] # "reclaim"
        /\ \A v \in Workers \ {w} : at'[v] = at[v]
    BY <1>5, HandlerIsSilent
  <2>2. UNCHANGED << TaskStage, Executes, Reclaims >>
    BY <2>1 DEF TaskStage, Executes, Reclaims
  <2> QED BY <2>2 DEF Queue!vars
<1> QED BY <1>1, <1>2, <1>3, <1>4, <1>5 DEF Step

\* The SELECT of a reclaim finds a running task.
LEMMA PollMaps ==
    ASSUME TypeOK, IdleHands, NEW w \in Workers, NEW t \in Tasks, ReclaimRead(w, t)
    PROVE  Queue!Next
<1>1. /\ at[w] = "idle" /\ at' = [at EXCEPT ![w] = "reclaim"] /\ task[t].state = "running"
      /\ run' = [run EXCEPT ![w] = t] /\ task' = task
  BY DEF ReclaimRead
<1>2. /\ at'[w] = "reclaim" /\ run'[w] = t
      /\ \A v \in Workers \ {w} : at'[v] = at[v] /\ run'[v] = run[v]
  BY <1>1 DEF TypeOK
<1>3. Executes' = Executes /\ Reclaims' = [Reclaims EXCEPT ![w] = {t}]
  BY <1>1, <1>2 DEF Executes, Reclaims, IdleHands
<1>4. TaskStage' = TaskStage /\ TaskStage[t] = "running"
  BY <1>1 DEF TaskStage
<1>5. Queue!Find(w, {t})
  BY <1>1, <1>3, <1>4, IdleIsFree DEF Queue!Find
<1> QED BY <1>5 DEF Queue!Next

\* The attempts ask nothing of the queue that it does not promise: every step
\* of theirs is one of WorkerQueue, which TaskQueue implements, or none.
THEOREM AttemptsRelyOnWorkerQueue == Spec => Queue!Spec
<1>1. Init => IdleHands
  BY DEF Init, IdleHands
<1>2. Init => Queue!Init
  BY DEF Init, Queue!Init, TaskStage, Executes, Reclaims
<1>3. AttemptInv /\ IdleHands /\ [Next]_vars => [Queue!Next]_(Queue!vars)
  <2> SUFFICES ASSUME TypeOK, Held, Existing, IdleHands, [Next]_vars
               PROVE  Queue!Next \/ UNCHANGED Queue!vars
    BY DEF AttemptInv
  <2>1. CASE UNCHANGED vars
    BY <2>1 DEF vars, Queue!vars, TaskStage, Executes, Reclaims
  <2> QED BY <2>1, RequestMaps, WorkerMaps, PollMaps DEF Next
<1> QED BY <1>1, <1>2, <1>3, IdleHandsStep, AttemptInvariance, PTL DEF Spec, Queue!Spec
=============================================================================
