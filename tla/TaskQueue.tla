----------------------------- MODULE TaskQueue -----------------------------
(***************************************************************************)
(* The durable task queue: tasks/queue.py, tasks/worker.py and             *)
(* db/repositories/tasks.py over one SQLite file shared by several worker  *)
(* processes (the API server and the TUI each run one).                    *)
(*                                                                         *)
(* Rows.  row[t] is the committed tasks row.  A worker that executes a     *)
(* task works on its own TaskRecord, rec[w], read when it claimed;         *)
(* TaskRepository.save re-reads the row and assigns every column from the  *)
(* record (task_to_row), so a save replaces the whole row.                 *)
(*                                                                         *)
(* Transactions.  A session's first flush takes SQLite's write lock until  *)
(* its commit.  claim_next and reclaim_expired_leases commit themselves;   *)
(* complete and fail are the last writes of the worker's unit of work, so  *)
(* each is one step with its commit.  checkpoint only flushes: the worker  *)
(* then holds the lock (txn = w) with rec[w] uncommitted.                  *)
(*                                                                         *)
(* Time.  lease_expires_at and the handler's wait_for budget are kept as   *)
(* remaining time, counted down by Tick: only their order matters.         *)
(* scheduled_for is only read for pending rows, and every step that makes  *)
(* a row pending sets it to now; so ordering by scheduled_for is ordering  *)
(* by arrival, kept as the set earlier[t] of pending tasks before t.       *)
(***************************************************************************)
EXTENDS Integers, Sequences, RecoveryPolicy

CONSTANTS
    Workers,        \* worker loops, one per process
    Tasks,          \* task ids (ULIDs) available to be inserted
    Clients,        \* units of work that call TaskQueue.submit
    Keys,           \* idempotency keys
    Priorities,     \* priorities passed to submit
    Work,           \* kinds of task that get submitted, see WorkKinds
    Failures,       \* the errors a handler may raise
    Strategies,     \* TaskHandler.strategies, in preference order
    MaxAttempts,    \* TaskRecord.max_attempts
    AttemptCap,     \* bound: len(task.attempts) is counted up to here
    MaxProgress,    \* bound: checkpoints per task
    MaxCrashes,     \* bound: crashes of worker processes
    LeaseTime,      \* lease_seconds (300 in the code), in ticks
    Timeout,        \* TaskHandler.timeout_seconds (600 in the code), in ticks
    NoTask, NoWorker, NoKey

\* runnable: a registered kind with a valid payload.  malformed: the payload
\* fails the handler's input schema.  unhandled: no handler for the kind.
WorkKinds == {"runnable", "malformed", "unhandled"}

ASSUME NamesAssumption ==
    /\ NoTask \notin Tasks
    /\ NoWorker \notin Workers
    /\ NoKey \notin Keys

ASSUME BoundsAssumption ==
    /\ MaxAttempts \in Nat \ {0}
    /\ AttemptCap \in Nat
    \* every comparison of attempt_count in the code is with one of these
    /\ AttemptCap > MaxAttempts /\ AttemptCap > MAX_INVALID_OUTPUT_ATTEMPTS
    /\ MaxProgress \in Nat
    /\ MaxCrashes \in Nat
    /\ LeaseTime \in Nat
    /\ Timeout \in Nat

\* The registered strategies, without their order.
StrategyNames == {Strategies[i] : i \in 1 .. Len(Strategies)}

ASSUME InputsAssumption ==
    /\ Priorities \subseteq Nat
    /\ Work \subseteq WorkKinds
    /\ Failures \subseteq Error
    /\ Strategies \in Seq(STRING)
    /\ NoStrategy \notin StrategyNames

VARIABLES
    row,        \* row[t]: the committed tasks row
    earlier,    \* earlier[t]: the pending tasks scheduled before pending t
    asking,     \* asking[c]: the key client c found no live task for
    at,         \* at[w]: where worker w is in run_once
    picked,     \* picked[w]: the id claim_next selected and not yet updated
    expired,    \* expired[w][t]: attempts read by reclaim, not yet written back
    holding,    \* holding[w]: the task worker w is executing
    rec,        \* rec[w]: w's in-memory TaskRecord
    budget,     \* budget[w]: remaining time of wait_for
    txn,        \* the worker whose session holds the write lock
    crashes,    \* crashes so far
    contested   \* history: tasks reclaimed from a live or second claimant

vars == << row, earlier, asking, at, picked, expired, holding, rec, budget,
           txn, crashes, contested >>

\* The next thing run_once does: reclaim_expired's SELECT, its commit,
\* claim_next's SELECT, its UPDATE, _execute.
Places == {"poll", "reclaim", "select", "update", "execute"}

TaskState == {"pending", "running", "succeeded", "retrying", "failed",
              "blocked", "cancelled"}

TASK_TERMINAL_STATES == {"succeeded", "failed", "cancelled"}

Lapsed == -1    \* lease_expires_at < now
NoLease == -2   \* lease_expires_at is None
NotRead == -1   \* the reclaim of this worker did not read this row
NoRow == "absent"

Leases == {NoLease, Lapsed} \cup (0 .. LeaseTime)

TaskRecord ==
    [ state    : TaskState \cup {NoRow},
      key      : Keys \cup {NoKey},
      work     : WorkKinds,
      priority : Nat,
      lease    : Leases,
      attempts : 0 .. AttemptCap,
      tried    : SUBSET StrategyNames,
      resume   : 0 .. MaxProgress ]

\* A row that is not in the table, and the record of an idle worker.
Blank == [ state |-> NoRow, key |-> NoKey, work |-> "runnable", priority |-> 0,
           lease |-> NoLease, attempts |-> 0, tried |-> {}, resume |-> 0 ]

NothingRead == [t \in Tasks |-> NotRead]

Init ==
    /\ row = [t \in Tasks |-> Blank]
    /\ earlier = [t \in Tasks |-> {}]
    /\ asking = [c \in Clients |-> NoKey]
    /\ at = [w \in Workers |-> "poll"]
    /\ picked = [w \in Workers |-> NoTask]
    /\ expired = [w \in Workers |-> NothingRead]
    /\ holding = [w \in Workers |-> NoTask]
    /\ rec = [w \in Workers |-> Blank]
    /\ budget = [w \in Workers |-> 0]
    /\ txn = NoWorker
    /\ crashes = 0
    /\ contested = {}

-----------------------------------------------------------------------------
(* Helpers *)

Recorded(n) == IF n < AttemptCap THEN n + 1 ELSE AttemptCap

PendingOrRunning(t) ==                  \* mutant: the claim looks at running rows
    row[t].state \in {"pending", "running"}

PendingOrFailed(t) ==                   \* mutant: the claim looks at failed rows
    row[t].state \in {"pending", "failed"}

Pending(t) == row[t].state = "pending"

\* The tasks in T become pending now; no other row changes its state.
Arrive(T) ==
    earlier' = [t \in Tasks |->
                  IF t \in T THEN {u \in Tasks \ T : Pending(u)} ELSE earlier[t] \ T]

\* t is pending no more.
Leave(t) ==
    earlier' = [u \in Tasks |-> IF u = t THEN {} ELSE earlier[u] \ {t}]

Goto(w, place) == at' = [at EXCEPT ![w] = place]

\* SQLite has one writer at a time.
CanWrite(w) == txn \in {NoWorker, w}

AnyDue(t) ==                            \* mutant: no ORDER BY scheduled_for
    /\ Pending(t)
    /\ \A u \in Tasks : Pending(u) => row[u].priority <= row[t].priority

\* ORDER BY priority DESC, scheduled_for LIMIT 1
Duest(t) ==
    /\ Pending(t)
    /\ \A u \in Tasks : Pending(u) =>
         \/ row[u].priority < row[t].priority
         \/ row[u].priority = row[t].priority /\ u \notin earlier[t]

\* Worker w's unit of work ends: its record is dropped, its lock released.
Release(w) ==
    /\ Goto(w, "poll")
    /\ holding' = [holding EXCEPT ![w] = NoTask]
    /\ rec' = [rec EXCEPT ![w] = Blank]
    /\ budget' = [budget EXCEPT ![w] = 0]
    /\ txn' = IF txn = w THEN NoWorker ELSE txn

\* TaskRepository.save of the record r as the last write of w's unit of work.
SaveAndFinish(w, r) ==
    /\ CanWrite(w)
    /\ row' = [row EXCEPT ![holding[w]] = r]
    /\ Leave(holding[w])
    /\ Release(w)
    /\ UNCHANGED << asking, picked, expired, crashes, contested >>

-----------------------------------------------------------------------------
(* Submitting: TaskQueue.submit and TaskRepository.enqueue *)

\* A live task with the key exists: enqueue returns it and nothing changes.
\* Otherwise the client goes on to insert.
EnqueueCheck(c, k) ==
    /\ asking[c] = NoKey
    /\ ~ \E t \in Tasks : row[t].key = k /\ row[t].state \in {"pending", "running"}
    /\ asking' = [asking EXCEPT ![c] = k]
    /\ UNCHANGED << row, earlier, at, picked, expired, holding, rec, budget, txn,
                    crashes, contested >>

EnqueueInsert(c) ==
    /\ asking[c] # NoKey
    /\ txn = NoWorker
    /\ \E t \in Tasks, p \in Priorities, k \in Work :
         /\ row[t].state = NoRow
         /\ row' = [row EXCEPT ![t] =
                      [Blank EXCEPT !.state = "pending", !.key = asking[c],
                                    !.work = k, !.priority = p]]
         /\ Arrive({t})
    /\ asking' = [asking EXCEPT ![c] = NoKey]
    /\ UNCHANGED << at, picked, expired, holding, rec, budget, txn, crashes, contested >>

-----------------------------------------------------------------------------
(* Polling: TaskWorker.run_once, first half *)

\* reclaim_expired_leases, the SELECT: running rows whose lease has lapsed.
\* The history variable notes a row that somebody else still has a claim on.
ReclaimRead(w) ==
    LET lapsed == {t \in Tasks : row[t].state = "running" /\ row[t].lease = Lapsed}
        taken == {t \in lapsed : \E v \in Workers :
                     holding[v] = t \/ expired[v][t] # NotRead}
    IN  /\ at[w] = "poll"
        /\ Goto(w, IF lapsed = {} THEN "select" ELSE "reclaim")
        /\ expired' = [expired EXCEPT ![w] =
                         [t \in Tasks |-> IF t \in lapsed THEN row[t].attempts ELSE NotRead]]
        /\ contested' = contested \cup taken
        /\ UNCHANGED << row, earlier, asking, picked, holding, rec, budget, txn,
                        crashes >>

\* reclaim_expired_leases, the commit: the columns the loop assigned are
\* written whatever the rows hold by now.
ReclaimWrite(w) ==
    LET read == {t \in Tasks : expired[w][t] # NotRead}
    IN  /\ at[w] = "reclaim"
        /\ CanWrite(w)
        /\ row' = [t \in Tasks |->
                     IF t \in read
                     THEN [row[t] EXCEPT !.state = "pending", !.lease = NoLease,
                                         !.attempts = Recorded(expired[w][t])]
                     ELSE row[t]]
        /\ Arrive(read)
        /\ expired' = [expired EXCEPT ![w] = NothingRead]
        /\ Goto(w, "select")
        /\ UNCHANGED << asking, picked, holding, rec, budget, txn, crashes, contested >>

\* claim_next, the SELECT.
ClaimSelect(w) ==
    /\ at[w] = "select"
    /\ \E t \in Tasks :
         /\ Duest(t)
         /\ picked' = [picked EXCEPT ![w] = t]
    /\ Goto(w, "update")
    /\ UNCHANGED << row, earlier, asking, expired, holding, rec, budget, txn,
                    crashes, contested >>

\* Nothing is due: run_once returns False.
NothingDue(w) ==
    /\ at[w] = "select"
    /\ ~ \E t \in Tasks : Pending(t)
    /\ Goto(w, "poll")
    /\ UNCHANGED << row, earlier, asking, picked, expired, holding, rec, budget,
                    txn, crashes, contested >>

ClaimedForever(r) ==                    \* mutant: no lease_expires_at
    [r EXCEPT !.state = "running"]

ClaimedAfresh(r) ==                     \* mutant: a new claim forgets the checkpoint
    [r EXCEPT !.state = "running", !.lease = LeaseTime, !.resume = 0]

\* The values of claim_next's UPDATE.
Claimed(r) == [r EXCEPT !.state = "running", !.lease = LeaseTime]

\* claim_next, the conditional UPDATE and its commit.
ClaimUpdate(w) ==
    LET t == picked[w]
        claimed == Claimed(row[t])
    IN  /\ at[w] = "update"
        /\ CanWrite(w)
        /\ Pending(t)
        /\ row' = [row EXCEPT ![t] = claimed]
        /\ Leave(t)
        /\ holding' = [holding EXCEPT ![w] = t]
        /\ rec' = [rec EXCEPT ![w] = claimed]
        /\ budget' = [budget EXCEPT ![w] = Timeout]
        /\ picked' = [picked EXCEPT ![w] = NoTask]
        /\ Goto(w, "execute")
        /\ UNCHANGED << asking, expired, txn, crashes, contested >>

\* rowcount is 0: another worker's update landed first.
ClaimLost(w) ==
    /\ at[w] = "update"
    /\ ~ Pending(picked[w])
    /\ picked' = [picked EXCEPT ![w] = NoTask]
    /\ Goto(w, "poll")
    /\ UNCHANGED << row, earlier, asking, expired, holding, rec, budget, txn,
                    crashes, contested >>

-----------------------------------------------------------------------------
(* Executing: TaskWorker._execute *)

\* The record's work, when w executes one.
Executing(w, kind) == at[w] = "execute" /\ rec[w].work = kind

\* get_handler raises for an unknown kind; the exception leaves run_once, the
\* unit of work rolls back and the committed claim stays.
Unhandled(w) ==
    /\ Executing(w, "unhandled")
    /\ Release(w)
    /\ UNCHANGED << row, earlier, asking, picked, expired, crashes, contested >>

\* The payload fails validation.
RejectPayload(w) ==
    /\ Executing(w, "malformed")
    /\ SaveAndFinish(w, [rec[w] EXCEPT !.state = "failed"])

\* TaskQueue.checkpoint: a flush of the record, no commit.
Checkpoint(w) ==
    /\ Executing(w, "runnable")
    /\ CanWrite(w)
    /\ rec[w].resume < MaxProgress
    /\ rec' = [rec EXCEPT ![w].resume = @ + 1]
    /\ txn' = w
    /\ UNCHANGED << row, earlier, asking, at, picked, expired, holding, budget,
                    crashes, contested >>

\* TaskQueue.complete
Complete(w) ==
    /\ Executing(w, "runnable")
    /\ SaveAndFinish(w, [rec[w] EXCEPT !.state = "succeeded"])

\* The strategy every except clause of _execute passes to fail.
BlamedStrategy(w) == IF Strategies = << >> THEN NoStrategy ELSE Strategies[1]

FailedUncounted(w, error) ==            \* mutant: the policy decides before the count
    LET r == rec[w]
        action == decide(r.attempts, MaxAttempts, r.tried, error, Strategies)
    IN  [r EXCEPT !.attempts = Recorded(@), !.state = action,
                  !.lease = IF action = "retrying" THEN NoLease ELSE @]

\* The record fail leaves: the attempt and the blamed strategy are recorded
\* first, then the policy decides.
FailedRecord(w, error) ==
    LET r == rec[w]
        count == Recorded(r.attempts)
        blamed == BlamedStrategy(w)
        tried == IF blamed = NoStrategy THEN r.tried ELSE r.tried \cup {blamed}
        action == decide(count, MaxAttempts, tried, error, Strategies)
    IN  [r EXCEPT !.attempts = count, !.tried = tried, !.state = action,
                  !.lease = IF action = "retrying" THEN NoLease ELSE @]

\* TaskQueue.fail
Fail(w, error) ==
    /\ Executing(w, "runnable")
    /\ SaveAndFinish(w, FailedRecord(w, error))

HandlerRaises(w) == \E error \in Failures : Fail(w, error)

\* wait_for gives up on the handler.
TimedOut(w) ==
    /\ budget[w] = 0
    /\ Fail(w, ErrorOf("transient_network"))

\* Another session holds the write lock past busy_timeout: the save raises out
\* of run_once and the worker's unit of work rolls back.
SaveBusy(w) ==
    /\ at[w] = "execute"
    /\ ~ CanWrite(w)
    /\ Release(w)
    /\ UNCHANGED << row, earlier, asking, picked, expired, crashes, contested >>

-----------------------------------------------------------------------------
(* Operators, crashes, time *)

\* TaskQueue.requeue of a blocked task after a human acted.
Requeue(t) ==
    /\ row[t].state = "blocked"
    /\ txn = NoWorker
    /\ row' = [row EXCEPT ![t].state = "pending", ![t].lease = NoLease]
    /\ Arrive({t})
    /\ UNCHANGED << asking, at, picked, expired, holding, rec, budget, txn,
                    crashes, contested >>

\* TaskQueue.block of a task no worker runs.
Block(t) ==
    /\ row[t].state \in {"pending", "retrying"}
    /\ txn = NoWorker
    /\ row' = [row EXCEPT ![t].state = "blocked"]
    /\ Leave(t)
    /\ UNCHANGED << asking, at, picked, expired, holding, rec, budget, txn,
                    crashes, contested >>

\* The worker's process dies and is started again.
Crash(w) ==
    /\ at[w] # "poll"
    /\ crashes < MaxCrashes
    /\ crashes' = crashes + 1
    /\ picked' = [picked EXCEPT ![w] = NoTask]
    /\ expired' = [expired EXCEPT ![w] = NothingRead]
    /\ Release(w)
    /\ UNCHANGED << row, earlier, asking, contested >>

CountDownAll(n) == n - 1                \* mutant: absent and lapsed leases count too

CountDown(n) == IF n >= 0 THEN n - 1 ELSE n

Tick ==
    /\ row' = [t \in Tasks |-> [row[t] EXCEPT !.lease = CountDown(@)]]
    /\ rec' = [w \in Workers |-> [rec[w] EXCEPT !.lease = CountDown(@)]]
    /\ budget' = [w \in Workers |-> IF budget[w] > 0 THEN budget[w] - 1 ELSE 0]
    /\ UNCHANGED << earlier, asking, at, picked, expired, holding, txn, crashes, contested >>

-----------------------------------------------------------------------------
Poll(w) ==
    \/ ReclaimRead(w)
    \/ ReclaimWrite(w)
    \/ ClaimSelect(w)
    \/ NothingDue(w)
    \/ ClaimUpdate(w)
    \/ ClaimLost(w)

EndOfRun(w) ==
    \/ Unhandled(w)
    \/ RejectPayload(w)
    \/ Complete(w)
    \/ HandlerRaises(w)
    \/ TimedOut(w)
    \/ SaveBusy(w)

Next ==
    \/ \E c \in Clients : (\E k \in Keys : EnqueueCheck(c, k)) \/ EnqueueInsert(c)
    \/ \E w \in Workers : Poll(w) \/ Checkpoint(w) \/ EndOfRun(w) \/ Crash(w)
    \/ \E t \in Tasks : Requeue(t) \/ Block(t)
    \/ Tick

Spec == Init /\ [][Next]_vars

\* The worker loop polls once a second and wait_for ends every handler, so a
\* worker keeps polling and finishes what it started; time passes.  Crashes
\* are bounded.  Nothing is assumed of the clients or of the operators.
Fairness ==
    /\ \A w \in Workers : WF_vars(Poll(w)) /\ WF_vars(EndOfRun(w))
    /\ WF_vars(Tick)

FairSpec == Spec /\ Fairness

-----------------------------------------------------------------------------
(* Properties *)

TypeOK ==
    /\ row \in [Tasks -> TaskRecord]
    /\ earlier \in [Tasks -> SUBSET Tasks]
    /\ asking \in [Clients -> Keys \cup {NoKey}]
    /\ at \in [Workers -> Places]
    /\ picked \in [Workers -> Tasks \cup {NoTask}]
    /\ expired \in [Workers -> [Tasks -> {NotRead} \cup (0 .. AttemptCap)]]
    /\ holding \in [Workers -> Tasks \cup {NoTask}]
    /\ rec \in [Workers -> TaskRecord]
    /\ budget \in [Workers -> 0 .. Timeout]
    /\ txn \in Workers \cup {NoWorker}
    /\ crashes \in 0 .. MaxCrashes
    /\ contested \subseteq Tasks

\* Where a worker is tells what it has in hand.
Placed ==
    \A w \in Workers :
        /\ at[w] = "execute" <=> holding[w] # NoTask
        /\ at[w] = "update" => picked[w] # NoTask
        /\ at[w] # "reclaim" => expired[w] = NothingRead

\* Worker w is executing t, or is about to reclaim it.
Claimant(w, t) == holding[w] = t \/ expired[w][t] # NotRead

\* As long as no reclaim has met a task whose holder was merely slow, or that
\* another reclaim had already read, at most one worker at a time is executing
\* or reclaiming it, and its row says running: the conditional UPDATE of
\* claim_next and the lease of reclaim_expired_leases exclude everybody else.
SingleClaimant ==
    \A t \in Tasks \ contested : \A w \in Workers :
        Claimant(w, t) =>
            /\ row[t].state = "running"
            /\ \A v \in Workers : Claimant(v, t) => v = w

\* The copies a claimant writes back contain what is on record.
CurrentCopies ==
    \A t \in Tasks \ contested : \A w \in Workers :
        /\ holding[w] = t =>
             /\ row[t].attempts <= rec[w].attempts
             /\ row[t].tried \subseteq rec[w].tried
             /\ row[t].resume <= rec[w].resume
        /\ expired[w][t] # NotRead => row[t].attempts <= expired[w][t]

\* SingleClaimant with what makes it inductive.
QueueInv == TypeOK /\ Placed /\ SingleClaimant /\ CurrentCopies

\* A finished task stays finished: no late save of TaskRepository.save and no
\* stale reclaim commit brings an uncontested task back or changes its outcome.
FinishedStaysFinished ==
    [][\A t \in Tasks \ contested' :
          row[t].state \in TASK_TERMINAL_STATES => row'[t].state = row[t].state]_vars

\* What self-healing reads of an uncontested task only grows: recorded
\* attempts, burned strategies, checkpointed progress.  save writes the whole
\* record, so this needs the record to be current at every save.
HistoryOnlyGrows ==
    [][\A t \in Tasks \ contested' : row[t].state # NoRow =>
          /\ row[t].attempts <= row'[t].attempts
          /\ row[t].tried \subseteq row'[t].tried
          /\ row[t].resume <= row'[t].resume]_vars

\* The policy only schedules a retry within the budget: the failed attempt is
\* counted before it decides, lost leases count as attempts, and no stale
\* write leaves a task that used up max_attempts waiting for another run.
RetryHasBudget ==
    \A t \in Tasks : row[t].state = "retrying" => row[t].attempts < MaxAttempts

\* "A crashed worker must not wedge its tasks forever": whatever happens to
\* its worker, a running row is eventually something else.
LostWorkIsReclaimed ==
    \A t \in Tasks : row[t].state = "running" ~> row[t].state # "running"

\* claim_next takes the oldest pending task of the highest priority, so with
\* one priority no pending task waits forever.
PendingIsClaimed ==
    \A t \in Tasks : Pending(t) ~> ~ Pending(t)
=============================================================================
