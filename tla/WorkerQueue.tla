----------------------------- MODULE WorkerQueue -----------------------------
(***************************************************************************)
(* What the task queue promises to the services that submit tasks and to   *)
(* the workers that run them, whatever the rows say of leases, attempts    *)
(* and keys.  TaskQueue implements it with rows, leases and transactions;  *)
(* AttemptWorkflow relies on it.                                           *)
(*                                                                         *)
(* A task that left the queue, succeeded, failed, blocked or waiting for a *)
(* retry nobody starts, is over.  The only way back is a reclaim that read *)
(* the task while it was running and commits after it was over.            *)
(***************************************************************************)
CONSTANTS
    Workers,    \* worker loops
    Tasks,      \* task rows
    NoTask,
    Reuse       \* BOOLEAN: a row that is over and in nobody's hands may hold a new task

VARIABLES
    stage,      \* stage[t]: absent, pending, running or over
    holds,      \* holds[w]: the task worker w executes
    read        \* read[w]: the tasks the reclaim of w found lapsed

vars == << stage, holds, read >>

Stages == {"absent", "pending", "running", "over"}

TypeOK ==
    /\ stage \in [Tasks -> Stages]
    /\ holds \in [Workers -> Tasks \cup {NoTask}]
    /\ read \in [Workers -> SUBSET Tasks]

Init ==
    /\ stage = [t \in Tasks |-> "absent"]
    /\ holds = [w \in Workers |-> NoTask]
    /\ read = [w \in Workers |-> {}]

\* w has nothing in hand.
Free(w) == holds[w] = NoTask /\ read[w] = {}

Forgotten(t) ==
    /\ Reuse
    /\ stage[t] = "over"
    /\ \A w \in Workers : holds[w] # t /\ t \notin read[w]

\* A task is submitted.
Submit(t) ==
    /\ stage[t] = "absent" \/ Forgotten(t)
    /\ stage' = [stage EXCEPT ![t] = "pending"]
    /\ UNCHANGED << holds, read >>

\* A free worker takes a pending task: no other worker can take it now.
Take(w, t) ==
    /\ Free(w)
    /\ stage[t] = "pending"
    /\ stage' = [stage EXCEPT ![t] = "running"]
    /\ holds' = [holds EXCEPT ![w] = t]
    /\ UNCHANGED read

\* The worker reports how the task ended, whatever became of it meanwhile.
Report(w) ==
    /\ holds[w] # NoTask
    /\ stage' = [stage EXCEPT ![holds[w]] = "over"]
    /\ holds' = [holds EXCEPT ![w] = NoTask]
    /\ UNCHANGED read

\* A free worker finds running tasks whose leases have lapsed.
Find(w, T) ==
    /\ Free(w)
    /\ \A t \in T : stage[t] = "running"
    /\ read' = [read EXCEPT ![w] = T]
    /\ UNCHANGED << stage, holds >>

\* The tasks a worker found are pending again, whatever became of them meanwhile.
Return(w) ==
    /\ stage' = [t \in Tasks |-> IF t \in read[w] THEN "pending" ELSE stage[t]]
    /\ read' = [read EXCEPT ![w] = {}]
    /\ UNCHANGED holds

\* The worker loses what it has in hand without a word.
Drop(w) ==
    /\ holds' = [holds EXCEPT ![w] = NoTask]
    /\ read' = [read EXCEPT ![w] = {}]
    /\ UNCHANGED stage

Next ==
    \/ \E t \in Tasks : Submit(t)
    \/ \E w \in Workers :
         \/ \E t \in Tasks : Take(w, t)
         \/ \E T \in SUBSET Tasks : Find(w, T)
         \/ Report(w) \/ Return(w) \/ Drop(w)

Spec == Init /\ [][Next]_vars
=============================================================================
