------------------------- MODULE MCAttemptWorkflow -------------------------
(* Small instances of AttemptWorkflow for TLC. *)
EXTENDS AttemptWorkflow, TLC

CONSTANTS w1, w2, c1, c2, a1, a2, t1, t2, t3

\* The runs of one attempt look no further once it is raced: their
\* properties say nothing of it from then on.
NoRaceYet == raced = {}

\* After a crash, or beside a task that a late reclaim brought back, at most one
\* request is open at a time, and none where both have happened.
FewAtOnce ==
    crashes + Cardinality({c \in Clients : client[c] # Quiet})
        + Cardinality({t \in Tasks : task[t].late}) <= 2

\* One worker runs a handler, the others poll.
OneHandler == Cardinality({w \in Workers : at[w] \notin {"idle", "reclaim"}}) <= 1

\* The run looks no further once a task that a late reclaim brought back is
\* over again, nor past a second such task.
OneRevival ==
    LET late == {t \in Tasks : task[t].late}
    IN  Cardinality(late) <= 1 /\ \A t \in late : Live(t)

\* For the runs without liveness properties.
MCActors == Permutations({w1, w2}) \cup Permutations({c1, c2})
MCRows ==
    Permutations({a1, a2}) \cup Permutations({t1, t2}) \cup Permutations({w1, w2})
=============================================================================
