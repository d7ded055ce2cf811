-------------------------- MODULE StorageRegister --------------------------
(***************************************************************************)
(* What the storage-state store promises the browser sessions that share   *)
(* one configured path: a versioned register whose write succeeds only     *)
(* against the version the writer has read.                                *)
(*                                                                         *)
(* A state is the set of the logins it carries; a session contributes its  *)
(* own, so the set says whose work a state has absorbed.                   *)
(***************************************************************************)
EXTENDS Integers, Sequences

CONSTANTS Sessions, Legacy

VARIABLES
    versions,   \* the committed states, oldest first
    stage,      \* stage[s]: new, has seen a version, holds a state, is over
    seen,       \* seen[s]: the version s has seen, 0 for none
    held        \* held[s]: the logins of the browser context of s

vars == <<versions, stage, seen, held>>

Stages == {"new", "seeing", "holding", "over"}
Logins == Sessions \cup {Legacy}
State == SUBSET Logins

\* The state a session that has seen version n starts from.
At(n) == IF n = 0 THEN {} ELSE versions[n]

TypeOK ==
    /\ versions \in Seq(State)
    /\ stage \in [Sessions -> Stages]
    /\ seen \in [Sessions -> Nat]
    /\ held \in [Sessions -> State]

Init ==
    /\ versions = << >>
    /\ stage = [s \in Sessions |-> "new"]
    /\ seen = [s \in Sessions |-> 0]
    /\ held = [s \in Sessions |-> {}]

\* The state an earlier release left becomes the first version.
Import ==
    /\ versions = << >>
    /\ versions' = << {Legacy} >>
    /\ UNCHANGED <<stage, seen, held>>

See(s) ==
    /\ stage[s] = "new"
    /\ stage' = [stage EXCEPT ![s] = "seeing"]
    /\ seen' = [seen EXCEPT ![s] = Len(versions)]
    /\ UNCHANGED <<versions, held>>

Hold(s) ==
    /\ stage[s] = "seeing"
    /\ stage' = [stage EXCEPT ![s] = "holding"]
    /\ held' = [held EXCEPT ![s] = At(seen[s])]
    /\ UNCHANGED <<versions, seen>>

Work(s) ==
    /\ stage[s] = "holding"
    /\ held' = [held EXCEPT ![s] = @ \cup {s}]
    /\ UNCHANGED <<versions, stage, seen>>

Over(s) ==
    /\ stage' = [stage EXCEPT ![s] = "over"]
    /\ seen' = [seen EXCEPT ![s] = 0]
    /\ held' = [held EXCEPT ![s] = {}]

\* Compare and swap.
Swap(s) ==
    /\ stage[s] = "holding"
    /\ seen[s] = Len(versions)
    /\ versions' = Append(versions, held[s])
    /\ Over(s)

Leave(s) ==
    /\ Over(s)
    /\ UNCHANGED versions

Next ==
    \/ Import
    \/ \E s \in Sessions : See(s) \/ Hold(s) \/ Work(s) \/ Swap(s) \/ Leave(s)

Spec == Init /\ [][Next]_vars
=============================================================================
