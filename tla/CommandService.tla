--------------------------- MODULE CommandService ---------------------------
(***************************************************************************)
(* What the browser host channel promises the callers of its consequential *)
(* commands: a key is acted on at most once for as long as the executor    *)
(* lives, every answer a caller gets is one the executor gave for its key, *)
(* and a caller that is told nothing is told so, once.                     *)
(***************************************************************************)
EXTENDS Integers

CONSTANTS Calls, Keys,
    Verdicts,   \* what the executor can answer for a key
    Errors      \* what a caller is told instead of an answer

VARIABLES
    verdict,    \* verdict[k]: the answer on record for k, "none" without one
    times,      \* times[k]: how often k was acted on by this executor
    answers,    \* every <<key, answer>> ever decided
    reply       \* reply[c]: what call c was told, << >> while it waits

vars == <<verdict, times, answers, reply>>

Init ==
    /\ verdict = [k \in Keys |-> "none"]
    /\ times = [k \in Keys |-> 0]
    /\ answers = {}
    /\ reply = [c \in Calls |-> << >>]

\* A key that failed may have been acted on all the same.
Touched(v) == CASE v = "ok" -> {1} [] v = "failed" -> {0, 1} [] OTHER -> {0}

Decide(k, v) ==
    /\ verdict[k] = "none"
    /\ verdict' = [verdict EXCEPT ![k] = v]
    /\ \E more \in Touched(v) : times' = [times EXCEPT ![k] = @ + more]
    /\ answers' = answers \cup {<<k, v>>}
    /\ UNCHANGED reply

\* The executor starts over, and remembers nothing.
Forget ==
    /\ verdict' = [k \in Keys |-> "none"]
    /\ times' = [k \in Keys |-> 0]
    /\ UNCHANGED <<answers, reply>>

\* A connection that ends answers several calls at once.
Reply ==
    /\ reply' \in [Calls -> {<< >>} \cup answers \cup (Keys \X Errors)]
    /\ \A c \in Calls : reply[c] # << >> => reply'[c] = reply[c]
    /\ UNCHANGED <<verdict, times, answers>>

Next ==
    \/ \E k \in Keys, v \in Verdicts : Decide(k, v)
    \/ Reply
    \/ Forget

Spec == Init /\ [][Next]_vars
=============================================================================
