--------------------------- MODULE MCHostChannel ---------------------------
(***************************************************************************)
(* One Browser Host and the server's doors, one part at a time: the host's *)
(* channel, its pairing, or the operator's login. The others stay as they  *)
(* were.                                                                   *)
(***************************************************************************)
EXTENDS HostChannel, Credentials, TLC
CONSTANTS c1, c2, c3, k1, k2

VARIABLE part

CallSymmetry == Permutations(Calls)

MCSecrets == {[word |-> 1, hashed |-> FALSE], [word |-> 1, hashed |-> TRUE],
              [word |-> 0, hashed |-> TRUE], NoSecret}
IdleSettings == [enabled |-> TRUE, secret |-> NoSecret, beyond |-> FALSE, allow |-> FALSE]
\* Behind the login on the network, or open with and without the network and the leave.
MCSettings ==
    {[enabled |-> TRUE, secret |-> s, beyond |-> TRUE, allow |-> FALSE] : s \in MCSecrets}
    \cup {[enabled |-> FALSE, secret |-> NoSecret, beyond |-> b, allow |-> a] :
             b \in BOOLEAN, a \in BOOLEAN}
IdleDoor == [settings |-> IdleSettings, now |-> 0, tokens |-> <<>>,
             jar |-> [session |-> 0, csrf |-> 0], failures |-> <<>>, starts |-> 1,
             row |-> [c \in Clients |-> <<>>]]

MCInit ==
    /\ part \in {"channel", "pairing", "door"} /\ Init /\ PairingInit
    /\ IF part = "door" THEN DoorInit ELSE door = IdleDoor
Channel == part = "channel" /\ Next /\ UNCHANGED <<part, pairing, door>>
Pairing == part = "pairing" /\ PairingNext /\ UNCHANGED <<part, vars, door>>
Door == part = "door" /\ DoorNext /\ UNCHANGED <<part, vars, pairing>>
MCNext == Channel \/ Pairing \/ Door

MCSpec == MCInit /\ [][MCNext]_<<part, vars, pairing, door>>

\* The channel's run is cut at the third fault, and where every call has returned
\* and no command is left to carry out: no step from there changes what the
\* properties of the channel are about.
FewFaults == restarts + Cardinality({s \in Sockets : net[s] = "cut"}) <= 2
StillAtWork == \/ \E c \in Calls : ~Returned(c)
               \/ running # NoCall
               \/ \E s \in Sockets : down[s] # << >>
=============================================================================
