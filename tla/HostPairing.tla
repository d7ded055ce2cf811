----------------------------- MODULE HostPairing ------------------------------
(***************************************************************************)
(* The pairing of one Browser Host: the row that keeps its credential, the *)
(* sockets that authenticated with it, and the routes with which a person  *)
(* pairs the host, revokes it and sees whether it is there. A socket works *)
(* on a copy of the row that it read when it authenticated, and writes the *)
(* copy back when it ends. HostChannel models what the sockets carry.      *)
(*                                                                         *)
(* The n-th credential issued is n; 0 is none.                             *)
(***************************************************************************)
EXTENDS Naturals

CONSTANTS
    MaxIssued,      \* bound on the credentials issued
    MaxSockets      \* bound on the sockets a run opens

ASSUME PairingAssumption == MaxIssued \in Nat \ {0} /\ MaxSockets \in Nat \ {0}

VARIABLE pairing
\* pairing.row: BrowserHostRow; .issued: the last credential; .live: the socket in
\* BrowserHostManager._hosts; .socket: the handlers, with their copies; .host: the socket
\* the host process has open; history: .withdrawn, the credentials revoked or replaced
\* while no handler ran, .settled, whether the host was revoked then and not paired since,
\* .slipped, a withdrawn credential was let in

Handlers == 1..MaxSockets
NotPaired == [state |-> "none", credential |-> 0, revoked |-> FALSE, connected |-> FALSE]
NoSocket == [phase |-> "free", record |-> NotPaired]

PairingInit ==
    pairing = [row |-> NotPaired, issued |-> 0, live |-> 0,
               socket |-> [s \in Handlers |-> NoSocket], host |-> 0,
               withdrawn |-> {}, settled |-> FALSE, slipped |-> FALSE]

HandlerRuns == \E s \in Handlers : pairing.socket[s].phase \in {"admitted", "serving", "ending"}

-----------------------------------------------------------------------------
(* The row, BrowserHostRepository.                                         *)

PairedAgain(row, credential) ==
    [row EXCEPT !.state = "registered", !.revoked = FALSE,
                !.credential = IF row.credential = 0 THEN credential ELSE @]
paired(row, credential) ==
    [row EXCEPT !.state = "registered", !.revoked = FALSE, !.credential = credential]

revoked(row) == [row EXCEPT !.state = "revoked", !.revoked = TRUE, !.credential = 0]

authenticates(row, credential) ==
    /\ row.state # "none" /\ row.credential # 0 /\ ~row.revoked
    /\ row.credential = credential

\* clear_stale_connection_states
cleared(row) ==
    IF row.state \in {"connected", "stale"} THEN [row EXCEPT !.state = "disconnected"] ELSE row

Withdrawn == IF HandlerRuns THEN pairing.withdrawn
             ELSE pairing.withdrawn \cup ({pairing.row.credential} \ {0})

-----------------------------------------------------------------------------
(* The routes of the person.                                               *)

\* Pairs the host, or rotates its credential; a socket it has open is left alone.
pair_host ==
    /\ pairing.issued < MaxIssued
    /\ pairing' = [pairing EXCEPT !.issued = @ + 1,
                      !.row = paired(@, pairing.issued + 1),
                      !.withdrawn = Withdrawn, !.settled = FALSE]

\* The connection is forgotten; its socket stays open until it ends.
revoke_host ==
    /\ pairing.row.state # "none"
    /\ pairing' = [pairing EXCEPT !.row = revoked(@), !.live = 0,
                      !.withdrawn = Withdrawn, !.settled = ~HandlerRuns]

\* Revoked and incompatible hosts say so; of the others, one that never connected.
offline_state(record) ==
    IF record.state \in {"revoked", "incompatible"} THEN record.state
    ELSE IF record.state = "registered" /\ ~record.connected THEN "registered"
    ELSE "disconnected"

\* What list_hosts tells: the live record when there is one.
shown == IF pairing.live # 0 THEN pairing.socket[pairing.live].record.state
         ELSE offline_state(pairing.row)

-----------------------------------------------------------------------------
(* The sockets.                                                            *)

\* The first frame: a protocol version the server does not speak, an unknown host, a
\* revoked one and a wrong credential close the socket.
authenticate(s, credential, compatible) ==
    /\ pairing.host = 0
    /\ pairing.socket[s].phase = "free" /\ \A t \in 1..(s - 1) : pairing.socket[t].phase # "free"
    /\ pairing' =
         IF compatible /\ authenticates(pairing.row, credential)
         THEN [pairing EXCEPT !.host = s,
                  !.socket[s] = [phase |-> "admitted", record |-> pairing.row],
                  !.slipped = @ \/ credential \in pairing.withdrawn]
         ELSE [pairing EXCEPT !.socket[s].phase = "over"]

\* BrowserHostManager.attach: a newer connection takes the place of an older one, whose
\* socket is closed.
attach(s) ==
    /\ pairing.socket[s].phase = "admitted"
    /\ pairing' = [pairing EXCEPT !.live = s,
                      !.socket[s] = [phase |-> "serving",
                          record |-> [@.record EXCEPT !.state = "connected", !.connected = TRUE]]]

\* Nobody calls mark_stale: a silent connection stays connected until its socket ends.
HostGoes ==
    /\ pairing.host # 0
    /\ pairing' = [pairing EXCEPT !.host = 0]

\* The handler takes its snapshot and detaches whatever connection is live.
SocketEnds(s) ==
    /\ pairing.socket[s].phase = "serving" /\ pairing.host # s
    /\ pairing' = [pairing EXCEPT !.live = 0,
                      !.socket[s] = [phase |-> "ending",
                          record |-> [@.record EXCEPT !.state = "disconnected"]]]

\* The write may fail, which is logged.
persist_snapshot(s) ==
    /\ pairing.socket[s].phase = "ending"
    /\ \E row \in {pairing.row, pairing.socket[s].record} :
          pairing' = [pairing EXCEPT !.row = row, !.socket[s].phase = "over"]

\* No connection outlives the process, and the rows that say one does are corrected.
ServerRestarts ==
    pairing' = [pairing EXCEPT !.live = 0, !.host = 0, !.row = cleared(@),
                   !.socket = [s \in Handlers |->
                       IF @[s].phase = "free" THEN @[s] ELSE [@[s] EXCEPT !.phase = "over"]]]

PairingNext ==
    \/ pair_host \/ revoke_host \/ HostGoes \/ ServerRestarts
    \/ \E s \in Handlers :
          \/ \E credential \in 1..pairing.issued, compatible \in BOOLEAN :
                authenticate(s, credential, compatible)
          \/ attach(s) \/ SocketEnds(s) \/ persist_snapshot(s)

PairingSpec == PairingInit /\ [][PairingNext]_pairing

-----------------------------------------------------------------------------
(* A credential that was revoked or replaced while no handler of its host  *)
(* ran is never let in again, whatever sockets of earlier and later        *)
(* credentials come and go and however late they write their copies back;  *)
(* and until it is paired anew the host is shown as revoked, after a       *)
(* restart of the server too (pair, revoke, authenticate, list_hosts).     *)
WithdrawnStaysWithdrawn ==
    /\ ~pairing.slipped
    /\ pairing.settled => shown = "revoked"
=============================================================================
