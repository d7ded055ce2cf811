---------------------------- MODULE HostChannel ----------------------------
(***************************************************************************)
(* The channel between the server and one Browser Host: the registry of    *)
(* live connections and its callers, the socket handler, and the host      *)
(* process with its dispatcher.                                            *)
(*                                                                         *)
(* A socket carries command frames down and result frames up, in order,    *)
(* until it is cut; frames in flight may be lost with it, and each end     *)
(* finds out on its own. Time is the age of a call: 0 until the caller's   *)
(* deadline, 1 until the command's expires_at, 2 after it.                 *)
(*                                                                         *)
(* The server may have been started while the host was up: the host holds  *)
(* a session when it connects.                                             *)
(*                                                                         *)
(* The host is either the companion of src/ ("client"), or any other       *)
(* process that speaks browser/host_protocol.py ("peer"), whose handling   *)
(* of commands is the companion's and whose frames are numbered.           *)
(***************************************************************************)
EXTENDS Integers, Sequences, Functions

CONSTANTS
    Calls,          \* the calls of BrowserHostManager.dispatch
    Keys,           \* the idempotency keys of clicks
    NoKey, NoCall,
    Commands,       \* the commands the calls may send
    HostKinds,      \* the kinds of host that may be on the other end
    MaxConn,        \* bound on the connections a run makes
    MaxRestarts     \* bound on the restarts of the host process

ASSUME ChannelAssumption ==
    /\ MaxConn \in Nat /\ MaxRestarts \in Nat
    /\ Commands \subseteq {"click", "create_session", "close_session",
                          "request_handoff", "reclaim_control"}
    /\ HostKinds \subseteq {"client", "peer"}
    /\ NoKey \notin Keys /\ NoCall \notin Calls

VARIABLES
    \* the server
    reg,        \* the registered connection, 0 for none
    phase,      \* phase[s]: what the handler of socket s is doing
    pending,    \* pending[s]: the calls whose future waits on socket s
    st, req, sock, age, fut,    \* the calls: progress, request, socket, age, future
    \* the sockets
    net, down, up,
    \* the host
    kind, conn, at, session, owner, running, memo, clicks, answered, restarts

server == <<reg, phase>>
calls == <<st, req, sock, age>>
sockets == <<net, down, up>>
link == <<kind, conn, at, restarts>>
browser == <<session, owner, running, memo, clicks, answered>>
vars == <<server, pending, calls, fut, sockets, link, browser>>

Sockets == 1..MaxConn
Hello == "registered"
Refusal == "error"

\* No call is named like a frame of the server.
ASSUME FrameNames == {Hello, Refusal} \cap Calls = {}

Errors == {"unavailable", "cancelled", "timed_out", "expired", "unknown_session"}
Verdicts == {"ok", "failed", "refused"}
Outcomes == Errors \cup Verdicts \cup {"malformed"}
Requests == [cmd : {"click"}, key : Keys \cup {NoKey}]
            \cup [cmd : Commands \ {"click"}, key : {NoKey}]
\* CLICK stands for the commands that act; the dispatcher lets these by.
NotActing == {"reclaim_control", "close_session"}

Init ==
    /\ reg = 0
    /\ phase = [s \in Sockets |-> "free"]
    /\ pending = [s \in Sockets |-> {}]
    /\ st = [c \in Calls |-> "idle"] /\ req = [c \in Calls |-> NoCall]
    /\ sock = [c \in Calls |-> 0] /\ age = [c \in Calls |-> 0]
    /\ fut = [c \in Calls |-> "none"]
    /\ net = [s \in Sockets |-> "up"]
    /\ down = [s \in Sockets |-> << >>] /\ up = [s \in Sockets |-> << >>]
    /\ kind \in HostKinds /\ conn = 0 /\ at = "off" /\ restarts = 0
    /\ session = TRUE /\ owner = "agent" /\ running = NoCall
    /\ memo = [k \in Keys |-> "none"] /\ clicks = [k \in Keys |-> 0] /\ answered = {}

-----------------------------------------------------------------------------
(* The registry: attach, detach and the futures that go with a connection. *)

\* Nobody is left waiting on the connection s.
FailPending(s, why) ==
    /\ fut' = [c \in Calls |-> IF s # 0 /\ c \in pending[s] /\ fut[c] = "none"
                               THEN why ELSE fut[c]]
    /\ pending' = [t \in Sockets |-> IF t = s THEN {} ELSE pending[t]]

\* A newer connection takes the place of the one registered before it.
Attach(s) ==
    /\ phase[s] = "authenticated"
    /\ phase' = [phase EXCEPT ![s] = "greeting"]
    /\ reg' = s
    /\ FailPending(reg, "cancelled")
    /\ net' = [t \in Sockets |-> IF t = reg THEN "cut" ELSE net[t]]
    /\ UNCHANGED <<calls, down, up, link, browser>>

\* detach takes whatever connection is registered by now, and leaves its socket open.
Detach == reg' = 0 /\ FailPending(reg, "unavailable")

\* A frame put on a socket that is cut is lost; the sender may be told.
Put(q, s, frame) == [q EXCEPT ![s] = IF net[s] = "up" THEN Append(@, frame) ELSE @]

-----------------------------------------------------------------------------
(* The socket handler.                                                     *)

Greet(s) ==
    /\ phase[s] = "greeting"
    /\ phase' = [phase EXCEPT ![s] = "serving"]
    /\ down' = Put(down, s, Hello)
    /\ UNCHANGED <<reg, pending, calls, fut, net, up, link, browser>>

\* The send of the acceptance is outside the handler's try: nothing is detached.
GreetFails(s) ==
    /\ phase[s] = "greeting" /\ net[s] = "cut"
    /\ phase' = [phase EXCEPT ![s] = "over"]
    /\ UNCHANGED <<reg, pending, calls, fut, sockets, link, browser>>

\* A frame that is not newer than the last is refused; an unmatched result is dropped.
Receive(s) ==
    /\ phase[s] = "serving" /\ up[s] # << >>
    /\ up' = [up EXCEPT ![s] = Tail(@)]
    /\ LET c == Head(up[s])[1]
           accepted == Head(up[s])[3] /\ c \in pending[s]
       IN  /\ fut' = IF accepted /\ fut[c] = "none"
                     THEN [fut EXCEPT ![c] = Head(up[s])[2]] ELSE fut
           /\ pending' = IF accepted THEN [pending EXCEPT ![s] = @ \ {c}] ELSE pending
    /\ UNCHANGED <<server, calls, net, down, link, browser>>

PumpEnds(s) ==
    /\ phase[s] = "serving" /\ up[s] = << >> /\ net[s] = "cut"
    /\ phase' = [phase EXCEPT ![s] = "over"]
    /\ Detach
    /\ UNCHANGED <<calls, sockets, link, browser>>

\* The pairing is withdrawn (its row is modelled in HostPairing): the connection is
\* forgotten and its socket stays open.
Revoke ==
    /\ reg # 0
    /\ Detach
    /\ UNCHANGED <<phase, calls, sockets, link, browser>>

-----------------------------------------------------------------------------
(* BrowserHostManager.dispatch.                                            *)

Refused(c, why) ==
    /\ st' = [st EXCEPT ![c] = "sent"]
    /\ fut' = [fut EXCEPT ![c] = why]
    /\ UNCHANGED <<sock, pending>>

Dispatch(c, r) ==
    /\ st[c] = "idle"
    /\ req' = [req EXCEPT ![c] = r]
    /\ IF reg = 0 THEN Refused(c, "unavailable")
       ELSE IF r.cmd = "click" /\ r.key = NoKey THEN Refused(c, "malformed")
       ELSE /\ st' = [st EXCEPT ![c] = "sending"]
            /\ sock' = [sock EXCEPT ![c] = reg]
            /\ pending' = [pending EXCEPT ![reg] = @ \cup {c}]
            /\ UNCHANGED fut
    /\ UNCHANGED <<server, age, sockets, link, browser>>

Send(c) ==
    /\ st[c] = "sending"
    /\ st' = [st EXCEPT ![c] = "sent"]
    /\ down' = Put(down, sock[c], c)
    /\ UNCHANGED <<server, pending, req, sock, age, fut, net, up, link, browser>>

SendFails(c) ==
    /\ st[c] = "sending" /\ net[sock[c]] = "cut"
    /\ st' = [st EXCEPT ![c] = "sent"]
    /\ fut' = [fut EXCEPT ![c] = "unavailable"]
    /\ pending' = [pending EXCEPT ![sock[c]] = @ \ {c}]
    /\ UNCHANGED <<server, req, sock, age, sockets, link, browser>>

\* A call that was sent returns when its future is done.
Waiting(c) == st[c] = "sent" /\ fut[c] = "none"
Returned(c) == st[c] = "sent" /\ fut[c] # "none"

TimeOut(c) ==
    /\ Waiting(c) /\ age[c] > 0
    /\ fut' = [fut EXCEPT ![c] = "timed_out"]
    /\ pending' = [pending EXCEPT ![sock[c]] = @ \ {c}]
    /\ UNCHANGED <<server, st, req, sock, age, sockets, link, browser>>

\* Time passes for a command on its way, whether or not its caller still waits, and
\* for a caller that waits in vain.
InFlight(c) == running = c \/ \E s \in Sockets : c \in Range(down[s])
Tick(c) ==
    /\ age[c] < 2
    /\ InFlight(c) \/ (Waiting(c) /\ age[c] = 0)
    /\ age' = [age EXCEPT ![c] = @ + 1]
    /\ UNCHANGED <<server, pending, st, req, sock, fut, sockets, link, browser>>

-----------------------------------------------------------------------------
(* The host process: one connection at a time, one frame at a time.        *)

\* The registration is checked against the pairing row, in HostPairing; a host that does
\* not pass is told so and the socket closes.
Connect(s, paired) ==
    /\ conn = 0 /\ phase[s] = "free" /\ \A t \in 1..(s - 1) : phase[t] # "free"
    /\ conn' = s /\ at' = "hello"
    /\ IF paired
       THEN phase' = [phase EXCEPT ![s] = "authenticated"] /\ UNCHANGED <<down, net>>
       ELSE /\ phase' = [phase EXCEPT ![s] = "over"]
            /\ down' = [down EXCEPT ![s] = <<Refusal>>]
            /\ net' = [net EXCEPT ![s] = "cut"]
    /\ UNCHANGED <<reg, pending, calls, fut, up, kind, restarts, browser>>

\* The host lets its connection go; what it was handling is over too.
Leave ==
    /\ conn' = 0 /\ at' = "off"
    /\ net' = [net EXCEPT ![conn] = "cut"]
    /\ running' = NoCall

\* decode_message of the companion knows the frames a host sends, not those it is sent.
Understands == kind = "peer"

ReadHello ==
    /\ at = "hello" /\ down[conn] # << >>
    /\ down' = [down EXCEPT ![conn] = Tail(@)]
    /\ IF Head(down[conn]) = Hello /\ Understands
       THEN at' = "loop" /\ UNCHANGED <<conn, net, running>>
       ELSE Leave
    /\ UNCHANGED <<server, pending, calls, fut, up, kind, restarts,
                   session, owner, memo, clicks, answered>>

HostHangsUp ==
    /\ conn # 0 /\ net[conn] = "cut" /\ down[conn] = << >> /\ running = NoCall
    /\ Leave
    /\ UNCHANGED <<server, pending, calls, fut, down, up, kind, restarts,
                   session, owner, memo, clicks, answered>>

\* The companion leaves the number of its results at 0, which no server takes for new.
Numbered == kind = "peer"

\* A result is sent where its command came from; a socket that is cut ends the loop.
Respond(c, v) ==
    IF net[conn] = "up"
    THEN /\ up' = Put(up, conn, <<c, v, Numbered>>)
         /\ running' = NoCall /\ UNCHANGED <<conn, at, net>>
    ELSE Leave /\ UNCHANGED up

NeverRecorded(c) == FALSE
Recorded(c) == req[c].cmd = "click" /\ memo[req[c].key] # "none"
ActsAnyway(c) == TRUE
MayAct(c) == req[c].cmd \in NotActing \/ owner = "agent"

\* Whatever became of a keyed command is recorded, a refusal and an exception too.
Remember(c, v) ==
    IF req[c].cmd = "click"
    THEN /\ memo' = [memo EXCEPT ![req[c].key] = v]
         /\ answered' = answered \cup {<<req[c].key, v>>}
    ELSE UNCHANGED <<memo, answered>>

\* The answers a command gets without the browser being touched.
Answerable(c) == ~session \/ age[c] = 2 \/ Recorded(c) \/ ~MayAct(c)
Answer(c) ==
    IF ~session THEN Respond(c, "unknown_session") /\ UNCHANGED <<memo, answered>>
    ELSE IF age[c] = 2 THEN Respond(c, "expired") /\ UNCHANGED <<memo, answered>>
    ELSE IF Recorded(c) THEN Respond(c, memo[req[c].key]) /\ UNCHANGED <<memo, answered>>
    ELSE Respond(c, "refused") /\ Remember(c, "refused")

Handle(c) ==
    /\ at = "loop" /\ running = NoCall /\ down[conn] # << >> /\ Head(down[conn]) = c
    /\ down' = [down EXCEPT ![conn] = Tail(@)]
    /\ IF req[c].cmd = "create_session"
       THEN session' = TRUE /\ Respond(c, "ok") /\ UNCHANGED <<memo, answered>>
       ELSE /\ UNCHANGED session
            /\ IF Answerable(c) THEN Answer(c)
               ELSE running' = c /\ UNCHANGED <<memo, answered, conn, at, net, up>>
    /\ UNCHANGED <<server, pending, calls, fut, kind, restarts, owner, clicks>>

\* Frames of the server that are no commands are passed over.
Ignore ==
    /\ at = "loop" /\ running = NoCall /\ down[conn] # << >>
    /\ Head(down[conn]) \in {Hello, Refusal}
    /\ down' = [down EXCEPT ![conn] = Tail(@)]
    /\ UNCHANGED <<server, pending, calls, fut, net, up, link, browser>>

\* The browser carries out the command after its owner was asked for, or raises half-way.
Run(c) ==
    /\ running = c
    /\ \E v \in {"ok", "failed"} :
        /\ Respond(c, v)
        /\ Remember(c, v)
        /\ \E acted \in {v = "ok", TRUE} :
            clicks' = IF req[c].cmd = "click" /\ acted
                      THEN [clicks EXCEPT ![req[c].key] = @ + 1] ELSE clicks
        /\ owner' = IF v = "ok" /\ req[c].cmd = "request_handoff" THEN "delegated"
                    ELSE IF v = "ok" /\ req[c].cmd = "reclaim_control" THEN "agent"
                    ELSE owner
        /\ session' = (req[c].cmd # "close_session" \/ v # "ok") 
    /\ UNCHANGED <<server, pending, calls, fut, down, kind, restarts>>

\* The user hands back a session that was delegated to them.
UserReturns ==
    /\ owner = "delegated"
    /\ owner' = "agent"
    /\ UNCHANGED <<server, pending, calls, fut, sockets, link, session, running, memo,
                   clicks, answered>>

RestartHost ==
    /\ restarts < MaxRestarts
    /\ restarts' = restarts + 1
    /\ IF conn # 0 THEN Leave ELSE running' = NoCall /\ UNCHANGED <<conn, at, net>>
    /\ session' = FALSE
    /\ memo' = [k \in Keys |-> "none"] /\ clicks' = [k \in Keys |-> 0]
    /\ UNCHANGED <<server, pending, calls, fut, down, up, kind, owner, answered>>

\* The network drops the connection, with the frames in flight.
Cut(s) ==
    /\ net[s] = "up" /\ phase[s] \notin {"free", "over"}
    /\ net' = [net EXCEPT ![s] = "cut"]
    /\ down' = [down EXCEPT ![s] = << >>] /\ up' = [up EXCEPT ![s] = << >>]
    /\ UNCHANGED <<server, pending, calls, fut, link, browser>>

-----------------------------------------------------------------------------
Handler(s) ==
    Attach(s) \/ Greet(s) \/ GreetFails(s) \/ Receive(s)
    \/ PumpEnds(s)
Caller(c) == (\E r \in Requests : Dispatch(c, r)) \/ Send(c) \/ SendFails(c)
             \/ TimeOut(c) \/ Tick(c)
Host == ReadHello \/ HostHangsUp \/ Ignore \/ RestartHost
        \/ \E c \in Calls : Handle(c) \/ Run(c)
Next ==
    \/ \E s \in Sockets : Handler(s) \/ Cut(s) \/ \E paired \in BOOLEAN : Connect(s, paired)
    \/ \E c \in Calls : Caller(c)
    \/ Host \/ Revoke \/ UserReturns

Spec == Init /\ [][Next]_vars

-----------------------------------------------------------------------------
\* Once the session is delegated to the user, no click reaches the page until it is handed
\* back, whatever is still queued on the socket (CommandDispatcher._run, HostClient._loop).
DelegatedIsLeftAlone ==
    [][(\E k \in Keys : clicks'[k] > clicks[k]) => owner = "agent"]_vars

\* What a caller was told: nothing yet, or an answer or an error for its key.
Told(c) ==
    IF st[c] = "sent" /\ fut[c] # "none" /\ req[c].cmd = "click" /\ req[c].key # NoKey
    THEN <<req[c].key, fut[c]>> ELSE << >>

\* Across drops, reconnects and retries a key is clicked at most once in the life of a
\* host process, and every caller with that key gets an answer that was given for it, or
\* an error that claims nothing (CommandDispatcher.remember and refuse_if_stale).
Service == INSTANCE CommandService WITH
    verdict <- memo, times <- clicks, answers <- answered, reply <- [c \in Calls |-> Told(c)]
RefinesService == Service!Spec
=============================================================================
