-------------------------- MODULE HostChannelProofs --------------------------
(***************************************************************************)
(* The browser host channel is an at-most-once command service, for any    *)
(* number of calls, keys, connections and restarts, and whoever drops the  *)
(* connection when. The frames of a socket are typed by what they may      *)
(* carry: commands that were sent, and results honest about their key.     *)
(***************************************************************************)
EXTENDS HostChannel, SequenceTheorems, TLAPS

\* Call c is under way: its command is a request, and a click has a key.
Dispatched(c) == req[c] \in Requests /\ (req[c].cmd = "click" => req[c].key \in Keys)

\* The frames that may be on their way to the host.
Sendable == {c \in Calls : st[c] = "sent" /\ Dispatched(c)} \cup {Hello, Refusal}

\* v claims nothing about a click, or was given for its key.
Honest(c, v) ==
    req[c].cmd = "click" /\ req[c].key # NoKey => v \in Errors \/ <<req[c].key, v>> \in answered

\* What c was told, or will be once it was sent.
HonestlyTold(c) == fut[c] # "none" => Honest(c, fut[c])

\* The frames that may be on their way back.
Results == {f \in Calls \X Outcomes \X BOOLEAN :
               /\ st[f[1]] = "sent" /\ Dispatched(f[1])
               /\ Honest(f[1], f[2])}

\* The calls, and what they were or will be told.
CallsInv ==
    /\ reg \in {0} \cup Sockets
    /\ st \in [Calls -> {"idle", "sending", "sent"}]
    /\ req \in [Calls -> Requests \cup {NoCall}]
    /\ fut \in [Calls -> Outcomes \cup {"none"}]
    /\ pending \in [Sockets -> SUBSET {c \in Calls : st[c] # "idle"}]
    /\ \A c \in Calls :
         /\ st[c] = "idle" => fut[c] = "none"
         /\ st[c] # "idle" => req[c] \in Requests /\ HonestlyTold(c)
         /\ st[c] = "sending" => Dispatched(c)

WireInv == down \in [Sockets -> Seq(Sendable)] /\ up \in [Sockets -> Seq(Results)]

\* The host: an answer on record was given, no key was clicked without or more than once,
\* and what the browser is at work on has no answer yet and, if it acts, the browser.
HostInv ==
    /\ conn \in 0 .. MaxConn
    /\ at \in {"off", "hello", "loop"} /\ (at # "off" => conn # 0)
    /\ memo \in [Keys -> Verdicts \cup {"none"}]
    /\ clicks \in [Keys -> {0, 1}]
    /\ \A k \in Keys : IF memo[k] = "none" THEN clicks[k] = 0 ELSE <<k, memo[k]>> \in answered
    /\ running # NoCall =>
         /\ at = "loop"
         /\ running \in Sendable \ {Hello, Refusal}
         /\ req[running].cmd \notin NotActing => owner = "agent"
         /\ req[running].cmd = "click" => memo[req[running].key] = "none"

ChannelInv == CallsInv /\ WireInv /\ HostInv

\* Unlike the state, what was asked and what was answered only grows.
Grows ==
    /\ \A c \in Calls : st[c] # "idle" =>
         /\ st'[c] # "idle" /\ req'[c] = req[c]
         /\ st[c] = "sent" => st'[c] = "sent"
    /\ answered \subseteq answered'

-----------------------------------------------------------------------------
(* What was sent stays sent, and an honest answer stays honest *)

\* A handler of the server, a drop and a new connection leave the calls alone.
LEMMA GrowsStep == ASSUME ChannelInv, [Next]_vars PROVE Grows
<1>1. /\ st \in [Calls -> {"idle", "sending", "sent"}]
      /\ req \in [Calls -> Requests \cup {NoCall}]
  BY DEF ChannelInv, CallsInv
<1>2. CASE UNCHANGED <<st, req, answered>>
  BY <1>2 DEF Grows
<1>3. ASSUME NEW s \in Sockets,
             Handler(s) \/ Cut(s) \/ \E paired \in BOOLEAN : Connect(s, paired)
      PROVE  UNCHANGED <<st, req, answered>>
  BY <1>3 DEF Handler, Attach, Greet, GreetFails, Receive, PumpEnds, Cut, Connect, calls, browser
<1>4. ASSUME NEW c \in Calls, NEW r \in Requests, Dispatch(c, r) PROVE Grows
  BY <1>1, <1>4 DEF Dispatch, Refused, Grows, browser
<1>5. ASSUME NEW c \in Calls, Send(c) \/ SendFails(c) \/ TimeOut(c) \/ Tick(c) PROVE Grows
  BY <1>1, <1>5 DEF Send, SendFails, TimeOut, Tick, Grows, browser
<1>6. CASE ReadHello \/ HostHangsUp \/ Ignore \/ RestartHost \/ Revoke \/ UserReturns
  BY <1>2, <1>6 DEF ReadHello, HostHangsUp, Ignore, RestartHost, Revoke, UserReturns, calls, browser
<1>7. ASSUME NEW c \in Calls, Handle(c) \/ Run(c) PROVE Grows
  <2>1. UNCHANGED <<st, req>>
    BY <1>7 DEF Handle, Run, calls
  <2>2. \A v : Remember(c, v) => answered \subseteq answered'
    BY DEF Remember
  <2>3. answered \subseteq answered'
    <3>1. CASE Handle(c)
      BY <2>2, <3>1 DEF Handle, Answer
    <3>2. CASE Run(c)
      BY <2>2, <3>2 DEF Run
    <3> QED BY <1>7, <3>1, <3>2
  <2> QED BY <2>1, <2>3 DEF Grows
<1> QED BY <1>2, <1>3, <1>4, <1>5, <1>6, <1>7 DEF Next, Caller, Host, vars, calls, browser

LEMMA Kept ==
    ASSUME CallsInv, Grows
    PROVE  /\ \A c \in Calls : Dispatched(c) /\ st[c] # "idle" => Dispatched(c)'
           /\ \A c \in Calls : \A v : Honest(c, v) /\ st[c] # "idle" => Honest(c, v)'
           /\ Sendable \subseteq Sendable'
           /\ Results \subseteq Results'
<1>1. \A c \in Calls : Dispatched(c) /\ st[c] # "idle" => Dispatched(c)'
  BY DEF Grows, Dispatched
<1>2. \A c \in Calls : \A v : Honest(c, v) /\ st[c] # "idle" => Honest(c, v)'
  BY DEF Grows, Honest
<1>3. Sendable \subseteq Sendable'
  BY <1>1 DEF Grows, Sendable
<1>4. Results \subseteq Results'
  BY <1>1, <1>2 DEF Grows, Results
<1> QED BY <1>1, <1>2, <1>3, <1>4

-----------------------------------------------------------------------------
(* The calls *)

\* It is enough to look at the calls that a step dispatches or answers.
LEMMA CallsFrame ==
    ASSUME CallsInv, Grows, reg' \in {0} \cup Sockets,
           st' \in [Calls -> {"idle", "sending", "sent"}],
           req' \in [Calls -> Requests \cup {NoCall}],
           fut' \in [Calls -> Outcomes \cup {"none"}],
           pending' \in [Sockets -> SUBSET {c \in Calls : st'[c] # "idle"}],
           \A c \in Calls :
             \/ st'[c] = st[c] /\ fut'[c] = fut[c] /\ req'[c] = req[c]
             \/ /\ st'[c] # "idle" /\ req'[c] \in Requests
                /\ st'[c] = "sending" => Dispatched(c)'
                /\ HonestlyTold(c)'
    PROVE  CallsInv'
<1>1. ASSUME NEW c \in Calls
      PROVE  /\ st'[c] = "idle" => fut'[c] = "none"
             /\ st'[c] # "idle" => /\ req'[c] \in Requests
                                   /\ HonestlyTold(c)'
             /\ st'[c] = "sending" => Dispatched(c)'
  <2>1. CASE st'[c] = st[c] /\ fut'[c] = fut[c] /\ req'[c] = req[c]
    <3>1. st[c] # "idle" => HonestlyTold(c)'
      <4>1. ASSUME NEW v, v = fut[c], v # "none", st[c] # "idle" PROVE Honest(c, v)'
        <5>1. Honest(c, v)
          BY <4>1 DEF CallsInv, HonestlyTold
        <5> QED BY <4>1, <5>1, Kept
      <4> QED BY <2>1, <4>1 DEF HonestlyTold, Honest
    <3>2. st[c] = "sending" => Dispatched(c)'
      BY Kept DEF CallsInv
    <3> QED BY <2>1, <3>1, <3>2 DEF CallsInv
  <2>2. CASE ~ (st'[c] = st[c] /\ fut'[c] = fut[c] /\ req'[c] = req[c])
    BY <2>2
  <2> QED BY <2>1, <2>2
<1> QED BY <1>1 DEF CallsInv

\* Failing the calls that wait on a connection tells them an error.
LEMMA FailPendingCalls ==
    ASSUME CallsInv, Grows, reg' \in {0} \cup Sockets,
           NEW s \in {0} \cup Sockets, NEW why \in Errors, FailPending(s, why),
           UNCHANGED <<st, req>>
    PROVE  CallsInv'
<1>1. \A c \in Calls : \/ fut'[c] = fut[c]
                       \/ st[c] # "idle" /\ fut[c] = "none" /\ fut'[c] = why
  BY DEF FailPending, CallsInv
<1>2. fut' \in [Calls -> Outcomes \cup {"none"}]
  BY DEF FailPending, CallsInv, Outcomes
<1>3. pending' \in [Sockets -> SUBSET {c \in Calls : st[c] # "idle"}]
  BY DEF FailPending, CallsInv
<1>4. \A c \in Calls : Honest(c, why)'
  BY DEF Honest
<1>5. \A c \in Calls : st[c] # "idle" =>
        req[c] \in Requests /\ (st[c] = "sending" => Dispatched(c)')
  BY Kept DEF CallsInv
<1>6. ASSUME NEW c \in Calls
      PROVE  \/ st'[c] = st[c] /\ fut'[c] = fut[c] /\ req'[c] = req[c]
             \/ /\ st'[c] # "idle" /\ req'[c] \in Requests
                /\ st'[c] = "sending" => Dispatched(c)'
                /\ HonestlyTold(c)'
  <2>1. CASE fut'[c] = fut[c]
    BY <2>1
  <2>2. CASE fut'[c] # fut[c]
    <3>1. st[c] # "idle" /\ fut'[c] = why
      BY <1>1, <2>2
    <3>2. HonestlyTold(c)'
      BY <1>4, <3>1 DEF HonestlyTold, Honest
    <3> QED BY <1>5, <3>1, <3>2
  <2> QED BY <2>1, <2>2
<1> QED BY <1>2, <1>3, <1>6, CallsFrame DEF CallsInv

LEMMA CallsStep == ASSUME ChannelInv, Grows, [Next]_vars PROVE CallsInv'
<1>0. /\ CallsInv /\ WireInv
      /\ \A s \in Sockets : s \in Nat /\ s # 0
      /\ \A c \in Calls : st[c] = "idle" => fut[c] = "none"
  BY ChannelAssumption DEF ChannelInv, Sockets, CallsInv
<1>1. CASE UNCHANGED <<reg, st, req, fut, pending>>
  BY <1>0, <1>1, CallsFrame DEF CallsInv
<1>2. ASSUME NEW s \in Sockets,
             Handler(s) \/ Cut(s) \/ \E paired \in BOOLEAN : Connect(s, paired)
      PROVE  CallsInv'
  <2>1. CASE Attach(s)
    BY <1>0, <2>1, FailPendingCalls DEF Attach, Errors, calls, CallsInv
  <2>2. CASE PumpEnds(s)
    BY <1>0, <2>2, FailPendingCalls DEF PumpEnds, Detach, Errors, calls, CallsInv
  <2>3. CASE Receive(s)
    <3>1. Head(up[s]) \in Results
      BY <1>0, <2>3, HeadTailProperties DEF WireInv, Receive
    <3>a. PICK c \in Calls, v \in Outcomes : Head(up[s])[1] = c /\ Head(up[s])[2] = v
      BY <3>1 DEF Results
    <3> DEFINE accepted == Head(up[s])[3] /\ c \in pending[s]
    <3>2. st[c] = "sent" /\ Honest(c, v)
      BY <3>1, <3>a DEF Results
    <3>3. /\ fut' = IF accepted /\ fut[c] = "none" THEN [fut EXCEPT ![c] = v] ELSE fut
          /\ pending' = IF accepted THEN [pending EXCEPT ![s] = @ \ {c}] ELSE pending
          /\ UNCHANGED <<reg, st, req, answered>>
      BY <2>3, <3>a DEF Receive, server, calls, browser
    <3> HIDE DEF accepted
    <3>4. /\ fut' \in [Calls -> Outcomes \cup {"none"}]
          /\ pending' \in [Sockets -> SUBSET {d \in Calls : st'[d] # "idle"}]
      BY <1>0, <3>2, <3>3 DEF CallsInv
    <3>5. ASSUME NEW d \in Calls
          PROVE  \/ st'[d] = st[d] /\ fut'[d] = fut[d] /\ req'[d] = req[d]
                 \/ /\ st'[d] # "idle" /\ req'[d] \in Requests
                    /\ st'[d] = "sending" => Dispatched(d)'
                    /\ HonestlyTold(d)'
      <4>1. CASE fut'[d] = fut[d]
        BY <3>3, <4>1
      <4>2. CASE fut'[d] # fut[d]
        <5>1. d = c /\ fut'[d] = v
          BY <1>0, <3>2, <3>3, <4>2 DEF CallsInv
        <5>2. Honest(d, v)'
          BY <1>0, <3>2, <5>1, Kept
        <5>3. HonestlyTold(d)'
          BY <5>1, <5>2 DEF HonestlyTold, Honest
        <5>4. req[d] \in Requests /\ st[d] = "sent"
          BY <1>0, <3>2, <5>1 DEF CallsInv
        <5> QED BY <3>3, <5>3, <5>4
      <4> QED BY <4>1, <4>2
    <3> QED BY <1>0, <3>3, <3>4, <3>5, CallsFrame DEF CallsInv
  <2>4. CASE Greet(s) \/ GreetFails(s) \/ Cut(s) \/ \E paired \in BOOLEAN : Connect(s, paired)
    BY <1>1, <2>4 DEF Greet, GreetFails, Cut, Connect, server, calls
  <2> QED BY <1>2, <2>1, <2>2, <2>3, <2>4 DEF Handler
<1>3. ASSUME NEW c \in Calls, NEW r \in Requests, Dispatch(c, r) PROVE CallsInv'
  <2>1. /\ st[c] = "idle" /\ fut[c] = "none" /\ req' = [req EXCEPT ![c] = r]
        /\ reg' = reg
    BY <1>0, <1>3 DEF Dispatch, server
  <2>2. \A d \in Calls : req'[d] = IF d = c THEN r ELSE req[d]
    BY <1>0, <2>1 DEF CallsInv
  <2>3. ASSUME NEW why \in {"unavailable", "malformed"}, Refused(c, why),
               why = "malformed" => r.key = NoKey
        PROVE  CallsInv'
    <3>1. /\ st' = [st EXCEPT ![c] = "sent"] /\ fut' = [fut EXCEPT ![c] = why]
          /\ pending' = pending
      BY <2>3 DEF Refused
    <3>2. \A d \in Calls : /\ st'[d] = IF d = c THEN "sent" ELSE st[d]
                           /\ fut'[d] = IF d = c THEN why ELSE fut[d]
      BY <1>0, <3>1 DEF CallsInv
    <3>3. Honest(c, why)'
      BY <2>2, <2>3 DEF Honest, Errors
    <3>4. /\ st' \in [Calls -> {"idle", "sending", "sent"}]
          /\ fut' \in [Calls -> Outcomes \cup {"none"}]
          /\ req' \in [Calls -> Requests \cup {NoCall}]
      BY <1>0, <2>1, <3>1 DEF CallsInv, Outcomes, Errors
    <3>5. pending' \in [Sockets -> SUBSET {d \in Calls : st'[d] # "idle"}]
      BY <1>0, <3>1, <3>2 DEF CallsInv
    <3>6. HonestlyTold(c)' /\ st'[c] = "sent" /\ req'[c] \in Requests
      BY <2>2, <3>2, <3>3 DEF HonestlyTold, Honest
    <3>7. \A d \in Calls \ {c} : st'[d] = st[d] /\ fut'[d] = fut[d] /\ req'[d] = req[d]
      BY <2>2, <3>2
    <3> QED BY <1>0, <2>1, <3>4, <3>5, <3>6, <3>7, CallsFrame DEF CallsInv
  <2>4. CASE reg = 0
    BY <1>3, <2>3, <2>4 DEF Dispatch
  <2>5. CASE reg # 0 /\ r.cmd = "click" /\ r.key = NoKey
    BY <1>3, <2>3, <2>5 DEF Dispatch
  <2>6. CASE reg # 0 /\ ~ (r.cmd = "click" /\ r.key = NoKey)
    <3>1. /\ st' = [st EXCEPT ![c] = "sending"] /\ fut' = fut
          /\ pending' = [pending EXCEPT ![reg] = @ \cup {c}]
      BY <1>3, <2>6 DEF Dispatch
    <3>2. \A d \in Calls : st'[d] = IF d = c THEN "sending" ELSE st[d]
      BY <1>0, <3>1 DEF CallsInv
    <3>3. Dispatched(c)'
      BY <2>2, <2>6 DEF Dispatched, Requests
    <3>4. /\ st' \in [Calls -> {"idle", "sending", "sent"}]
          /\ req' \in [Calls -> Requests \cup {NoCall}]
      BY <1>0, <2>1, <3>1 DEF CallsInv
    <3>5. pending' \in [Sockets -> SUBSET {d \in Calls : st'[d] # "idle"}]
      <4>1. reg \in Sockets
        BY <1>0, <2>6 DEF CallsInv
      <4>2. \A d \in Calls : st[d] # "idle" => st'[d] # "idle"
        BY <3>2
      <4>3. \A s \in Sockets : pending'[s] \subseteq pending[s] \cup {c}
        BY <1>0, <3>1 DEF CallsInv
      <4>4. \A s \in Sockets : pending[s] \subseteq {d \in Calls : st'[d] # "idle"}
        BY <1>0, <4>2 DEF CallsInv
      <4>5. c \in {d \in Calls : st'[d] # "idle"}
        BY <3>2
      <4>6. pending' = [s \in Sockets |-> pending'[s]]
        BY <1>0, <3>1 DEF CallsInv
      <4> QED BY <4>3, <4>4, <4>5, <4>6
    <3>6. HonestlyTold(c)' /\ st'[c] = "sending" /\ req'[c] \in Requests
      BY <2>1, <2>2, <3>1, <3>2 DEF HonestlyTold
    <3>7. \A d \in Calls \ {c} : st'[d] = st[d] /\ fut'[d] = fut[d] /\ req'[d] = req[d]
      BY <2>2, <3>1, <3>2
    <3> QED BY <1>0, <2>1, <3>1, <3>3, <3>4, <3>5, <3>6, <3>7, CallsFrame DEF CallsInv
  <2> QED BY <2>4, <2>5, <2>6
<1>4. ASSUME NEW c \in Calls, Send(c) \/ SendFails(c) \/ TimeOut(c) PROVE CallsInv'
  <2>1. st[c] # "idle" /\ UNCHANGED <<reg, req>>
    BY <1>4 DEF Send, SendFails, TimeOut, Waiting, server
  <2>2. req[c] \in Requests /\ (st[c] = "sending" => Dispatched(c)')
    BY <1>0, <2>1, Kept DEF CallsInv
  <2>3. /\ st' \in [Calls -> {"idle", "sending", "sent"}]
        /\ \A d \in Calls \ {c} : st'[d] = st[d]
        /\ st'[c] = "sent"
    BY <1>0, <1>4 DEF CallsInv, Send, SendFails, TimeOut, Waiting
  <2>4. /\ fut' \in [Calls -> Outcomes \cup {"none"}]
        /\ \A d \in Calls \ {c} : fut'[d] = fut[d]
        /\ fut'[c] = fut[c] \/ fut'[c] \in Errors
    BY <1>0, <1>4 DEF CallsInv, Send, SendFails, TimeOut, Errors, Outcomes
  <2>5. pending' \in [Sockets -> SUBSET {d \in Calls : st'[d] # "idle"}]
    <3>1. pending' \in [Sockets -> SUBSET {d \in Calls : st[d] # "idle"}]
      BY <1>0, <1>4 DEF CallsInv, Send, SendFails, TimeOut
    <3>2. \A d \in Calls : st[d] # "idle" => st'[d] # "idle"
      BY DEF Grows
    <3> QED BY <3>1, <3>2
  <2>6. HonestlyTold(c)'
    <3>1. CASE fut'[c] = fut[c]
      <4>1. ASSUME NEW v, v = fut[c], v # "none" PROVE Honest(c, v)'
        <5>1. Honest(c, v)
          BY <1>0, <2>1, <4>1 DEF CallsInv, HonestlyTold
        <5> QED BY <1>0, <2>1, <5>1, Kept
      <4> QED BY <3>1, <4>1 DEF HonestlyTold, Honest
    <3>2. CASE fut'[c] \in Errors
      BY <3>2 DEF HonestlyTold, Honest
    <3> QED BY <2>4, <3>1, <3>2
  <2> QED BY <1>0, <2>1, <2>2, <2>3, <2>4, <2>5, <2>6, CallsFrame DEF CallsInv
<1>5. ASSUME NEW c \in Calls, Tick(c) \/ Handle(c) \/ Run(c) PROVE CallsInv'
  BY <1>1, <1>5 DEF Tick, Handle, Run, server, calls
<1>6. CASE ReadHello \/ HostHangsUp \/ Ignore \/ RestartHost \/ UserReturns
  BY <1>1, <1>6 DEF ReadHello, HostHangsUp, Ignore, RestartHost, UserReturns, server, calls
<1>7. CASE Revoke
  BY <1>0, <1>7, FailPendingCalls DEF Revoke, Detach, Errors, calls, CallsInv
<1> QED
  BY <1>1, <1>2, <1>3, <1>4, <1>5, <1>6, <1>7 DEF Next, Caller, Host, vars, server, calls

-----------------------------------------------------------------------------
(* The frames on the sockets *)

LEMMA PutTyped ==
    ASSUME NEW S, NEW q \in [Sockets -> Seq(S)], NEW s \in Sockets, NEW frame \in S
    PROVE  Put(q, s, frame) \in [Sockets -> Seq(S)]
<1>1. Append(q[s], frame) \in Seq(S)
  BY AppendProperties
<1> QED BY <1>1 DEF Put

LEMMA TakeTyped ==
    ASSUME NEW S, NEW q \in [Sockets -> Seq(S)], NEW s \in Sockets, q[s] # << >>
    PROVE  /\ Head(q[s]) \in S
           /\ [q EXCEPT ![s] = Tail(@)] \in [Sockets -> Seq(S)]
<1>1. Head(q[s]) \in S /\ Tail(q[s]) \in Seq(S)
  BY HeadTailProperties
<1> QED BY <1>1

LEMMA WiresGrow ==
    ASSUME NEW S, NEW T, S \subseteq T, NEW q \in [Sockets -> Seq(S)]
    PROVE  q \in [Sockets -> Seq(T)]
<1>1. \A s \in Sockets : q[s] \in Seq(T)
  BY SeqMonotonic
<1> QED BY <1>1

\* A result that the host sends goes up the socket its command came down.
LEMMA RespondTyped ==
    ASSUME ChannelInv, Grows, NEW c \in Calls, NEW v \in Outcomes,
           conn \in Sockets, Respond(c, v), UNCHANGED <<st, req>>,
           st[c] = "sent", Dispatched(c), Honest(c, v)'
    PROVE  up' \in [Sockets -> Seq(Results')]
<1>1. up \in [Sockets -> Seq(Results')]
  BY Kept, WiresGrow DEF ChannelInv, WireInv
<1>2. CASE net[conn] = "up"
  <2>1. <<c, v, Numbered>> \in Results'
    BY Kept DEF Results, Dispatched, Numbered, ChannelInv
  <2>2. up' = Put(up, conn, <<c, v, Numbered>>)
    BY <1>2 DEF Respond
  <2> QED BY <1>1, <2>1, <2>2, PutTyped
<1>3. CASE net[conn] # "up"
  BY <1>1, <1>3 DEF Respond
<1> QED BY <1>2, <1>3

LEMMA HandledIsSent ==
    ASSUME ChannelInv, NEW c \in Calls, Handle(c)
    PROVE  conn \in Sockets /\ c \in Sendable \ {Hello, Refusal}
<1>1. conn \in Sockets
  BY ChannelAssumption DEF ChannelInv, HostInv, Handle, Sockets
<1>2. c \in Sendable
  BY <1>1, TakeTyped DEF ChannelInv, WireInv, Handle
<1> QED BY <1>1, <1>2, FrameNames

LEMMA RunningIsSent ==
    ASSUME ChannelInv, NEW c \in Calls, Run(c)
    PROVE  conn \in Sockets /\ c \in Sendable \ {Hello, Refusal}
BY ChannelAssumption DEF ChannelInv, HostInv, Run, Sockets

\* What the host answers a command it does not carry out is honest.
LEMMA AnswerTyped ==
    ASSUME ChannelInv, Grows, NEW c \in Calls, c \in Sendable, conn \in Sockets,
           Answer(c), UNCHANGED <<st, req>>
    PROVE  up' \in [Sockets -> Seq(Results')]
<1>1. st[c] = "sent" /\ Dispatched(c) /\ c \in Calls
  BY FrameNames DEF Sendable
<1>2. ASSUME NEW v \in Errors, Respond(c, v) PROVE up' \in [Sockets -> Seq(Results')]
  BY <1>1, <1>2, RespondTyped DEF Honest, Outcomes
<1>3. CASE Recorded(c) /\ Respond(c, memo[req[c].key]) /\ UNCHANGED answered
  <2>1. req[c].cmd = "click" /\ req[c].key \in Keys
    BY <1>1, <1>3 DEF Recorded, Dispatched
  <2>2. memo[req[c].key] \in Verdicts /\ <<req[c].key, memo[req[c].key]>> \in answered
    BY <1>3, <2>1 DEF ChannelInv, HostInv, Recorded
  <2> QED BY <1>1, <1>3, <2>2, RespondTyped DEF Honest, Outcomes
<1>4. CASE Respond(c, "refused") /\ Remember(c, "refused")
  <2>1. Honest(c, "refused")'
    BY <1>4 DEF Remember, Honest
  <2> QED BY <1>1, <1>4, <2>1, RespondTyped DEF Outcomes, Verdicts
<1> QED BY <1>2, <1>3, <1>4 DEF Answer, Errors

LEMMA WireStep == ASSUME ChannelInv, Grows, CallsInv', [Next]_vars PROVE WireInv'
<1>0. /\ down \in [Sockets -> Seq(Sendable')] /\ up \in [Sockets -> Seq(Results')]
      /\ \A s \in Sockets : down[s] \in Seq(Sendable') /\ up[s] \in Seq(Results')
      /\ Hello \in Sendable' /\ Refusal \in Sendable'
      /\ << >> \in Seq(Sendable') /\ << >> \in Seq(Results')
  <2>1. Sendable \subseteq Sendable' /\ Results \subseteq Results'
    BY Kept DEF ChannelInv
  <2>2. down \in [Sockets -> Seq(Sendable)] /\ up \in [Sockets -> Seq(Results)]
    BY DEF ChannelInv, WireInv
  <2>3. down \in [Sockets -> Seq(Sendable')] /\ up \in [Sockets -> Seq(Results')]
    BY <2>1, <2>2, WiresGrow
  <2> QED BY <2>3, EmptySeq DEF Sendable
<1>1. CASE UNCHANGED <<down, up>>
  BY <1>0, <1>1 DEF WireInv
<1>2. ASSUME NEW s \in Sockets,
             Handler(s) \/ Cut(s) \/ \E paired \in BOOLEAN : Connect(s, paired)
      PROVE  WireInv'
  <2>1. CASE Greet(s)
    BY <1>0, <2>1, PutTyped DEF Greet, WireInv
  <2>2. CASE Receive(s)
    BY <1>0, <2>2, TakeTyped DEF Receive, WireInv
  <2>3. CASE Cut(s)
    BY <1>0, <2>3 DEF Cut, WireInv
  <2>4. ASSUME NEW paired \in BOOLEAN, Connect(s, paired) PROVE WireInv'
    <3>1. Append(<< >>, Refusal) \in Seq(Sendable') /\ Append(<< >>, Refusal) = <<Refusal>>
      BY <1>0, AppendProperties
    <3>2. up' = up /\ (down' = down \/ down' = [down EXCEPT ![s] = <<Refusal>>])
      BY <2>4 DEF Connect
    <3> QED BY <1>0, <3>1, <3>2 DEF WireInv
  <2> QED
    BY <1>1, <1>2, <2>1, <2>2, <2>3, <2>4
    DEF Handler, Attach, GreetFails, PumpEnds, sockets
<1>3. ASSUME NEW c \in Calls, Caller(c) PROVE WireInv'
  <2>1. CASE Send(c)
    <3>1. c \in Sendable'
      <4>1. Dispatched(c) /\ st[c] = "sending"
        BY <2>1 DEF Send, ChannelInv, CallsInv
      <4>2. Dispatched(c)' /\ st'[c] = "sent"
        BY <2>1, <4>1, Kept DEF ChannelInv, CallsInv, Send
      <4> QED BY <4>2 DEF Sendable
    <3>2. CASE sock[c] \in Sockets
      BY <1>0, <2>1, <3>1, <3>2, PutTyped DEF Send, WireInv
    <3>3. CASE sock[c] \notin Sockets
      <4>1. down' = down /\ up' = up
        BY <1>0, <2>1, <3>3 DEF Send, Put
      <4> QED BY <1>1, <4>1
    <3> QED BY <3>2, <3>3
  <2> QED
    BY <1>1, <1>3, <2>1 DEF Caller, Dispatch, SendFails, TimeOut, Tick, sockets
<1>4. CASE ReadHello \/ Ignore
  <2>1. conn \in Sockets /\ down[conn] # << >>
        /\ down' = [down EXCEPT ![conn] = Tail(@)] /\ up' = up
    BY <1>4, ChannelAssumption DEF ReadHello, Ignore, ChannelInv, HostInv, Sockets
  <2> QED BY <1>0, <2>1, TakeTyped DEF WireInv
<1>5. ASSUME NEW c \in Calls, Handle(c) PROVE WireInv'
  <2>1. conn \in Sockets /\ c \in Sendable \ {Hello, Refusal}
    BY <1>5, HandledIsSent
  <2>2. /\ down[conn] # << >> /\ down' = [down EXCEPT ![conn] = Tail(@)]
        /\ UNCHANGED <<st, req>>
    BY <1>5 DEF Handle, calls
  <2>3. down' \in [Sockets -> Seq(Sendable')]
    BY <1>0, <2>1, <2>2, TakeTyped
  <2>4. up' \in [Sockets -> Seq(Results')]
    <3>1. CASE Respond(c, "ok") /\ req[c].cmd = "create_session"
      BY <2>1, <2>2, <3>1, RespondTyped DEF Sendable, Honest, Outcomes, Verdicts
    <3>2. CASE Answer(c)
      BY <2>1, <2>2, <3>2, AnswerTyped
    <3>3. CASE up' = up
      BY <1>0, <3>3
    <3> QED BY <1>5, <3>1, <3>2, <3>3 DEF Handle
  <2> QED BY <2>3, <2>4 DEF WireInv
<1>6. ASSUME NEW c \in Calls, Run(c) PROVE WireInv'
  <2>1. conn \in Sockets /\ c \in Sendable \ {Hello, Refusal}
    BY <1>6, RunningIsSent
  <2>2. UNCHANGED <<down, st, req>>
    BY <1>6 DEF Run, calls
  <2>3. PICK v \in {"ok", "failed"} : Respond(c, v) /\ Remember(c, v)
    BY <1>6 DEF Run
  <2>4. Honest(c, v)'
    BY <2>2, <2>3 DEF Remember, Honest
  <2> QED
    BY <1>0, <2>1, <2>2, <2>3, <2>4, RespondTyped DEF Sendable, Outcomes, Verdicts, WireInv
<1>7. CASE HostHangsUp \/ RestartHost \/ Revoke \/ UserReturns
  BY <1>1, <1>7 DEF HostHangsUp, RestartHost, Revoke, UserReturns, sockets
<1> QED
  BY <1>1, <1>2, <1>3, <1>4, <1>5, <1>6, <1>7 DEF Next, Host, vars, sockets

-----------------------------------------------------------------------------
(* The host *)

\* A step that is not the host's own.
LEMMA HostFrame ==
    ASSUME ChannelInv, Grows, owner' \in {owner, "agent"},
           UNCHANGED <<conn, at, running, memo, clicks>>
    PROVE  HostInv'
<1>1. CASE running = NoCall
  BY <1>1 DEF ChannelInv, HostInv, Grows
<1>2. CASE running # NoCall
  <2>1. running \in Sendable \ {Hello, Refusal} /\ running \in Calls /\ st[running] = "sent"
    BY <1>2 DEF ChannelInv, HostInv, Sendable
  <2>2. running \in Sendable' /\ req'[running] = req[running]
    BY <2>1, Kept DEF ChannelInv, Grows
  <2> QED BY <1>2, <2>1, <2>2 DEF ChannelInv, HostInv, Grows
<1> QED BY <1>1, <1>2

\* A step after which the browser is at work on nothing.
LEMMA HostAtRest ==
    ASSUME ChannelInv, running' = NoCall, answered \subseteq answered',
           \/ UNCHANGED <<conn, at>>
           \/ conn' = 0 /\ at' = "off"
           \/ conn' \in Sockets /\ at' \in {"hello", "loop"},
           memo' \in [Keys -> Verdicts \cup {"none"}], clicks' \in [Keys -> {0, 1}],
           \A k \in Keys : IF memo'[k] = "none" THEN clicks'[k] = 0
                           ELSE <<k, memo'[k]>> \in answered'
    PROVE  HostInv'
BY ChannelAssumption DEF ChannelInv, HostInv, Sockets

\* What a command got becomes the answer on record for its key.
LEMMA RememberTyped ==
    ASSUME ChannelInv, NEW c \in Calls, Dispatched(c), NEW v \in Verdicts, Remember(c, v),
           NEW d \in {0, 1},
           clicks' = IF req[c].cmd = "click" /\ d = 1
                     THEN [clicks EXCEPT ![req[c].key] = @ + 1] ELSE clicks,
           req[c].cmd = "click" => memo[req[c].key] = "none"
    PROVE  /\ memo' \in [Keys -> Verdicts \cup {"none"}] /\ clicks' \in [Keys -> {0, 1}]
           /\ \A k \in Keys : IF memo'[k] = "none" THEN clicks'[k] = 0
                              ELSE <<k, memo'[k]>> \in answered'
           /\ answered \subseteq answered'
<1>0. /\ memo \in [Keys -> Verdicts \cup {"none"}] /\ clicks \in [Keys -> {0, 1}]
      /\ \A k \in Keys : IF memo[k] = "none" THEN clicks[k] = 0
                         ELSE <<k, memo[k]>> \in answered
  BY DEF ChannelInv, HostInv
<1>1. CASE req[c].cmd # "click"
  BY <1>0, <1>1 DEF Remember
<1>2. CASE req[c].cmd = "click"
  <2> DEFINE key == req[c].key
  <2>1. key \in Keys /\ memo[key] = "none" /\ clicks[key] = 0
    BY <1>0, <1>2 DEF Dispatched
  <2>2. /\ memo' = [memo EXCEPT ![key] = v] /\ answered' = answered \cup {<<key, v>>}
        /\ clicks' = [clicks EXCEPT ![key] = d]
    <3>1. clicks' = [clicks EXCEPT ![key] = d]
      <4>1. CASE d = 0
        BY <1>0, <2>1, <4>1
      <4>2. CASE d = 1
        BY <1>0, <1>2, <2>1, <4>2
      <4> QED BY <4>1, <4>2
    <3> QED BY <1>2, <3>1 DEF Remember
  <2>3. v # "none"
    BY DEF Verdicts
  <2> HIDE DEF key
  <2> QED BY <1>0, <2>1, <2>2, <2>3
<1> QED BY <1>1, <1>2

LEMMA HostStep == ASSUME ChannelInv, Grows, [Next]_vars PROVE HostInv'
<1>0. /\ conn \in 0 .. MaxConn /\ (at # "off" => conn \in Sockets)
      /\ (running # NoCall => at = "loop")
      /\ memo \in [Keys -> Verdicts \cup {"none"}] /\ clicks \in [Keys -> {0, 1}]
      /\ \A k \in Keys : IF memo[k] = "none" THEN clicks[k] = 0
                         ELSE <<k, memo[k]>> \in answered
      /\ \A s \in Sockets : s # 0
  BY ChannelAssumption DEF ChannelInv, HostInv, Sockets
<1>1. CASE UNCHANGED <<link, browser>>
  BY <1>1, HostFrame DEF link, browser
<1>2. ASSUME NEW s \in Sockets,
             Handler(s) \/ Cut(s) \/ \E paired \in BOOLEAN : Connect(s, paired)
      PROVE  HostInv'
  <2>1. ASSUME NEW paired \in BOOLEAN, Connect(s, paired) PROVE HostInv'
    <3>1. running = NoCall /\ conn' = s /\ at' = "hello" /\ UNCHANGED browser
      BY <1>0, <2>1 DEF Connect
    <3> QED BY <1>0, <3>1, HostAtRest DEF browser
  <2> QED
    BY <1>1, <1>2, <2>1 DEF Handler, Attach, Greet, GreetFails, Receive, PumpEnds, Cut
<1>3. ASSUME NEW c \in Calls, Caller(c) PROVE HostInv'
  BY <1>1, <1>3 DEF Caller, Dispatch, Send, SendFails, TimeOut, Tick
<1>4. CASE ReadHello \/ HostHangsUp
  <2>1. /\ running' = NoCall /\ UNCHANGED <<memo, clicks, answered>>
        /\ \/ UNCHANGED <<conn, at>>
           \/ conn' = 0 /\ at' = "off"
           \/ conn' \in Sockets /\ at' \in {"hello", "loop"}
    BY <1>0, <1>4 DEF ReadHello, HostHangsUp, Leave
  <2> QED BY <1>0, <2>1, HostAtRest
<1>5. CASE Ignore \/ Revoke
  BY <1>1, <1>5 DEF Ignore, Revoke
<1>6. CASE UserReturns
  BY <1>6, HostFrame DEF UserReturns, link
<1>7. CASE RestartHost
  <2>1. /\ running' = NoCall /\ answered' = answered
        /\ memo' = [k \in Keys |-> "none"] /\ clicks' = [k \in Keys |-> 0]
        /\ UNCHANGED <<conn, at>> \/ (conn' = 0 /\ at' = "off")
    BY <1>7 DEF RestartHost, Leave
  <2> QED BY <2>1, HostAtRest
<1>8. ASSUME NEW c \in Calls, Handle(c) PROVE HostInv'
  <2>1. c \in Sendable \ {Hello, Refusal} /\ Dispatched(c)
    BY <1>8, HandledIsSent DEF Sendable
  <2>2. running = NoCall /\ at = "loop" /\ UNCHANGED <<st, req, owner, clicks>>
    BY <1>8 DEF Handle, calls
  <2>3. ASSUME NEW v, Respond(c, v)
        PROVE  running' = NoCall /\ (UNCHANGED <<conn, at>> \/ (conn' = 0 /\ at' = "off"))
    BY <2>3 DEF Respond, Leave
  <2>4. ASSUME NEW v, Respond(c, v), UNCHANGED <<memo, answered>> PROVE HostInv'
    BY <1>0, <2>2, <2>3, <2>4, HostAtRest
  <2>5. CASE Respond(c, "refused") /\ Remember(c, "refused") /\ ~ Recorded(c)
    <3>1. req[c].cmd = "click" => memo[req[c].key] = "none"
      BY <2>5 DEF Recorded
    <3>2. /\ memo' \in [Keys -> Verdicts \cup {"none"}] /\ clicks' \in [Keys -> {0, 1}]
          /\ \A k \in Keys : IF memo'[k] = "none" THEN clicks'[k] = 0
                             ELSE <<k, memo'[k]>> \in answered'
          /\ answered \subseteq answered'
      BY <2>1, <2>2, <2>5, <3>1, RememberTyped DEF Verdicts
    <3> QED BY <2>3, <2>5, <3>2, HostAtRest
  <2>6. CASE ~ Answerable(c) /\ running' = c /\ UNCHANGED <<memo, answered, conn, at>>
    <3>1. /\ req[c].cmd \notin NotActing => owner = "agent"
          /\ req[c].cmd = "click" => memo[req[c].key] = "none"
      BY <2>6 DEF Answerable, MayAct, Recorded
    <3>2. c \in Sendable' \ {Hello, Refusal} /\ req' = req
      BY <2>1, <2>2, Kept DEF ChannelInv
    <3> QED BY <1>0, <2>2, <2>6, <3>1, <3>2 DEF HostInv, Sockets, ChannelInv
  <2> QED BY <1>8, <2>4, <2>5, <2>6 DEF Handle, Answer
<1>9. ASSUME NEW c \in Calls, Run(c) PROVE HostInv'
  <2>1. c \in Sendable \ {Hello, Refusal} /\ Dispatched(c)
    BY <1>9, RunningIsSent DEF Sendable
  <2>2. c # NoCall /\ running = c
    BY <1>9, ChannelAssumption DEF Run
  <2>3. req[c].cmd = "click" => memo[req[c].key] = "none"
    BY <2>2 DEF ChannelInv, HostInv
  <2>4. PICK v \in {"ok", "failed"} : Respond(c, v) /\ Remember(c, v)
    BY <1>9 DEF Run
  <2>5. PICK d \in {0, 1} :
          clicks' = IF req[c].cmd = "click" /\ d = 1
                    THEN [clicks EXCEPT ![req[c].key] = @ + 1] ELSE clicks
    BY <1>9 DEF Run
  <2>6. running' = NoCall /\ (UNCHANGED <<conn, at>> \/ (conn' = 0 /\ at' = "off"))
    BY <2>4 DEF Respond, Leave
  <2>7. /\ memo' \in [Keys -> Verdicts \cup {"none"}] /\ clicks' \in [Keys -> {0, 1}]
        /\ \A k \in Keys : IF memo'[k] = "none" THEN clicks'[k] = 0
                           ELSE <<k, memo'[k]>> \in answered'
        /\ answered \subseteq answered'
    BY <2>1, <2>3, <2>4, <2>5, RememberTyped DEF Verdicts
  <2> QED BY <2>6, <2>7, HostAtRest
<1>10. CASE UNCHANGED vars
  BY <1>1, <1>10 DEF vars
<1> QED
  BY <1>2, <1>3, <1>4, <1>5, <1>6, <1>7, <1>8, <1>9, <1>10 DEF Next, Host

LEMMA ChannelInvInit == ASSUME Init PROVE ChannelInv
<1>1. CallsInv
  BY DEF Init, CallsInv
<1>2. WireInv
  BY EmptySeq DEF Init, WireInv
<1>3. HostInv
  BY ChannelAssumption DEF Init, HostInv
<1> QED BY <1>1, <1>2, <1>3 DEF ChannelInv

\* The calls, the frames on their way and the host stay in step with each other, in every
\* reachable state (BrowserHostManager, CommandDispatcher, HostClient._loop).
THEOREM ChannelInvariance == Spec => []ChannelInv
<1>1. Init => ChannelInv
  BY ChannelInvInit
<1>2. ChannelInv /\ [Next]_vars => ChannelInv'
  BY GrowsStep, CallsStep, WireStep, HostStep DEF ChannelInv
<1> QED BY <1>1, <1>2, PTL DEF Spec

-----------------------------------------------------------------------------
(* What the channel promises *)

\* A session delegated to the user is left alone until it is handed back, whatever was
\* queued on the socket before (CommandDispatcher._run, HostClient._loop).
THEOREM DelegatedIsNotClicked == Spec => DelegatedIsLeftAlone
<1>1. ASSUME ChannelInv, [Next]_vars
      PROVE  (\E k \in Keys : clicks'[k] > clicks[k]) => owner = "agent"
  <2>0. clicks \in [Keys -> {0, 1}]
    BY <1>1 DEF ChannelInv, HostInv
  <2>1. CASE UNCHANGED clicks
    BY <2>0, <2>1
  <2>2. ASSUME NEW c \in Calls, Run(c), clicks' # clicks PROVE owner = "agent"
    <3>1. req[c].cmd = "click" /\ running = c
      BY <2>2 DEF Run
    <3>2. c # NoCall
      BY ChannelAssumption
    <3> QED BY <1>1, <3>1, <3>2 DEF ChannelInv, HostInv, NotActing
  <2>3. CASE RestartHost
    <3>1. \A k \in Keys : clicks'[k] = 0
      BY <2>3 DEF RestartHost
    <3> QED BY <2>0, <3>1
  <2>4. UNCHANGED clicks \/ RestartHost \/ \E c \in Calls : Run(c)
    BY <1>1
    DEF Next, Host, Handler, Caller, vars, browser, Attach, Greet, GreetFails, Receive,
        PumpEnds, Cut, Connect, Dispatch, Send, SendFails, TimeOut, Tick, ReadHello,
        HostHangsUp, Ignore, Handle, Revoke, UserReturns
  <2> QED BY <2>1, <2>2, <2>3, <2>4
<1>2. ChannelInv /\ [Next]_vars => [(\E k \in Keys : clicks'[k] > clicks[k]) => owner = "agent"]_vars
  BY <1>1
<1> QED BY <1>2, ChannelInvariance, PTL DEF Spec, DelegatedIsLeftAlone

\* A key is clicked at most once in the life of a host process, however often it is sent
\* and over however many connections (CommandDispatcher.remember).
THEOREM ClickedAtMostOnce == Spec => [](\A k \in Keys : clicks[k] <= 1)
<1>1. ChannelInv => \A k \in Keys : clicks[k] <= 1
  BY DEF ChannelInv, HostInv
<1> QED BY <1>1, ChannelInvariance, PTL

-----------------------------------------------------------------------------
(* Refinement *)

MappedReply == [c \in Calls |-> Told(c)]

\* A call that was told something was told it for good.
LEMMA ToldOnce ==
    ASSUME ChannelInv, [Next]_vars, NEW c \in Calls, st[c] = "sent", fut[c] # "none"
    PROVE  fut'[c] = fut[c]
<1>0. fut \in [Calls -> Outcomes \cup {"none"}]
  BY DEF ChannelInv, CallsInv
<1>1. CASE fut' = fut
  BY <1>1
<1>2. ASSUME NEW s, NEW why, FailPending(s, why) PROVE fut'[c] = fut[c]
  BY <1>2 DEF FailPending
<1>3. ASSUME NEW s \in Sockets,
             Handler(s) \/ Cut(s) \/ \E paired \in BOOLEAN : Connect(s, paired)
      PROVE  fut'[c] = fut[c]
  <2>1. CASE Receive(s)
    BY <1>0, <2>1 DEF Receive
  <2> QED
    BY <1>1, <1>2, <1>3, <2>1
    DEF Handler, Attach, Greet, GreetFails, PumpEnds, Detach, Cut, Connect
<1>4. ASSUME NEW d \in Calls, Caller(d) PROVE fut'[c] = fut[c]
  BY <1>0, <1>4 DEF Caller, Dispatch, Refused, Send, SendFails, TimeOut, Tick, Waiting
<1>5. CASE Host \/ Revoke \/ UserReturns
  BY <1>1, <1>2, <1>5
  DEF Host, ReadHello, HostHangsUp, Ignore, RestartHost, Handle, Run, Revoke, Detach, UserReturns
<1> QED BY <1>1, <1>3, <1>4, <1>5 DEF Next, vars

\* Who is told something is told an answer that was given, or an error.
LEMMA ToldTyped ==
    ASSUME CallsInv', UNCHANGED answered
    PROVE  MappedReply' \in [Calls -> {<< >>} \cup answered \cup (Keys \X Errors)]
<1>1. ASSUME NEW c \in Calls, Told(c)' # << >>
      PROVE  Told(c)' \in answered \cup (Keys \X Errors)
  <2>1. /\ st'[c] = "sent" /\ fut'[c] # "none"
        /\ req'[c].cmd = "click" /\ req'[c].key # NoKey
        /\ Told(c)' = <<req'[c].key, fut'[c]>>
    BY <1>1 DEF Told
  <2>2. req'[c].key \in Keys /\ HonestlyTold(c)'
    BY <2>1 DEF CallsInv, Requests
  <2>3. fut'[c] \in Errors \/ <<req'[c].key, fut'[c]>> \in answered
    BY <2>1, <2>2 DEF HonestlyTold, Honest
  <2> QED BY <2>1, <2>2, <2>3
<1>2. \A c \in Calls : Told(c)' \in {<< >>} \cup answered \cup (Keys \X Errors)
  BY <1>1
<1> QED BY <1>2 DEF MappedReply

LEMMA SameReply == ASSUME UNCHANGED <<st, req, fut>> PROVE MappedReply' = MappedReply
<1>1. \A c \in Calls : Told(c)' = Told(c)
  BY DEF Told
<1> QED BY <1>1 DEF MappedReply

\* A step that decides and forgets nothing, if it tells a caller, replies.
LEMMA ReplyMaps ==
    ASSUME ChannelInv, Grows, CallsInv', [Next]_vars, UNCHANGED <<memo, clicks, answered>>
    PROVE  Service!Reply
<1>1. MappedReply' \in [Calls -> {<< >>} \cup answered \cup (Keys \X Errors)]
  BY ToldTyped
<1>2. ASSUME NEW c \in Calls, Told(c) # << >> PROVE Told(c)' = Told(c)
  <2>1. st[c] = "sent" /\ fut[c] # "none"
    BY <1>2 DEF Told
  <2>2. st'[c] = "sent" /\ req'[c] = req[c] /\ fut'[c] = fut[c]
    BY <2>1, ToldOnce DEF Grows
  <2> QED BY <2>1, <2>2 DEF Told
<1>3. \A c \in Calls : MappedReply[c] # << >> => MappedReply'[c] = MappedReply[c]
  BY <1>2 DEF MappedReply
<1> QED BY <1>1, <1>3 DEF Service!Reply, MappedReply

\* A refusal, or the end of a command, is the decision on its key.
LEMMA DecideMaps ==
    ASSUME ChannelInv, NEW c \in Calls, Dispatched(c), req[c].cmd = "click",
           memo[req[c].key] = "none", NEW v \in Verdicts, Remember(c, v),
           NEW d \in Service!Touched(v), clicks' = [clicks EXCEPT ![req[c].key] = @ + d],
           UNCHANGED <<st, req, fut>>
    PROVE  \E k \in Keys, w \in Verdicts : Service!Decide(k, w)
<1>1. req[c].key \in Keys
  BY DEF Dispatched
<1>2. Service!Decide(req[c].key, v)
  BY <1>1, SameReply DEF Service!Decide, Remember, MappedReply
<1> QED BY <1>1, <1>2

LEMMA HandleMaps ==
    ASSUME ChannelInv, Grows, CallsInv', [Next]_vars, NEW c \in Calls, Handle(c)
    PROVE  Service!Next
<1>1. c \in Sendable \ {Hello, Refusal} /\ Dispatched(c)
  BY HandledIsSent DEF Sendable
<1>2. UNCHANGED <<st, req, fut, clicks>>
  BY DEF Handle, calls
<1>3. CASE UNCHANGED <<memo, answered>>
  BY <1>2, <1>3, ReplyMaps DEF Service!Next
<1>4. CASE Remember(c, "refused") /\ ~ Recorded(c) /\ req[c].cmd = "click"
  <2>1. 0 \in Service!Touched("refused")
    BY DEF Service!Touched
  <2>2. clicks \in [Keys -> {0, 1}] /\ req[c].key \in Keys
    BY <1>1, <1>4 DEF ChannelInv, HostInv, Dispatched
  <2>3. clicks' = [clicks EXCEPT ![req[c].key] = @ + 0]
    BY <1>2, <2>2
  <2> QED
    BY <1>1, <1>2, <1>4, <2>1, <2>3, DecideMaps DEF Recorded, Verdicts, Service!Next
<1> QED BY <1>3, <1>4 DEF Handle, Answer, Remember

LEMMA RunMaps ==
    ASSUME ChannelInv, Grows, CallsInv', [Next]_vars, NEW c \in Calls, Run(c)
    PROVE  Service!Next
<1>1. c \in Sendable \ {Hello, Refusal} /\ Dispatched(c)
  BY RunningIsSent DEF Sendable
<1>2. UNCHANGED <<st, req, fut>>
  BY DEF Run, calls
<1>3. running = c /\ c # NoCall
  BY ChannelAssumption DEF Run
<1>4. PICK v \in {"ok", "failed"} :
        /\ Remember(c, v)
        /\ \E acted \in {v = "ok", TRUE} :
             clicks' = IF req[c].cmd = "click" /\ acted
                       THEN [clicks EXCEPT ![req[c].key] = @ + 1] ELSE clicks
  BY DEF Run
<1>5. CASE req[c].cmd = "click"
  <2>1. memo[req[c].key] = "none" /\ req[c].key \in Keys /\ clicks \in [Keys -> {0, 1}]
    BY <1>1, <1>3, <1>5 DEF ChannelInv, HostInv, Dispatched
  <2>2. PICK d \in Service!Touched(v) : clicks' = [clicks EXCEPT ![req[c].key] = @ + d]
    <3>1. CASE clicks' = [clicks EXCEPT ![req[c].key] = @ + 1]
      BY <3>1 DEF Service!Touched
    <3>2. CASE clicks' = clicks /\ v = "failed"
      <4>1. clicks' = [clicks EXCEPT ![req[c].key] = @ + 0]
        BY <2>1, <3>2
      <4>2. 0 \in Service!Touched(v)
        BY <3>2 DEF Service!Touched
      <4> QED BY <4>1, <4>2
    <3> QED BY <1>4, <1>5, <3>1, <3>2
  <2> QED
    BY <1>1, <1>2, <1>4, <1>5, <2>1, <2>2, DecideMaps DEF Verdicts, Service!Next
<1>6. CASE req[c].cmd # "click"
  BY <1>4, <1>6, ReplyMaps DEF Remember, Service!Next
<1> QED BY <1>5, <1>6

\* The channel implements the at-most-once command service.
THEOREM ChannelRefines == Spec => RefinesService
<1>1. Init => Service!Init
  BY DEF Init, Service!Init, Told
<1>2. ASSUME ChannelInv, CallsInv', [Next]_vars PROVE [Service!Next]_(Service!vars)
  <2>0. Grows
    BY <1>2, GrowsStep
  <2>1. CASE UNCHANGED <<memo, clicks, answered>>
    BY <1>2, <2>0, <2>1, ReplyMaps DEF Service!Next
  <2>2. CASE RestartHost
    <3>1. UNCHANGED <<st, req, fut>>
      BY <2>2 DEF RestartHost, calls
    <3> QED BY <2>2, <3>1, SameReply DEF RestartHost, Service!Forget, Service!Next, MappedReply
  <2>3. ASSUME NEW c \in Calls, Handle(c) \/ Run(c) PROVE Service!Next
    BY <1>2, <2>0, <2>3, HandleMaps, RunMaps
  <2>4. \/ UNCHANGED <<memo, clicks, answered>>
        \/ RestartHost
        \/ \E c \in Calls : Handle(c) \/ Run(c)
    BY <1>2
    DEF Next, Host, Handler, Caller, vars, browser, Attach, Greet, GreetFails, Receive,
        PumpEnds, Cut, Connect, Dispatch, Send, SendFails, TimeOut, Tick, ReadHello,
        HostHangsUp, Ignore, Revoke, UserReturns
  <2> QED BY <2>1, <2>2, <2>3, <2>4
<1>3. ChannelInv /\ ChannelInv' /\ [Next]_vars => [Service!Next]_(Service!vars)
  BY <1>2 DEF ChannelInv
<1> QED BY ChannelInvariance, <1>1, <1>3, PTL DEF Spec, RefinesService, Service!Spec
=============================================================================
