------------------------ MODULE BrowserSessionsProofs -------------------------
(***************************************************************************)
(* That no context is orphaned and none survives a shutdown, for any       *)
(* number of tasks, ids and contexts. The strengthening says what the lock *)
(* _opening protects: whoever holds it is building a session for an id     *)
(* that has none, or is the shutdown.                                      *)
(***************************************************************************)
EXTENDS BrowserSessions, SequenceTheorems, TLAPS

SessionType ==
    /\ browser \in {"none", "up", "dead"}
    /\ sessions \in Seq(Session) /\ Len(sessions) <= MaxContexts
    /\ registry \in [Ids -> 0 .. Len(sessions)] /\ owned \in [Ids -> 0 .. Len(sessions)]
    /\ opening \in Tasks \cup {"none", "container"}
    /\ shutdown \in {"no", "waiting", "closing", "done"}
    /\ task \in [Tasks -> Task]
    /\ \A t \in Tasks : task[t].at \notin {"idle", "queued", "launching"} =>
          task[t].session \in 1 .. Len(sessions)

\* Whoever builds a session holds the lock, and nobody builds once the shutdown has it.
LockIsHeld ==
    /\ \A t \in Tasks : task[t].at \in Building <=> opening = t
    /\ opening = "container" <=> shutdown = "closing"
    /\ opening \in Tasks => ~browser_closed

\* The id a session is built for has none yet, until the session is registered.
BuiltForAFreeId ==
    \A t \in Tasks :
        /\ task[t].at \in Building => registry[task[t].id] = 0
        /\ task[t].at = "paging" => sessions[task[t].session].id = task[t].id

RegistryIsTrue ==
    \A i \in Ids : registry[i] # 0 => sessions[registry[i]].id = i

SessionsInv ==
    SessionType /\ LockIsHeld /\ BuiltForAFreeId /\ RegistryIsTrue /\ NothingIsOrphaned

-----------------------------------------------------------------------------
(* What a step does to the sessions and to the tasks *)

LEMMA SessionFacts ==
    ASSUME SessionType
    PROVE  /\ Len(sessions) \in Nat /\ DOMAIN sessions = 1 .. Len(sessions)
           /\ \A s \in 1 .. Len(sessions) : sessions[s] \in Session
BY LenProperties, ElementOfSeq DEF SessionType

LEMMA OneChanges ==
    ASSUME SessionType, NEW s \in 1 .. Len(sessions), NEW changed \in Session
    PROVE  /\ [sessions EXCEPT ![s] = changed] \in Seq(Session)
           /\ Len([sessions EXCEPT ![s] = changed]) = Len(sessions)
           /\ \A u \in 1 .. Len(sessions) :
                [sessions EXCEPT ![s] = changed][u] = IF u = s THEN changed ELSE sessions[u]
BY ExceptSeq DEF SessionType

LEMMA AllGo ==
    ASSUME SessionType, sessions' = [s \in DOMAIN sessions |-> [sessions[s] EXCEPT !.context = "gone"]]
    PROVE  /\ sessions' \in Seq(Session) /\ Len(sessions') = Len(sessions)
           /\ \A s \in 1 .. Len(sessions) :
                sessions'[s] = [sessions[s] EXCEPT !.context = "gone"]
<1>1. \A s \in 1 .. Len(sessions) : [sessions[s] EXCEPT !.context = "gone"] \in Session
  BY SessionFacts DEF Session
<1>2. sessions' = [s \in 1 .. Len(sessions) |-> [sessions[s] EXCEPT !.context = "gone"]]
      /\ Len(sessions) \in Nat
  BY SessionFacts
<1>3. sessions' \in [1 .. Len(sessions) -> Session]
  BY <1>1, <1>2
<1>4. sessions' \in Seq(Session) /\ Len(sessions') = Len(sessions)
  BY <1>2, <1>3
<1> QED BY <1>2, <1>4

\* How a step may change a session that exists: its id stays, nothing is reopened, and
\* only the one that is registered opens.
Ages(s) ==
    /\ sessions'[s].id = sessions[s].id
    /\ sessions[s].closed => sessions'[s].closed
    /\ sessions[s].context = "gone" => sessions'[s].context = "gone"
    /\ sessions[s].context # "open" /\ sessions'[s].context = "open" =>
          \E t \in Tasks : Register(t) /\ task[t].session = s

SessionsAge ==
    /\ sessions' \in Seq(Session) /\ Len(sessions') <= MaxContexts
    /\ Len(sessions') = Len(sessions) \/ \E t \in Tasks : ensure_browser(t)
    /\ Len(sessions') >= Len(sessions)
    /\ \A s \in 1 .. Len(sessions) : Ages(s)

LEMMA OneAges ==
    ASSUME SessionType, NEW s \in 1 .. Len(sessions), NEW changed \in Session,
           sessions' = [sessions EXCEPT ![s] = changed], changed.id = sessions[s].id,
           sessions[s].closed => changed.closed,
           sessions[s].context = "gone" => changed.context = "gone",
           changed.context = "open" => \/ sessions[s].context = "open"
                                       \/ \E t \in Tasks : Register(t) /\ task[t].session = s
    PROVE  SessionsAge
BY OneChanges, SessionFacts DEF SessionsAge, Ages, SessionType

LEMMA BeginCloseAges ==
    ASSUME SessionType, NEW t \in Tasks, NEW s \in 0 .. Len(sessions), BeginClose(t, s)
    PROVE  SessionsAge
<1>1. CASE UNCHANGED sessions
  BY <1>1, SessionFacts DEF SessionsAge, Ages, SessionType
<1>2. CASE s # 0 /\ sessions' = [sessions EXCEPT ![s].closed = TRUE]
  <2>1. s \in 1 .. Len(sessions) /\ sessions[s] \in Session
    BY <1>2, SessionFacts
  <2>2. sessions' = [sessions EXCEPT ![s] = [sessions[s] EXCEPT !.closed = TRUE]]
    BY <1>2
  <2> QED BY <2>1, <2>2, OneAges DEF Session
<1> QED BY <1>1, <1>2 DEF BeginClose

\* Where a task is, its session exists.
LEMMA TaskFacts ==
    ASSUME SessionType, NEW t \in Tasks
    PROVE  /\ task[t].at # "idle" => /\ task[t].id \in Ids
                                     /\ task[t].session \in 0 .. MaxContexts
                                     /\ task[t].managed \in BOOLEAN
           /\ task[t].at \notin {"idle", "queued", "launching"} =>
                 task[t].session \in 1 .. Len(sessions)
BY DEF SessionType, Task, Idle

LEMMA SessionsStep == ASSUME SessionType, [Next]_vars PROVE SessionsAge
<1>0. CASE UNCHANGED sessions
  BY <1>0, SessionFacts DEF SessionsAge, Ages, SessionType
<1>1. ASSUME NEW t \in Tasks, TaskStep(t) PROVE SessionsAge
  <2>1. CASE ensure_browser(t)
    <3> DEFINE new == [id |-> task[t].id, context |-> "bare", closed |-> FALSE]
    <3>1. new \in Session
      BY <2>1, TaskFacts DEF ensure_browser, Session
    <3>2. /\ Append(sessions, new) \in Seq(Session)
          /\ Len(Append(sessions, new)) = Len(sessions) + 1
          /\ \A s \in 1 .. Len(sessions) : Append(sessions, new)[s] = sessions[s]
      BY <3>1, AppendProperties DEF SessionType
    <3> HIDE DEF new
    <3>3. sessions' = Append(sessions, new) /\ Len(sessions) < MaxContexts
      BY <2>1 DEF ensure_browser, new
    <3>4. /\ sessions' \in Seq(Session) /\ Len(sessions') <= MaxContexts
          /\ Len(sessions') >= Len(sessions)
          /\ \A s \in 1 .. Len(sessions) : sessions'[s] = sessions[s]
      BY <3>2, <3>3, SessionFacts, SessionAssumption
    <3>5. \A s \in 1 .. Len(sessions) : Ages(s)
      BY <3>4 DEF Ages
    <3> QED BY <2>1, <3>4, <3>5 DEF SessionsAge
  <2>2. CASE Register(t)
    <3> DEFINE s == task[t].session
    <3>1. s \in 1 .. Len(sessions) /\ sessions[s] \in Session
      BY <2>2, TaskFacts, SessionFacts DEF Register
    <3>2. sessions[s].context = "bare"
          /\ sessions' = [sessions EXCEPT ![s] = [sessions[s] EXCEPT !.context = "open"]]
      BY <2>2 DEF Register
    <3>3. [sessions[s] EXCEPT !.context = "open"] \in Session
      BY <3>1 DEF Session
    <3> QED BY <2>2, <3>1, <3>2, <3>3, OneAges DEF Session
  <2>3. CASE NavigationFails(t)
    BY <2>3, TaskFacts, BeginCloseAges, SessionFacts DEF NavigationFails
  <2>4. CASE close_managed(t)
    <3>1. owned[task[t].id] \in 0 .. Len(sessions)
      BY <2>4, TaskFacts DEF SessionType, close_managed
    <3> QED BY <2>4, <3>1, BeginCloseAges DEF close_managed
  <2>5. CASE close_resumed(t)
    BY <2>5, TaskFacts, BeginCloseAges, SessionFacts DEF close_resumed
  <2>6. CASE CloseDone(t)
    <3> DEFINE s == task[t].session
    <3>1. s \in 1 .. Len(sessions) /\ sessions[s] \in Session
      BY <2>6, TaskFacts, SessionFacts DEF CloseDone
    <3>2. sessions' = [sessions EXCEPT ![s] = [sessions[s] EXCEPT !.context = "gone"]]
      BY <2>6 DEF CloseDone
    <3>3. [sessions[s] EXCEPT !.context = "gone"] \in Session
      BY <3>1 DEF Session
    <3> QED BY <3>1, <3>2, <3>3, OneAges DEF Session
  <2> QED
    BY <1>0, <1>1, <2>1, <2>2, <2>3, <2>4, <2>5, <2>6
    DEF TaskStep, Build, acquire, resume_session, EnterOpening, OpenFails, require_live,
        Navigated, Leave, Cancel
<1>2. CASE BrowserDies \/ FinishShutdown
  <2>1. sessions' = [s \in DOMAIN sessions |-> [sessions[s] EXCEPT !.context = "gone"]]
    BY <1>2 DEF BrowserDies, FinishShutdown
  <2> QED BY <2>1, AllGo, SessionFacts DEF SessionsAge, Ages, Session, SessionType
<1>3. CASE CloseNext
  <2>1. PICK i \in Unclosed : sessions' = [sessions EXCEPT ![registry[i]].closed = TRUE,
                                                           ![registry[i]].context = "gone"]
    BY <1>3 DEF CloseNext
  <2> DEFINE s == registry[i]
             changed == [sessions[s] EXCEPT !.closed = TRUE, !.context = "gone"]
  <2>2. s \in 1 .. Len(sessions) /\ sessions[s] \in Session
    BY SessionFacts DEF SessionType, Unclosed
  <2>3. sessions' = [sessions EXCEPT ![s] = changed]
    BY <2>1, <2>2, SessionFacts
  <2>4. changed \in Session /\ changed.id = sessions[s].id /\ changed.closed
        /\ changed.context = "gone"
    BY <2>2 DEF Session
  <2> HIDE DEF changed
  <2> QED BY <2>2, <2>3, <2>4, OneAges
<1> QED
  BY <1>0, <1>1, <1>2, <1>3 DEF Next, vars, aclose, BeginShutdown

\* A task stays, goes elsewhere with what it holds, starts or ends.
LEMMA TaskMoves ==
    ASSUME SessionType, SessionsAge, NEW t \in Tasks,
           \/ UNCHANGED task
           \/ Ends(t)
           \/ /\ task[t].at # "idle"
              /\ \/ /\ task[t].at \notin {"queued", "launching"}
                    /\ \E place \in {"checking", "using"} : Goes(t, place)
                 \/ Goes(t, "launching")
                 \/ \E place \in {"resuming", "checking", "paging", "closing"},
                       s \in 1 .. Len(sessions') :
                      task' = [task EXCEPT ![t].at = place, ![t].session = s]
           \/ \E i \in Ids, managed \in BOOLEAN :
                 \/ Wants(t, i, 0, managed, "queued")
                 \/ \E s \in 1 .. Len(sessions) : Wants(t, i, s, managed, "using")
    PROVE  /\ task' \in [Tasks -> Task]
           /\ \A u \in Tasks : task'[u].at \notin {"idle", "queued", "launching"} =>
                 task'[u].session \in 1 .. Len(sessions')
<1>0. /\ task \in [Tasks -> Task] /\ Len(sessions) \in Nat /\ Len(sessions') \in Nat
      /\ Len(sessions) <= MaxContexts /\ Len(sessions') <= MaxContexts
      /\ Len(sessions') >= Len(sessions)
      /\ \A u \in Tasks : task[u].at \notin {"idle", "queued", "launching"} =>
            task[u].session \in 1 .. Len(sessions')
  <2>1. sessions' \in Seq(Session)
    BY DEF SessionsAge
  <2> QED BY <2>1, SessionFacts, LenProperties DEF SessionType, SessionsAge
<1>1. ASSUME NEW r \in Task, task' = [task EXCEPT ![t] = r],
             r.at \notin {"idle", "queued", "launching"} => r.session \in 1 .. Len(sessions')
      PROVE  /\ task' \in [Tasks -> Task]
             /\ \A u \in Tasks : task'[u].at \notin {"idle", "queued", "launching"} =>
                   task'[u].session \in 1 .. Len(sessions')
  BY <1>0, <1>1
<1>2. CASE UNCHANGED task
  BY <1>0, <1>2
<1>3. CASE Ends(t)
  BY <1>1, <1>3 DEF Ends, Idle, Task
<1>4. CASE task[t].at \notin {"idle", "queued", "launching"}
           /\ \E place \in {"checking", "using"} : Goes(t, place)
  <2>1. PICK place \in {"checking", "using"} : task' = [task EXCEPT ![t].at = place]
    BY <1>4 DEF Goes
  <2>2. [task[t] EXCEPT !.at = place] \in Task
    BY <1>0, <1>4 DEF Task, Idle
  <2> QED BY <1>0, <1>1, <1>4, <2>1, <2>2 DEF Task, Idle
<1>5. CASE task[t].at # "idle" /\ Goes(t, "launching")
  <2>1. task' = [task EXCEPT ![t].at = "launching"]
    BY <1>5 DEF Goes
  <2>2. [task[t] EXCEPT !.at = "launching"] \in Task
    BY <1>0, <1>5 DEF Task, Idle, Building
  <2> QED BY <1>0, <1>1, <1>5, <2>1, <2>2 DEF Task, Idle
<1>6. ASSUME task[t].at # "idle", NEW place \in {"resuming", "checking", "paging", "closing"},
             NEW s \in 1 .. Len(sessions'),
             task' = [task EXCEPT ![t].at = place, ![t].session = s]
      PROVE  /\ task' \in [Tasks -> Task]
             /\ \A u \in Tasks : task'[u].at \notin {"idle", "queued", "launching"} =>
                   task'[u].session \in 1 .. Len(sessions')
  <2> DEFINE r == [task[t] EXCEPT !.at = place, !.session = s]
  <2> DEFINE Away == [at : {"queued", "resuming", "checking", "using", "closing"} \cup Building,
                      id : Ids, session : 0 .. MaxContexts, managed : BOOLEAN]
             moved == [task[t] EXCEPT !.at = place]
  <2>0. task[t] \in Task /\ task[t].at # "idle"
    BY <1>0, <1>6
  <2>1. task[t] \in Away
    BY <2>0 DEF Task, Idle
  <2>3. moved \in Away
    BY <2>1, Zenon DEF Building
  <2>4. s \in 0 .. MaxContexts
    BY <1>0, SessionAssumption
  <2>5. r = [moved EXCEPT !.session = s]
    BY <2>1
  <2>6. r \in Away /\ r.session = s
    BY <2>3, <2>4, <2>5
  <2>7. r \in Task
    BY <2>6 DEF Task
  <2>2. task' = [task EXCEPT ![t] = r]
    BY <1>0, <1>6
  <2> HIDE DEF r
  <2> QED BY <1>1, <2>2, <2>6, <2>7
<1>7. ASSUME NEW i \in Ids, NEW managed \in BOOLEAN,
             \/ Wants(t, i, 0, managed, "queued")
             \/ \E s \in 1 .. Len(sessions) : Wants(t, i, s, managed, "using")
      PROVE  /\ task' \in [Tasks -> Task]
             /\ \A u \in Tasks : task'[u].at \notin {"idle", "queued", "launching"} =>
                   task'[u].session \in 1 .. Len(sessions')
  BY <1>0, <1>1, <1>7, SessionAssumption DEF Wants, Task
<1> QED BY <1>2, <1>3, <1>4, <1>5, <1>6, <1>7

LEMMA TypeStep == ASSUME SessionType, [Next]_vars PROVE SessionType'
<1>0. /\ SessionsAge /\ Len(sessions) \in Nat /\ Len(sessions') \in Nat
      /\ sessions' \in Seq(Session) /\ Len(sessions') <= MaxContexts
      /\ registry \in [Ids -> 0 .. Len(sessions')] /\ owned \in [Ids -> 0 .. Len(sessions')]
  <2>1. SessionsAge
    BY SessionsStep
  <2>2. sessions' \in Seq(Session) /\ Len(sessions') >= Len(sessions)
    BY <2>1 DEF SessionsAge
  <2>3. Len(sessions) \in Nat /\ Len(sessions') \in Nat
    BY <2>2, SessionFacts, LenProperties
  <2> QED BY <2>1, <2>2, <2>3 DEF SessionType, SessionsAge
<1>1. /\ browser' \in {"none", "up", "dead"}
      /\ opening' \in Tasks \cup {"none", "container"}
      /\ shutdown' \in {"no", "waiting", "closing", "done"}
  <2>0. CASE UNCHANGED <<browser, opening, shutdown>>
    BY <2>0 DEF SessionType
  <2>1. ASSUME NEW t \in Tasks, Build(t) \/ EnterOpening(t) \/ Cancel(t)
        PROVE  /\ browser' \in {"none", "up", "dead"}
               /\ opening' \in Tasks \cup {"none", "container"} /\ UNCHANGED shutdown
    BY <2>1
    DEF SessionType, Build, EnterOpening, ensure_browser, Register, OpenFails, Cancel, Unlocked
  <2>2. ASSUME NEW t \in Tasks, TaskStep(t), ~ (Build(t) \/ EnterOpening(t) \/ Cancel(t))
        PROVE  UNCHANGED <<browser, opening, shutdown>>
    BY <2>2 DEF TaskStep, acquire, resume_session, require_live, Navigated, NavigationFails,
                close_managed, close_resumed, CloseDone, Leave
  <2>3. CASE BrowserDies \/ aclose \/ BeginShutdown \/ CloseNext \/ FinishShutdown
    BY <2>3 DEF SessionType, BrowserDies, aclose, BeginShutdown, CloseNext, FinishShutdown
  <2> QED BY <2>0, <2>1, <2>2, <2>3 DEF SessionType, Next, vars
<1>2. registry' \in [Ids -> 0 .. Len(sessions')]
  <2>1. ASSUME NEW s, registry' = forget(s) PROVE registry' \in [Ids -> 0 .. Len(sessions')]
    BY <1>0, <2>1 DEF forget
  <2>2. ASSUME NEW t \in Tasks, Register(t) PROVE registry' \in [Ids -> 0 .. Len(sessions')]
    <3>1. task[t].session \in 1 .. Len(sessions) /\ task[t].id \in Ids
      BY <2>2, TaskFacts DEF Register
    <3>2. registry' = [registry EXCEPT ![task[t].id] = task[t].session]
      BY <2>2 DEF Register
    <3> QED BY <1>0, <3>1, <3>2 DEF SessionsAge
  <2>3. ASSUME NEW t \in Tasks, TaskStep(t), ~ Register(t)
        PROVE  UNCHANGED registry \/ \E s : registry' = forget(s)
    BY <2>3 DEF TaskStep, Build, acquire, resume_session, EnterOpening, ensure_browser,
                OpenFails, require_live, Navigated, NavigationFails, close_managed,
                close_resumed, CloseDone, Leave, Cancel
  <2>4. CASE CloseNext
    BY <2>1, <2>4 DEF CloseNext
  <2>5. CASE BrowserDies \/ aclose \/ BeginShutdown \/ FinishShutdown \/ UNCHANGED vars
    BY <1>0, <2>5 DEF BrowserDies, aclose, BeginShutdown, FinishShutdown, vars
  <2> QED BY <1>0, <2>1, <2>2, <2>3, <2>4, <2>5 DEF Next
<1>3. owned' \in [Ids -> 0 .. Len(sessions')]
  <2>1. ASSUME NEW t \in Tasks, require_live(t) PROVE owned' \in [Ids -> 0 .. Len(sessions')]
    <3>1. task[t].session \in 1 .. Len(sessions) /\ task[t].id \in Ids
      BY <2>1, TaskFacts DEF require_live
    <3>2. owned' = owned \/ owned' = [owned EXCEPT ![task[t].id] = task[t].session]
      BY <2>1 DEF require_live
    <3> QED BY <1>0, <3>1, <3>2, SMTT(30) DEF SessionsAge
  <2>2. ASSUME NEW t \in Tasks, TaskStep(t), ~ require_live(t)
        PROVE  UNCHANGED owned \/ owned' = [owned EXCEPT ![task[t].id] = 0]
    BY <2>2 DEF TaskStep, Build, acquire, resume_session, EnterOpening, ensure_browser,
                Register, OpenFails, Navigated, NavigationFails, close_managed,
                close_resumed, CloseDone, Leave, Cancel
  <2>3. CASE UNCHANGED owned \/ \E i : owned' = [owned EXCEPT ![i] = 0]
    BY <1>0, <2>3
  <2>4. CASE BrowserDies \/ aclose \/ BeginShutdown \/ CloseNext \/ FinishShutdown
    BY <1>0, <2>4 DEF BrowserDies, aclose, BeginShutdown, CloseNext, FinishShutdown
  <2> QED BY <2>1, <2>2, <2>3, <2>4 DEF Next, vars
<1>4. /\ task' \in [Tasks -> Task]
      /\ \A u \in Tasks : task'[u].at \notin {"idle", "queued", "launching"} =>
            task'[u].session \in 1 .. Len(sessions')
  <2>0. CASE UNCHANGED task
    BY <1>0, <2>0 DEF SessionType, SessionsAge
  <2>1. ASSUME NEW t \in Tasks, NEW i \in Ids, acquire(t, i) \/ resume_session(t, i)
        PROVE  \E managed \in BOOLEAN :
                 \/ Wants(t, i, 0, managed, "queued")
                 \/ \E s \in 1 .. Len(sessions) : Wants(t, i, s, managed, "using")
    <3>1. owned[i] \in 0 .. Len(sessions)
      BY DEF SessionType
    <3>2. CASE owned[i] = 0 \/ resume_session(t, i)
      BY <2>1, <3>2 DEF acquire, resume_session
    <3>3. CASE owned[i] # 0 /\ acquire(t, i)
      <4>1. owned[i] \in 1 .. Len(sessions)
        BY <1>0, <3>1, <3>3
      <4> QED BY <3>3, <4>1 DEF acquire
    <3> QED BY <2>1, <3>2, <3>3
  <2>2. ASSUME NEW t \in Tasks, NEW s \in 0 .. Len(sessions), BeginClose(t, s)
        PROVE  Ends(t) \/ \E u \in 1 .. Len(sessions') :
                            task' = [task EXCEPT ![t].at = "closing", ![t].session = u]
    <3>1. CASE s = 0
      BY <2>2, <3>1 DEF BeginClose
    <3>2. CASE s # 0
      <4>1. Len(sessions) <= Len(sessions')
        BY <1>0 DEF SessionsAge
      <4>2. s \in 1 .. Len(sessions')
        BY <1>0, <3>2, <4>1
      <4> QED BY <2>2, <3>2, <4>2 DEF BeginClose
    <3> QED BY <3>1, <3>2
  <2>3. ASSUME NEW t \in Tasks, NavigationFails(t) \/ close_managed(t) \/ close_resumed(t)
        PROVE  task[t].at # "idle" /\ \E s \in 0 .. Len(sessions) : BeginClose(t, s)
    <3>1. task[t].at # "idle" /\ task[t].session \in 0 .. Len(sessions)
          /\ owned[task[t].id] \in 0 .. Len(sessions)
      BY <1>0, <2>3, TaskFacts DEF NavigationFails, close_managed, close_resumed, SessionType
    <3> QED BY <2>3, <3>1 DEF NavigationFails, close_managed, close_resumed
  <2>4. ASSUME NEW t \in Tasks, ensure_browser(t)
        PROVE  task[t].at # "idle" /\ \E s \in 1 .. Len(sessions') :
                 task' = [task EXCEPT ![t].at = "paging", ![t].session = s]
    <3>1. Len(sessions') = Len(sessions) + 1 /\ task[t].at = "launching"
      <4> DEFINE new == [id |-> task[t].id, context |-> "bare", closed |-> FALSE]
      <4>1. sessions' = Append(sessions, new) /\ task[t].at = "launching"
        BY <2>4 DEF ensure_browser
      <4>2. new \in Session
        BY <4>1, TaskFacts DEF Session
      <4> HIDE DEF new
      <4> QED BY <4>1, <4>2, AppendProperties DEF SessionType
    <3>2. Len(sessions) + 1 \in 1 .. Len(sessions')
      BY <1>0, <3>1
    <3> QED BY <2>4, <3>1, <3>2 DEF ensure_browser
  <2>5. ASSUME NEW t \in Tasks, Register(t)
        PROVE  task[t].at # "idle" /\ \E place \in {"resuming", "checking"},
                                         s \in 1 .. Len(sessions') :
                 task' = [task EXCEPT ![t].at = place, ![t].session = s]
    <3>1. task[t].at = "paging" /\ task[t].session \in 1 .. Len(sessions')
      BY <1>0, <2>5, TaskFacts DEF Register, SessionsAge
    <3>2. PICK place \in {"resuming", "checking"} : task' = [task EXCEPT ![t].at = place]
      BY <2>5 DEF Register, Goes
    <3>3. [task[t] EXCEPT !.at = place] = [task[t] EXCEPT !.at = place, !.session = task[t].session]
      BY <3>1 DEF SessionType, Task, Idle
    <3>4. task' = [task EXCEPT ![t].at = place, ![t].session = task[t].session]
      BY <3>2, <3>3 DEF SessionType
    <3> QED BY <3>1, <3>4
  <2>6. ASSUME NEW t \in Tasks,
               EnterOpening(t) \/ OpenFails(t) \/ Navigated(t) \/ require_live(t)
               \/ CloseDone(t) \/ Leave(t) \/ Cancel(t)
        PROVE  \/ Ends(t)
               \/ task[t].at # "idle" /\ Goes(t, "launching")
               \/ /\ task[t].at \notin {"idle", "queued", "launching"}
                  /\ \E place \in {"checking", "using"} : Goes(t, place)
    BY <2>6 DEF EnterOpening, OpenFails, Navigated, require_live, CloseDone, Leave, Cancel
  <2>7. ASSUME NEW t \in Tasks, TaskStep(t)
        PROVE  /\ task' \in [Tasks -> Task]
               /\ \A u \in Tasks : task'[u].at \notin {"idle", "queued", "launching"} =>
                     task'[u].session \in 1 .. Len(sessions')
    <3>1. CASE \E i \in Ids : acquire(t, i) \/ resume_session(t, i)
      BY <1>0, <2>1, <3>1, TaskMoves
    <3>2. CASE NavigationFails(t) \/ close_managed(t) \/ close_resumed(t)
      BY <1>0, <2>2, <2>3, <3>2, TaskMoves
    <3>3. CASE ensure_browser(t)
      BY <1>0, <2>4, <3>3, TaskMoves
    <3>4. CASE Register(t)
      BY <1>0, <2>5, <3>4, TaskMoves
    <3>5. CASE EnterOpening(t) \/ OpenFails(t) \/ Navigated(t) \/ require_live(t)
               \/ CloseDone(t) \/ Leave(t) \/ Cancel(t)
      BY <1>0, <2>6, <3>5, TaskMoves
    <3> QED BY <2>7, <3>1, <3>2, <3>3, <3>4, <3>5 DEF TaskStep, Build
  <2> QED
    BY <2>0, <2>7
    DEF Next, vars, BrowserDies, aclose, BeginShutdown, CloseNext, FinishShutdown
<1> QED BY <1>0, <1>1, <1>2, <1>3, <1>4 DEF SessionType

-----------------------------------------------------------------------------
(* The lock *)

\* A task's step leaves the other tasks and the shutdown alone.
LEMMA OthersStay ==
    ASSUME SessionType, NEW t \in Tasks, TaskStep(t)
    PROVE  shutdown' = shutdown /\ \A u \in Tasks \ {t} : task'[u] = task[u]
<1>1. CASE \E i \in Ids : acquire(t, i) \/ resume_session(t, i)
  BY <1>1 DEF acquire, resume_session, Wants, SessionType
<1>2. CASE Build(t) \/ EnterOpening(t) \/ require_live(t) \/ Cancel(t)
  BY <1>2 DEF Build, ensure_browser, Register, OpenFails, EnterOpening, require_live, Cancel,
              Goes, Ends, SessionType
<1>3. CASE Navigated(t) \/ NavigationFails(t) \/ close_managed(t) \/ close_resumed(t)
           \/ CloseDone(t) \/ Leave(t)
  BY <1>3 DEF Navigated, NavigationFails, close_managed, close_resumed, CloseDone, Leave,
              BeginClose, Goes, Ends, SessionType
<1> QED BY <1>1, <1>2, <1>3 DEF TaskStep

\* Only opening a session enters Building, and only the opener leaves it.
LEMMA TheRestDoesNotBuild ==
    ASSUME SessionType, NEW t \in Tasks, TaskStep(t),
           ~ Build(t), ~ EnterOpening(t), ~ Cancel(t)
    PROVE  /\ task[t].at \notin Building /\ task'[t].at \notin Building
           /\ UNCHANGED <<opening, browser>>
<1>0. task \in [Tasks -> Task]
  BY DEF SessionType
<1>1. CASE \E i \in Ids : acquire(t, i) \/ resume_session(t, i)
  BY <1>0, <1>1 DEF acquire, resume_session, Wants, Idle, Building
<1>2. CASE require_live(t) \/ Navigated(t) \/ CloseDone(t) \/ Leave(t)
  BY <1>0, <1>2 DEF require_live, Navigated, CloseDone, Leave, Goes, Ends, Idle, Task, Building
<1>3. CASE NavigationFails(t) \/ close_managed(t) \/ close_resumed(t)
  BY <1>0, <1>3 DEF NavigationFails, close_managed, close_resumed, BeginClose, Ends, Idle, Task,
                    Building
<1> QED BY <1>1, <1>2, <1>3 DEF TaskStep

LEMMA BuilderMoves ==
    ASSUME SessionType, NEW t \in Tasks
    PROVE  /\ ensure_browser(t) => task'[t].at = "paging" /\ task'[t].id = task[t].id
                                   /\ task'[t].session = Len(sessions) + 1
           /\ Register(t) \/ OpenFails(t) \/ Cancel(t) => task'[t].at \notin Building
           /\ EnterOpening(t) => \/ /\ task'[t].at = "launching" /\ task'[t].id = task[t].id
                                    /\ opening' = t /\ ~browser_closed
                                    /\ registry[task[t].id] = 0
                                 \/ task'[t].at = "idle" /\ UNCHANGED opening
<1>0. task \in [Tasks -> Task]
  BY DEF SessionType
<1>1. ensure_browser(t) => task'[t].at = "paging" /\ task'[t].id = task[t].id
                           /\ task'[t].session = Len(sessions) + 1
  BY <1>0 DEF ensure_browser, Task, Idle
<1>2. Register(t) \/ OpenFails(t) \/ Cancel(t) => task'[t].at \notin Building
  BY <1>0 DEF Register, OpenFails, Cancel, Goes, Ends, Task, Idle, Building
<1>3. EnterOpening(t) => \/ /\ task'[t].at = "launching" /\ task'[t].id = task[t].id
                            /\ opening' = t /\ ~browser_closed
                            /\ registry[task[t].id] = 0
                         \/ task'[t].at = "idle" /\ UNCHANGED opening
  BY <1>0 DEF EnterOpening, Goes, Ends, Task, Idle, InUse
<1> QED BY <1>1, <1>2, <1>3

LEMMA LockStep == ASSUME SessionType, LockIsHeld, [Next]_vars PROVE LockIsHeld'
<1>0. ("container" \notin Tasks /\ "none" \notin Tasks) /\ opening \in Tasks \cup {"none", "container"}
  BY SessionAssumption DEF SessionType
<1>1. ASSUME NEW t \in Tasks, TaskStep(t) PROVE LockIsHeld'
  <2>0. shutdown' = shutdown /\ \A u \in Tasks \ {t} : task'[u] = task[u]
    BY <1>1, OthersStay
  <2>1. CASE EnterOpening(t)
    BY <1>0, <2>0, <2>1, BuilderMoves DEF LockIsHeld, browser_closed, EnterOpening, Building
  <2>2. CASE ensure_browser(t)
    BY <1>0, <2>0, <2>2, BuilderMoves DEF LockIsHeld, browser_closed, ensure_browser, Building
  <2>3. CASE Register(t)
    BY <1>0, <2>0, <2>3, BuilderMoves DEF LockIsHeld, browser_closed, Register, Building
  <2>4. CASE OpenFails(t) \/ Cancel(t)
    BY <1>0, <2>0, <2>4, BuilderMoves DEF LockIsHeld, browser_closed, OpenFails, Cancel, Unlocked
  <2>5. CASE ~ Build(t) /\ ~ EnterOpening(t) /\ ~ Cancel(t)
    BY <1>0, <1>1, <2>0, <2>5, TheRestDoesNotBuild DEF LockIsHeld, browser_closed
  <2> QED BY <2>1, <2>2, <2>3, <2>4, <2>5 DEF Build
<1>2. CASE BrowserDies \/ aclose \/ BeginShutdown \/ CloseNext \/ FinishShutdown \/ UNCHANGED vars
  BY <1>0, <1>2
  DEF LockIsHeld, browser_closed, BrowserDies, aclose, BeginShutdown, NobodyOpens, CloseNext,
      FinishShutdown, vars
<1> QED BY <1>1, <1>2 DEF Next

-----------------------------------------------------------------------------
(* The registry *)

\* An id's entry changes when a session is registered under it, or when its own is gone.
RegistryMoves(i) ==
    \/ registry'[i] = registry[i]
    \/ registry'[i] = 0 /\ (registry[i] # 0 => sessions'[registry[i]].context = "gone")
    \/ \E t \in Tasks : Register(t) /\ task[t].id = i /\ registry'[i] = task[t].session

LEMMA RegistryChange == ASSUME SessionType, [Next]_vars PROVE \A i \in Ids : RegistryMoves(i)
<1>1. ASSUME NEW t \in Tasks, Register(t) PROVE \A i \in Ids : RegistryMoves(i)
  BY <1>1 DEF Register, RegistryMoves, SessionType
<1>2. ASSUME NEW t \in Tasks, CloseDone(t) PROVE \A i \in Ids : RegistryMoves(i)
  <2>1. task[t].session \in 1 .. Len(sessions) /\ sessions[task[t].session] \in Session
    BY <1>2, TaskFacts, SessionFacts DEF CloseDone
  <2>2. sessions'[task[t].session].context = "gone"
    BY <1>2, <2>1, SessionFacts DEF CloseDone, Session
  <2> QED BY <1>2, <2>2 DEF CloseDone, forget, RegistryMoves
<1>3. CASE CloseNext
  <2>1. PICK i \in Unclosed : /\ sessions' = [sessions EXCEPT ![registry[i]].closed = TRUE,
                                                             ![registry[i]].context = "gone"]
                              /\ registry' = forget(registry[i])
    BY <1>3 DEF CloseNext
  <2>2. registry[i] \in 1 .. Len(sessions) /\ sessions[registry[i]] \in Session
    BY SessionFacts DEF SessionType, Unclosed
  <2>3. sessions'[registry[i]].context = "gone"
    BY <2>1, <2>2, SessionFacts DEF Session
  <2> QED BY <2>1, <2>3 DEF forget, RegistryMoves
<1>4. CASE FinishShutdown
  <2>1. \A s \in 1 .. Len(sessions) : sessions'[s].context = "gone"
    BY <1>4, SessionFacts DEF FinishShutdown, Session
  <2>2. \A i \in Ids : registry[i] # 0 => registry[i] \in 1 .. Len(sessions)
    BY SessionFacts DEF SessionType
  <2> QED BY <1>4, <2>1, <2>2 DEF FinishShutdown, RegistryMoves
<1>5. ASSUME NEW t \in Tasks, TaskStep(t), ~ Register(t), ~ CloseDone(t) PROVE UNCHANGED registry
  BY <1>5 DEF TaskStep, Build, acquire, resume_session, EnterOpening, ensure_browser, OpenFails,
              require_live, Navigated, NavigationFails, close_managed, close_resumed, Leave, Cancel
<1>6. CASE BrowserDies \/ aclose \/ BeginShutdown \/ UNCHANGED vars
  BY <1>6 DEF BrowserDies, aclose, BeginShutdown, vars, RegistryMoves
<1> QED BY <1>1, <1>2, <1>3, <1>4, <1>5, <1>6 DEF Next, RegistryMoves

\* While a task builds, only that task can register a session.
LEMMA BuilderIsAlone ==
    ASSUME LockIsHeld, NEW t \in Tasks, NEW u \in Tasks, task[t].at \in Building,
           task[u].at \in Building
    PROVE  t = u
BY DEF LockIsHeld

LEMMA FreeIdStep ==
    ASSUME SessionType, LockIsHeld, BuiltForAFreeId, [Next]_vars PROVE BuiltForAFreeId'
<1>0. SessionsAge /\ \A i \in Ids : RegistryMoves(i)
  BY SessionsStep, RegistryChange
<1>1. ASSUME NEW u \in Tasks, task'[u] = task[u], ~ Register(u)
      PROVE  /\ task'[u].at \in Building => registry'[task'[u].id] = 0
             /\ task'[u].at = "paging" => sessions'[task'[u].session].id = task'[u].id
  <2>1. CASE task[u].at \in Building
    <3>1. task[u].id \in Ids /\ registry[task[u].id] = 0
      BY <2>1, TaskFacts DEF BuiltForAFreeId, Building
    <3>2. ~ \E t \in Tasks : Register(t)
      BY <1>1, <2>1, BuilderIsAlone DEF Register, Building
    <3>3. registry'[task[u].id] = 0
      BY <1>0, <3>1, <3>2 DEF RegistryMoves
    <3>4. task[u].at = "paging" => sessions'[task[u].session].id = task[u].id
      BY <1>0, TaskFacts DEF SessionsAge, Ages, BuiltForAFreeId
    <3> QED BY <1>1, <3>3, <3>4
  <2> QED BY <1>1, <2>1 DEF Building
<1>2. ASSUME NEW t \in Tasks, TaskStep(t)
      PROVE  /\ task'[t].at \in Building => registry'[task'[t].id] = 0
             /\ task'[t].at = "paging" => sessions'[task'[t].session].id = task'[t].id
  <2>1. CASE EnterOpening(t)
    BY <2>1, BuilderMoves DEF EnterOpening, Building
  <2>2. CASE ensure_browser(t)
    <3> DEFINE new == [id |-> task[t].id, context |-> "bare", closed |-> FALSE]
    <3>1. sessions' = Append(sessions, new) /\ UNCHANGED registry /\ task[t].at \in Building
      BY <2>2 DEF ensure_browser, Building
    <3>2. new \in Session
      BY <2>2, TaskFacts DEF Session, ensure_browser
    <3>3. new.id = task[t].id
      OBVIOUS
    <3> HIDE DEF new
    <3>4. sessions'[Len(sessions) + 1] = new
      BY <3>1, <3>2, AppendProperties DEF SessionType
    <3> QED BY <2>2, <3>1, <3>3, <3>4, BuilderMoves DEF BuiltForAFreeId
  <2>3. CASE Register(t) \/ OpenFails(t) \/ Cancel(t)
    BY <2>3, BuilderMoves DEF Building
  <2>4. CASE ~ Build(t) /\ ~ EnterOpening(t) /\ ~ Cancel(t)
    BY <1>2, <2>4, TheRestDoesNotBuild DEF Building
  <2> QED BY <2>1, <2>2, <2>3, <2>4 DEF Build
<1>3. ASSUME NEW t \in Tasks, TaskStep(t) PROVE BuiltForAFreeId'
  <2>1. \A u \in Tasks \ {t} : task'[u] = task[u]
    BY <1>3, OthersStay
  <2>2. \A u \in Tasks \ {t} : ~ Register(u)
    BY <2>1, BuilderMoves DEF Register, Building
  <2> QED BY <1>1, <1>2, <1>3, <2>1, <2>2 DEF BuiltForAFreeId
<1>4. CASE BrowserDies \/ aclose \/ BeginShutdown \/ CloseNext \/ FinishShutdown \/ UNCHANGED vars
  <2>1. UNCHANGED task
    BY <1>4 DEF BrowserDies, aclose, BeginShutdown, CloseNext, FinishShutdown, vars
  <2>2. \A u \in Tasks : ~ Register(u)
    BY <2>1, BuilderMoves DEF Register, Building
  <2> QED BY <1>1, <2>1, <2>2 DEF BuiltForAFreeId
<1> QED BY <1>3, <1>4 DEF Next

LEMMA RegistryStep ==
    ASSUME SessionType, BuiltForAFreeId, RegistryIsTrue, [Next]_vars PROVE RegistryIsTrue'
<1>0. SessionsAge /\ \A i \in Ids : RegistryMoves(i)
  BY SessionsStep, RegistryChange
<1> SUFFICES ASSUME NEW i \in Ids, registry'[i] # 0
             PROVE  sessions'[registry'[i]].id = i
  BY DEF RegistryIsTrue
<1>1. CASE registry'[i] = registry[i]
  <2>1. registry[i] \in 1 .. Len(sessions)
    BY <1>1, SessionFacts DEF SessionType
  <2> QED BY <1>0, <1>1, <2>1 DEF RegistryIsTrue, SessionsAge, Ages
<1>2. ASSUME NEW t \in Tasks, Register(t), task[t].id = i, registry'[i] = task[t].session
      PROVE  sessions'[registry'[i]].id = i
  <2>1. task[t].session \in 1 .. Len(sessions) /\ task[t].at = "paging"
    BY <1>2, TaskFacts DEF Register
  <2> QED BY <1>0, <1>2, <2>1 DEF BuiltForAFreeId, SessionsAge, Ages
<1> QED BY <1>0, <1>1, <1>2 DEF RegistryMoves

-----------------------------------------------------------------------------
(* Nothing is orphaned *)

NothingOpenIsLost ==
    \A s \in DOMAIN sessions :
        sessions[s].context = "open" /\ ~sessions[s].closed => registry[sessions[s].id] = s

NothingSurvives ==
    shutdown = "done" => browser = "none" /\ \A s \in DOMAIN sessions : sessions[s].context = "gone"

LEMMA OpenStep ==
    ASSUME SessionType, BuiltForAFreeId, NothingOpenIsLost, [Next]_vars
    PROVE  NothingOpenIsLost'
<1>0. SessionsAge /\ \A i \in Ids : RegistryMoves(i)
  BY SessionsStep, RegistryChange
<1>1. DOMAIN sessions' = 1 .. Len(sessions') /\ Len(sessions) \in Nat /\ Len(sessions') \in Nat
  BY <1>0, SessionFacts, LenProperties DEF SessionsAge
<1> SUFFICES ASSUME NEW s \in 1 .. Len(sessions'),
                    sessions'[s].context = "open", ~ sessions'[s].closed
             PROVE  registry'[sessions'[s].id] = s
  BY <1>1 DEF NothingOpenIsLost
<1>2. CASE s \in 1 .. Len(sessions)
  <2>1. Ages(s) /\ sessions[s] \in Session
    BY <1>0, <1>2, SessionFacts DEF SessionsAge
  <2>2. CASE sessions[s].context = "open"
    <3>1. registry[sessions[s].id] = s /\ sessions[s].id \in Ids
      BY <1>2, <2>1, <2>2, SessionFacts DEF Ages, NothingOpenIsLost, Session
    <3>2. s # 0
      BY <1>2
    <3>3. ~ \E t \in Tasks : Register(t) /\ task[t].id = sessions[s].id
      BY <3>1, <3>2 DEF Register, BuiltForAFreeId, Building
    <3>4. registry'[sessions[s].id] = s
      BY <1>0, <3>1, <3>2, <3>3 DEF RegistryMoves
    <3> QED BY <2>1, <3>4 DEF Ages
  <2>3. CASE sessions[s].context # "open"
    <3>1. PICK t \in Tasks : Register(t) /\ task[t].session = s
      BY <2>1, <2>3 DEF Ages
    <3>2. task[t].id = sessions[s].id /\ task[t].id \in Ids
      BY <3>1, TaskFacts DEF Register, BuiltForAFreeId
    <3>3. registry'[task[t].id] = s
      BY <3>1, <3>2 DEF Register, SessionType
    <3> QED BY <2>1, <3>2, <3>3 DEF Ages
  <2> QED BY <2>2, <2>3
<1>3. CASE s \notin 1 .. Len(sessions)
  <2>1. Len(sessions') # Len(sessions)
    BY <1>1, <1>3
  <2>2. PICK t \in Tasks : ensure_browser(t)
    BY <1>0, <2>1 DEF SessionsAge
  <2> DEFINE new == [id |-> task[t].id, context |-> "bare", closed |-> FALSE]
  <2>3. sessions' = Append(sessions, new)
    BY <2>2 DEF ensure_browser
  <2>4. new \in Session /\ new.context = "bare"
    BY <2>2, TaskFacts DEF Session, ensure_browser
  <2> HIDE DEF new
  <2>5. sessions'[Len(sessions) + 1] = new /\ Len(sessions') = Len(sessions) + 1
    BY <2>3, <2>4, AppendProperties DEF SessionType
  <2>6. s = Len(sessions) + 1
    BY <1>1, <1>3, <2>5
  <2> QED BY <2>4, <2>5, <2>6
<1> QED BY <1>2, <1>3

LEMMA ShutdownStep ==
    ASSUME SessionType, LockIsHeld, NothingSurvives, [Next]_vars
    PROVE  NothingSurvives'
<1>0. SessionsAge
  BY SessionsStep
<1>1. DOMAIN sessions' = 1 .. Len(sessions') /\ Len(sessions) \in Nat /\ Len(sessions') \in Nat
  BY <1>0, SessionFacts, LenProperties DEF SessionsAge
<1>2. CASE FinishShutdown
  <2>1. \A s \in 1 .. Len(sessions') : sessions'[s].context = "gone"
    BY <1>2, AllGo, SessionFacts DEF FinishShutdown, Session
  <2> QED BY <1>1, <1>2, <2>1 DEF FinishShutdown, NothingSurvives
<1>3. CASE shutdown = "done" /\ ~ FinishShutdown
  <2>1. \A t \in Tasks : ~ ensure_browser(t) /\ ~ Register(t)
    BY <1>3 DEF LockIsHeld, browser_closed, ensure_browser, Register, Building
  <2>2. Len(sessions') = Len(sessions)
    BY <1>0, <2>1 DEF SessionsAge
  <2>3. \A s \in 1 .. Len(sessions') : sessions'[s].context = "gone"
    BY <1>0, <1>3, <2>2, SessionFacts DEF SessionsAge, Ages, NothingSurvives
  <2>4. ASSUME NEW t \in Tasks, TaskStep(t) PROVE UNCHANGED browser
    <3>1. CASE Build(t) \/ EnterOpening(t) \/ Cancel(t)
      BY <2>1, <3>1 DEF Build, OpenFails, EnterOpening, Cancel
    <3> QED BY <2>4, <3>1, TheRestDoesNotBuild
  <2>5. UNCHANGED browser
    BY <1>3, <2>4 DEF Next, vars, BrowserDies, aclose, BeginShutdown, CloseNext, NothingSurvives
  <2> QED BY <1>1, <1>3, <2>3, <2>5 DEF NothingSurvives
<1>4. CASE shutdown # "done" /\ ~ FinishShutdown
  <2>1. shutdown' # "done"
    BY <1>4, OthersStay DEF Next, vars, BrowserDies, aclose, BeginShutdown, CloseNext
  <2> QED BY <2>1 DEF NothingSurvives
<1> QED BY <1>2, <1>3, <1>4

-----------------------------------------------------------------------------
LEMMA SessionsInit == Init => SessionsInv
<1> SUFFICES ASSUME Init PROVE SessionsInv
  OBVIOUS
<1>1. sessions = << >> /\ Len(sessions) = 0 /\ DOMAIN sessions = {} /\ sessions \in Seq(Session)
  BY EmptySeq DEF Init
<1>2. SessionType
  BY <1>1, SessionAssumption DEF Init, SessionType, Task, Idle
<1>3. LockIsHeld
  BY SessionAssumption DEF Init, LockIsHeld, Building, Idle, browser_closed
<1>4. BuiltForAFreeId
  BY DEF Init, BuiltForAFreeId, Idle, Building
<1> QED BY <1>1, <1>2, <1>3, <1>4 DEF Init, SessionsInv, RegistryIsTrue, NothingIsOrphaned

LEMMA SessionsNext == SessionsInv /\ [Next]_vars => SessionsInv'
<1> SUFFICES ASSUME SessionsInv, [Next]_vars PROVE SessionsInv'
  OBVIOUS
<1>1. SessionType' /\ LockIsHeld' /\ BuiltForAFreeId' /\ RegistryIsTrue'
  BY TypeStep, LockStep, FreeIdStep, RegistryStep DEF SessionsInv
<1>2. NothingOpenIsLost /\ NothingSurvives
  BY DEF SessionsInv, NothingIsOrphaned, NothingOpenIsLost, NothingSurvives
<1>3. NothingOpenIsLost' /\ NothingSurvives'
  BY <1>2, OpenStep, ShutdownStep DEF SessionsInv
<1>4. NothingIsOrphaned'
  BY <1>3 DEF NothingIsOrphaned, NothingOpenIsLost, NothingSurvives
<1> QED BY <1>1, <1>4 DEF SessionsInv

\* The lock is held exactly while a session is built or the shutdown runs, a session is
\* built only for an id without one, and the registry never names another id's session:
\* what _opening protects in open_session and aclose, whatever is cancelled meanwhile.
THEOREM SessionsInvariance == Spec => []SessionsInv
<1> QED BY SessionsInit, SessionsNext, PTL DEF Spec

\* No open session is lost from the registry, so a shutdown reaches every context: after
\* it no context is left and no browser runs (open_session, _forget, aclose).
THEOREM NothingIsOrphanedAlways == Spec => []NothingIsOrphaned
<1>1. SessionsInv => NothingIsOrphaned
  BY DEF SessionsInv
<1> QED BY <1>1, SessionsInvariance, PTL
=============================================================================
