--------------------------- MODULE BrowserSessions ---------------------------
(***************************************************************************)
(* One browser, many contexts. PlaywrightBackend owns the browser and a    *)
(* registry of sessions, one context each; LocalBrowserManager owns the    *)
(* sessions it opened for attempts. Tasks open and close sessions on one   *)
(* event loop: a step below ends where the code awaits. A task may be      *)
(* cancelled at any await (TaskWorker runs handlers under wait_for), the   *)
(* browser may die, and the container shuts everything down once.          *)
(*                                                                         *)
(* What closing writes to the storage-state file is module StorageState.   *)
(***************************************************************************)
EXTENDS Naturals, Sequences, FiniteSets

CONSTANTS
    Tasks,          \* coroutines that use the backend
    Ids,            \* session ids: attempts
    MaxContexts     \* bound on the contexts ever created

ASSUME SessionAssumption == MaxContexts \in Nat /\ {"container", "none"} \cap Tasks = {}

VARIABLES
    browser,    \* the browser process
    sessions,   \* every context created, with the session that wraps it
    registry,   \* PlaywrightBackend._sessions: the position in sessions, 0 without
    owned,      \* LocalBrowserManager._sessions, likewise
    opening,    \* who holds the lock _opening
    shutdown,   \* how far LocalBrowserManager.aclose is
    task        \* what each task is awaiting

vars == <<browser, sessions, registry, owned, opening, shutdown, task>>

\* A context is bare until its first page is there and a session wraps it; closed is
\* PlaywrightSession._closed, set before the context is closed.
Session == [id : Ids, context : {"bare", "open", "gone"}, closed : BOOLEAN]
Building == {"launching", "paging"}
Idle == [at |-> "idle"]
Task == {Idle} \cup
        [at : {"queued", "resuming", "checking", "using", "closing"} \cup Building,
         id : Ids, session : 0 .. MaxContexts, managed : BOOLEAN]

Init ==
    /\ browser = "none" /\ sessions = << >>
    /\ registry = [i \in Ids |-> 0] /\ owned = [i \in Ids |-> 0]
    /\ opening = "none" /\ shutdown = "no"
    /\ task = [t \in Tasks |-> Idle]

-----------------------------------------------------------------------------
(* Opening.                                                                *)

browser_closed == shutdown \in {"closing", "done"}
Goes(t, place) == task' = [task EXCEPT ![t].at = place]
Ends(t) == task' = [task EXCEPT ![t] = Idle]
Wants(t, i, s, managed, place) ==
    task' = [task EXCEPT ![t] = [at |-> place, id |-> i, session |-> s, managed |-> managed]]

\* The manager hands a session it owns out again without looking whether it is still
\* good, and asks the backend for one otherwise.
acquire(t, i) ==
    /\ task[t] = Idle /\ shutdown \in {"no", "waiting", "closing"}
    /\ IF owned[i] # 0 THEN Wants(t, i, owned[i], TRUE, "using")
       ELSE Wants(t, i, 0, TRUE, "queued")
    /\ UNCHANGED <<browser, sessions, registry, owned, opening, shutdown>>

\* Others call open_session themselves, with a checkpoint to navigate back to.
resume_session(t, i) ==
    /\ task[t] = Idle
    /\ Wants(t, i, 0, FALSE, "queued")
    /\ UNCHANGED <<browser, sessions, registry, owned, opening, shutdown>>

OwnedInUse(i) == owned[i] # 0
InUse(i) == registry[i] # 0

\* Under the lock: a backend that was shut down and an id in use are refused.
EnterOpening(t) ==
    /\ task[t].at = "queued" /\ opening = "none"
    /\ IF browser_closed \/ InUse(task[t].id) THEN Ends(t) /\ UNCHANGED opening
       ELSE Goes(t, "launching") /\ opening' = t
    /\ UNCHANGED <<browser, sessions, registry, owned, shutdown>>

\* _ensure_browser, which replaces a dead browser, and new_context.
ensure_browser(t) ==
    /\ task[t].at = "launching" /\ Len(sessions) < MaxContexts
    /\ browser' = "up"
    /\ sessions' = Append(sessions, [id |-> task[t].id, context |-> "bare", closed |-> FALSE])
    /\ task' = [task EXCEPT ![t].at = "paging", ![t].session = Len(sessions) + 1]
    /\ UNCHANGED <<registry, owned, opening, shutdown>>

Register(t) ==
    LET s == task[t].session
    IN  /\ task[t].at = "paging" /\ sessions[s].context = "bare"
        /\ sessions' = [sessions EXCEPT ![s].context = "open"]
        /\ registry' = [registry EXCEPT ![task[t].id] = s]
        /\ opening' = "none"
        /\ Goes(t, IF task[t].managed THEN "checking" ELSE "resuming")
        /\ UNCHANGED <<browser, owned, shutdown>>

LeavesItLocked(t) == opening
Unlocked(t) == IF opening = t THEN "none" ELSE opening

\* Nothing closes the context that has no session yet.
OpenFails(t) ==
    /\ task[t].at \in Building
    /\ opening' = Unlocked(t)
    /\ Ends(t)
    /\ UNCHANGED <<browser, sessions, registry, owned, shutdown>>

Navigated(t) ==
    /\ task[t].at = "resuming"
    /\ Goes(t, "checking")
    /\ UNCHANGED <<browser, sessions, registry, owned, opening, shutdown>>

\* _require_live: shutdown may have taken the session between its registration and now.
require_live(t) ==
    LET s == task[t].session
    IN  /\ task[t].at = "checking" /\ opening = "none"
        /\ IF browser_closed \/ sessions[s].closed
           THEN Ends(t) /\ UNCHANGED owned
           ELSE /\ Goes(t, "using")
                /\ owned' = IF task[t].managed THEN [owned EXCEPT ![task[t].id] = s] ELSE owned
        /\ UNCHANGED <<browser, sessions, registry, opening, shutdown>>

-----------------------------------------------------------------------------
(* Closing.                                                                *)

\* PlaywrightSession.close up to its first await; a second call has nothing to do.
BeginClose(t, s) ==
    IF s = 0 \/ (s # 0 /\ sessions[s].closed)
    THEN Ends(t) /\ UNCHANGED sessions
    ELSE /\ sessions' = [sessions EXCEPT ![s].closed = TRUE]
         /\ task' = [task EXCEPT ![t].at = "closing", ![t].session = s]

NavigationFails(t) ==
    /\ task[t].at = "resuming"
    /\ BeginClose(t, task[t].session)
    /\ UNCHANGED <<browser, registry, owned, opening, shutdown>>

\* LocalBrowserManager.close: whatever session the manager owns for the attempt.
close_managed(t) ==
    /\ task[t].at = "using" /\ task[t].managed
    /\ BeginClose(t, owned[task[t].id])
    /\ owned' = [owned EXCEPT ![task[t].id] = 0]
    /\ UNCHANGED <<browser, registry, opening, shutdown>>

close_resumed(t) ==
    /\ task[t].at = "using" /\ ~task[t].managed
    /\ BeginClose(t, task[t].session)
    /\ UNCHANGED <<browser, registry, owned, opening, shutdown>>

\* Identity-checked: only the session that is registered leaves the registry.
forget(s) ==
    [i \in Ids |-> IF registry[i] = s THEN 0 ELSE registry[i]]

CloseDone(t) ==
    LET s == task[t].session
    IN  /\ task[t].at = "closing"
        /\ sessions' = [sessions EXCEPT ![s].context = "gone"]
        /\ registry' = forget(s)
        /\ Ends(t)
        /\ UNCHANGED <<browser, owned, opening, shutdown>>

\* The task of an attempt that waits for a person ends and leaves the session open.
Leave(t) ==
    /\ task[t].at = "using"
    /\ Ends(t)
    /\ UNCHANGED <<browser, sessions, registry, owned, opening, shutdown>>

-----------------------------------------------------------------------------
(* Faults and shutdown.                                                    *)

\* Checking is only a wait when somebody else is in line for the lock.
Cancel(t) ==
    /\ \/ task[t].at \in {"queued", "resuming", "closing"} \cup Building
       \/ /\ task[t].at = "checking"
          /\ \/ opening # "none" \/ shutdown = "waiting"
             \/ \E u \in Tasks \ {t} : task[u].at \in {"queued", "checking"}
    /\ opening' = Unlocked(t)
    /\ Ends(t)
    /\ UNCHANGED <<browser, sessions, registry, owned, shutdown>>

BrowserDies ==
    /\ browser = "up"
    /\ browser' = "dead"
    /\ sessions' = [s \in DOMAIN sessions |-> [sessions[s] EXCEPT !.context = "gone"]]
    /\ UNCHANGED <<registry, owned, opening, shutdown, task>>

\* LocalBrowserManager.aclose forgets its sessions, then closes the backend.
aclose ==
    /\ shutdown = "no"
    /\ shutdown' = "waiting"
    /\ owned' = [i \in Ids |-> 0]
    /\ UNCHANGED <<browser, sessions, registry, opening, task>>

NobodyOpens == opening = "none"

BeginShutdown ==
    /\ shutdown = "waiting" /\ NobodyOpens
    /\ shutdown' = "closing" /\ opening' = "container"
    /\ UNCHANGED <<browser, sessions, registry, owned, task>>

Unclosed == {i \in Ids : registry[i] # 0 /\ ~sessions[registry[i]].closed}

CloseNext ==
    /\ shutdown = "closing"
    /\ \E i \in Unclosed :
         LET s == registry[i]
         IN  /\ sessions' = [sessions EXCEPT ![s].closed = TRUE, ![s].context = "gone"]
             /\ registry' = forget(s)
    /\ UNCHANGED <<browser, owned, opening, shutdown, task>>

\* Closing the browser takes along whatever contexts it still had.
FinishShutdown ==
    /\ shutdown = "closing" /\ Unclosed = {}
    /\ shutdown' = "done" /\ opening' = "none"
    /\ registry' = [i \in Ids |-> 0]
    /\ browser' = "none"
    /\ sessions' = [s \in DOMAIN sessions |-> [sessions[s] EXCEPT !.context = "gone"]]
    /\ UNCHANGED <<owned, task>>

-----------------------------------------------------------------------------
Build(t) == ensure_browser(t) \/ Register(t) \/ OpenFails(t)
TaskStep(t) ==
    \/ \E i \in Ids : acquire(t, i) \/ resume_session(t, i)
    \/ EnterOpening(t) \/ Build(t) \/ require_live(t)
    \/ Navigated(t) \/ NavigationFails(t)
    \/ close_managed(t) \/ close_resumed(t) \/ CloseDone(t) \/ Leave(t) \/ Cancel(t)

Next ==
    \/ \E t \in Tasks : TaskStep(t)
    \/ BrowserDies \/ aclose \/ BeginShutdown \/ CloseNext \/ FinishShutdown

Spec == Init /\ [][Next]_vars

\* Every awaited call of the browser ends, by success or by its timeout, and
\* asyncio.Lock serves its waiters in order: none is passed over forever.
Fairness ==
    /\ \A t \in Tasks :
         /\ WF_vars(Build(t))
         /\ WF_vars(Navigated(t) \/ NavigationFails(t))
         /\ WF_vars(CloseDone(t))
         /\ SF_vars(EnterOpening(t)) /\ SF_vars(require_live(t))
    /\ WF_vars(CloseNext \/ FinishShutdown) /\ SF_vars(BeginShutdown)

FairSpec == Spec /\ Fairness

-----------------------------------------------------------------------------
(* Every session that was not closed is the one registered under its id:   *)
(* two concurrent opens never orphan a context, and aclose, which walks    *)
(* the registry, misses none. So after a shutdown no context is left and   *)
(* no browser runs, whatever was being opened meanwhile, and neither ever  *)
(* comes back (open_session, _forget, aclose).                             *)
NothingIsOrphaned ==
    /\ \A s \in DOMAIN sessions :
         sessions[s].context = "open" /\ ~sessions[s].closed =>
             registry[sessions[s].id] = s
    /\ shutdown = "done" =>
         /\ browser = "none"
         /\ \A s \in DOMAIN sessions : sessions[s].context = "gone"

(* Whoever waits for a session gets one or an error: a failed or cancelled *)
(* open, and a shutdown, always give the lock _opening back.               *)
OpeningEnds ==
    \A t \in Tasks :
        task[t].at \in {"queued", "resuming", "checking"} \cup Building ~>
            task[t].at \in {"idle", "using", "closing"}
=============================================================================
