--------------------------- MODULE AttemptWorkflow ---------------------------
(***************************************************************************)
(* Applying to one job: services/attempt_service.py (starting, pausing and *)
(* resuming attempts), services/attempt_tasks.py (the task handler that    *)
(* runs one step of an attempt) and applications/runner.py (the form flow  *)
(* up to the submit click), over one SQLite file.                          *)
(*                                                                         *)
(* Records.  attempt[a] and app are the committed rows.  A request or a    *)
(* handler works on a detached copy (client[c].copy, mem[w]) and           *)
(* AttemptRepository.save assigns every column from it, so a save replaces *)
(* the whole row, whatever was committed since the copy was read.          *)
(*                                                                         *)
(* Transactions.  A handler's unit of work takes SQLite's write lock at    *)
(* its first flush (txn = w) and commits at its end, except for            *)
(* AttemptService.persist, which commits on the spot.  The worker reports  *)
(* the task afterwards, in its own unit of work.  A request reads without  *)
(* a lock and commits all its writes at once.                              *)
(*                                                                         *)
(* Interventions.  An intervention is known by what it needs to be         *)
(* resolved: an answer in the app ("app") or the browser handed back       *)
(* ("browser", requires_browser_handoff).                                  *)
(*                                                                         *)
(* Tasks.  The queue is abstracted from TaskQueue: a lease may lapse while *)
(* its worker is merely slow, and a task that left the queue (succeeded,   *)
(* retrying, failed or blocked) is "over", for no query claims it again;   *)
(* only a reclaim that read it while it was running may bring it back.     *)
(***************************************************************************)
EXTENDS FiniteSets, ApplicationStates

CONSTANTS
    Workers,        \* worker loops
    Clients,        \* requests from the web UI and the TUI
    Attempts,       \* attempt ids
    Tasks,          \* task rows
    Modes,          \* execution modes asked for: "fill" or "submit"
    Hosts,          \* whether create is given a browser_host_id
    Pauses,         \* interventions the pages and the services open
    StartStates,    \* states of the application when the first attempt starts
    MaxCrashes,     \* bound: crashes of worker processes
    MayRaise,       \* whether a handler may raise
    NoTask, NoAttempt, NoWorker

ASSUME AttemptNames ==
    NoTask \notin Tasks /\ NoAttempt \notin Attempts /\ NoWorker \notin Workers

ASSUME AttemptInputs ==
    /\ Modes \subseteq {"fill", "submit"}
    /\ Hosts \subseteq BOOLEAN
    /\ Pauses \subseteq {"app", "browser"}
    /\ StartStates \subseteq ApplicationState
    /\ MaxCrashes \in Nat
    /\ MayRaise \in BOOLEAN

VARIABLES
    app,        \* the applications row of the job
    attempt,    \* attempt[a]: the application_attempts row
    task,       \* task[t]: the tasks row, its state and the attempt it runs
    at,         \* at[w]: where worker w is
    run,        \* run[w]: the task worker w executes
    mem,        \* mem[w]: the ApplicationAttempt the handler works on
    txn,        \* the worker whose handler holds the write lock
    client,     \* client[c]: the request c is serving
    crashes,    \* crashes so far
    clicks,     \* clicks[a]: submit clicks the employer's site received
    raced       \* history: attempts run twice at once or saved from a stale copy

vars == << app, attempt, task, at, run, mem, txn, client, crashes, clicks, raced >>

WORKFLOW_TERMINAL == {"completed", "failed", "cancelled"}
NoRow == "absent"

\* WAITING_FOR_PROVIDER and RETRY_SCHEDULED are declared and never assigned.
WorkflowState ==
    {"pending", "running", "waiting_for_human"} \cup WORKFLOW_TERMINAL

Interventions == {"app", "browser"}

ApplicationAttempt ==
    [ state   : WorkflowState \cup {NoRow},
      mode    : {"fill", "submit"},
      host    : BOOLEAN,                    \* browser_host_id is set
      marked  : BOOLEAN,                    \* submission_attempted_at is set
      open    : SUBSET Interventions,
      settled : SUBSET Interventions ]

NoRecord == [ state |-> NoRow, mode |-> "fill", host |-> FALSE, marked |-> FALSE,
              open |-> {}, settled |-> {} ]

TaskRow == [ state : {"absent", "pending", "running", "over"},
             of    : Attempts \cup {NoAttempt},
             late  : BOOLEAN ]     \* history: a reclaim brought it back

Places == {"idle", "reclaim", "load", "bind", "drive", "click", "verify", "save", "report"}

Request == [ doing : {"nothing", "start", "resolve", "reclaim"},
             of    : Attempts \cup {NoAttempt},
             item  : Interventions,
             copy  : ApplicationAttempt,
             saw   : ApplicationState ]

Quiet == [ doing |-> "nothing", of |-> NoAttempt, item |-> "app",
           copy |-> NoRecord, saw |-> "discovered" ]

ClickCap == 2   \* bound: clicks are counted up to here

Init ==
    /\ app \in StartStates
    /\ attempt = [a \in Attempts |-> NoRecord]
    /\ task = [t \in Tasks |-> [state |-> "absent", of |-> NoAttempt, late |-> FALSE]]
    /\ at = [w \in Workers |-> "idle"]
    /\ run = [w \in Workers |-> NoTask]
    /\ mem = [w \in Workers |-> NoRecord]
    /\ txn = NoWorker
    /\ client = [c \in Clients |-> Quiet]
    /\ crashes = 0
    /\ clicks = [a \in Attempts |-> 0]
    /\ raced = {}

-----------------------------------------------------------------------------
(* Helpers *)

Live(t) == task[t].state \in {"pending", "running"}

\* The row of a task that was just submitted.
Submitted(a) == [state |-> "pending", of |-> a, late |-> FALSE]

\* The attempt worker w has in hand.
Of(w) == task[run[w]].of

\* w's handler is between its read of the attempt and its last commit.
Running(w) == at[w] \in {"bind", "drive", "click", "verify", "save"}

CanWrite(w) == txn \in {NoWorker, w}

\* A row id that can hold a new task: unused, or over and forgotten.
Unused(t) ==
    \/ task[t].state = "absent"
    \/ task[t].state = "over" /\ \A w \in Workers : run[w] # t

InFlight(a) == attempt[a].state \notin WORKFLOW_TERMINAL \cup {NoRow}

EnqueueAnyway(a) ==                     \* mutant: no idempotency key
    \E t \in Tasks :
        /\ Unused(t)
        /\ task' = [task EXCEPT ![t] = Submitted(a)]

\* TaskQueue.submit with the attempt's idempotency key.  Both callers have
\* flushed before, so they hold the write lock over the check and the insert.
Enqueue(a) ==
    IF \E t \in Tasks : Live(t) /\ task[t].of = a
    THEN UNCHANGED task
    ELSE \E t \in Tasks :
           /\ Unused(t)
           /\ task' = [task EXCEPT ![t] = Submitted(a)]

\* c's request has read an attempt and may save it.
Resolving(c) == client[c].doing \in {"resolve", "reclaim"}

\* AttemptRepository.save of r in c's request, with its commit.
SaveCopy(c, r) ==
    LET a == client[c].of
    IN  /\ Resolving(c)
        /\ txn = NoWorker
        /\ attempt' = [attempt EXCEPT ![a] = r]
        /\ raced' = IF attempt[a] = client[c].copy THEN raced ELSE raced \cup {a}
        /\ UNCHANGED << app, at, run, mem, txn, crashes, clicks >>

\* The save that ends the request.
SaveRequest(c, r) ==
    /\ SaveCopy(c, r)
    /\ client' = [client EXCEPT ![c] = Quiet]

\* w's handler ends or is abandoned.
LetGo(w) ==
    /\ at' = [at EXCEPT ![w] = "idle"]
    /\ run' = [run EXCEPT ![w] = NoTask]
    /\ mem' = [mem EXCEPT ![w] = NoRecord]
    /\ txn' = IF txn = w THEN NoWorker ELSE txn

-----------------------------------------------------------------------------
(* Requests *)

\* start_for_job: no attempt is in flight; the application row is read.
StartCheck(c) ==
    /\ client[c].doing = "nothing"
    /\ ~ \E a \in Attempts : InFlight(a)
    /\ client' = [client EXCEPT ![c] = [Quiet EXCEPT !.doing = "start", !.saw = app]]
    /\ UNCHANGED << app, attempt, task, at, run, mem, txn, crashes, clicks, raced >>

\* start_for_job: the application is advanced, the attempt and its task are
\* inserted, the request commits.
StartInsert(c) ==
    /\ client[c].doing = "start"
    /\ txn = NoWorker
    /\ \E a \in Attempts, m \in Modes, h \in Hosts :
         /\ attempt[a].state = NoRow
         /\ attempt' = [attempt EXCEPT ![a] =
                          [NoRecord EXCEPT !.state = "pending", !.mode = m, !.host = h]]
         /\ Enqueue(a)
    /\ app' = advance_to_applying(client[c].saw)
    /\ client' = [client EXCEPT ![c] = Quiet]
    /\ UNCHANGED << at, run, mem, txn, crashes, clicks, raced >>

\* resolve or activate_browser: the attempt is read.  The intervention may be
\* resolved already: the screen that names it is older than the row.
ResolveRead(c, a, item) ==
    /\ client[c].doing = "nothing"
    /\ attempt[a].state # NoRow
    /\ item \in attempt[a].open \cup attempt[a].settled
    /\ client' = [client EXCEPT ![c] = [Quiet EXCEPT !.doing = "resolve", !.of = a,
                                          !.item = item, !.copy = attempt[a]]]
    /\ UNCHANGED << app, attempt, task, at, run, mem, txn, crashes, clicks, raced >>

\* resolve returns or fails without writing: the intervention is closed, the
\* database is busy, the caller goes away.
Abandon(c) ==
    /\ client[c].doing # "nothing"
    /\ client' = [client EXCEPT ![c] = Quiet]
    /\ UNCHANGED << app, attempt, task, at, run, mem, txn, crashes, clicks, raced >>

\* activate_browser rebuilds the host's session, whether or not an intervention
\* is open, and commits the attempt as it was read.
Activate(c) ==
    /\ client[c].doing = "resolve"
    /\ client[c].copy.host
    /\ SaveRequest(c, client[c].copy)
    /\ UNCHANGED task

\* resolve with KEEP_CONTROL, whether or not the intervention is open.
KeepControl(c) ==
    /\ client[c].doing = "resolve"
    /\ SaveRequest(c, [client[c].copy EXCEPT !.state = "waiting_for_human"])
    /\ UNCHANGED task

SettledForgetful(r) ==                  \* mutant: a fresh record, no marker
    [r.copy EXCEPT !.open = @ \ {r.item}, !.settled = @ \cup {r.item},
                   !.marked = FALSE]

SettledLeftOpen(r) ==                   \* mutant: the intervention stays open
    [r.copy EXCEPT !.settled = @ \cup {r.item}]

\* intervention.resolve on the copy of request r.
Settled(r) ==
    [r.copy EXCEPT !.open = @ \ {r.item}, !.settled = @ \cup {r.item}]

\* resolve with SKIP_APPLICATION or CANCEL.
Cancel(c) ==
    /\ client[c].doing = "resolve"
    /\ client[c].item \in client[c].copy.open
    /\ SaveRequest(c, [Settled(client[c]) EXCEPT !.state = "cancelled"])
    /\ UNCHANGED task

\* _reclaim_before_resume rebuilds the host's session and commits the attempt
\* as it was read before the host is asked for control.
ReclaimBinds(c) ==
    /\ client[c].doing = "resolve"
    /\ client[c].item = "browser" /\ "browser" \in client[c].copy.open
    /\ client[c].copy.host
    /\ SaveCopy(c, client[c].copy)
    /\ client' = [client EXCEPT ![c].doing = "reclaim"]
    /\ UNCHANGED task

\* resolve with any other resolution.  A browser intervention is reclaimed
\* first, which takes a host: attempts without one cannot pass.
Resume(c) ==
    LET r == client[c]
    IN  /\ r.item \in r.copy.open
        /\ r.item = "browser" => r.copy.host
        /\ SaveRequest(c, [Settled(r) EXCEPT !.state = "pending"])
        /\ Enqueue(r.of)

\* The host is away or refuses: the attempt is saved as it was read.
ReclaimFails(c) ==
    /\ client[c].item = "browser" /\ "browser" \in client[c].copy.open
    /\ SaveRequest(c, client[c].copy)
    /\ UNCHANGED task

-----------------------------------------------------------------------------
(* The handler: _run and run_form_application *)

\* reclaim_expired_leases, the SELECT in w's poll: the lease of t has lapsed.
\* A poll that finds several reclaims them one after the other here.
ReclaimRead(w, t) ==
    /\ at[w] = "idle"
    /\ task[t].state = "running"
    /\ run' = [run EXCEPT ![w] = t]
    /\ at' = [at EXCEPT ![w] = "reclaim"]
    /\ UNCHANGED << app, attempt, task, mem, txn, client, crashes, clicks, raced >>

\* The row r after reclaim_expired_leases.
Reclaimed(r) ==
    [r EXCEPT !.state = "pending", !.late = r.late \/ r.state = "over"]

\* reclaim_expired_leases, the commit: whatever the row says by now, the task
\* is pending again.
ReclaimWrite(w) ==
    /\ at[w] = "reclaim"
    /\ CanWrite(w)
    /\ task' = [task EXCEPT ![run[w]] = Reclaimed(@)]
    /\ LetGo(w)
    /\ UNCHANGED << app, attempt, client, crashes, clicks, raced >>

\* The queue hands w a task.
Claim(w) ==
    /\ at[w] = "idle"
    /\ txn = NoWorker
    /\ \E t \in Tasks :
         /\ task[t].state = "pending"
         /\ task' = [task EXCEPT ![t].state = "running"]
         /\ run' = [run EXCEPT ![w] = t]
    /\ at' = [at EXCEPT ![w] = "load"]
    /\ UNCHANGED << app, attempt, mem, txn, client, crashes, clicks, raced >>

\* The attempt is read, in whatever state it is.
Load(w) ==
    /\ at[w] = "load"
    /\ mem' = [mem EXCEPT ![w] = attempt[Of(w)]]
    /\ at' = [at EXCEPT ![w] = "bind"]
    /\ raced' = IF \E v \in Workers : Running(v) /\ Of(v) = Of(w)
                THEN raced \cup {Of(w)} ELSE raced
    /\ UNCHANGED << app, attempt, task, run, txn, client, crashes, clicks >>

\* w's handler goes on to p with r in hand; nothing is committed.
Proceed(w, p, r) ==
    /\ mem' = [mem EXCEPT ![w] = r]
    /\ at' = [at EXCEPT ![w] = p]
    /\ UNCHANGED << app, task, run, client, crashes, raced >>

PausedForProvider(r, item) ==           \* mutant: a state nothing resumes
    [r EXCEPT !.state = "waiting_for_provider", !.open = @ \cup {item}]

\* open_intervention: the step ends waiting for a human.
Paused(r, item) ==
    [r EXCEPT !.state = "waiting_for_human", !.open = @ \cup {item}]

\* bind_session finds the host's live session.
BindHosted(w) ==
    /\ at[w] = "bind"
    /\ mem[w].host
    /\ Proceed(w, "drive", mem[w])
    /\ UNCHANGED << attempt, txn, clicks >>

\* bind_session opens a session on the host and commits it at once.
BindCreated(w) ==
    /\ at[w] = "bind"
    /\ mem[w].host
    /\ CanWrite(w)
    /\ attempt' = [attempt EXCEPT ![Of(w)] = mem[w]]
    /\ Proceed(w, "drive", mem[w])
    /\ UNCHANGED << txn, clicks >>

\* _acquire_local: the session id is flushed, so the lock is taken.
BindLocal(w) ==
    /\ at[w] = "bind"
    /\ CanWrite(w)
    /\ txn' = w
    /\ Proceed(w, "drive", mem[w])
    /\ UNCHANGED << attempt, clicks >>

\* No driver for the URL, no browser, or the contract is no longer met.
BindRefused(w) ==
    /\ at[w] = "bind"
    /\ CanWrite(w)
    /\ txn' = w
    /\ \E item \in Pauses : Proceed(w, "save", Paused(mem[w], item))
    /\ UNCHANGED << attempt, clicks >>

\* The session is bound but no driver knows the URL: run_step fails the attempt.
NoDriver(w) ==
    /\ at[w] = "drive"
    /\ Proceed(w, "save", [mem[w] EXCEPT !.state = "failed"])
    /\ UNCHANGED << attempt, txn, clicks >>

\* The human owns the browser, the page asks for one, or a question needs an
\* answer.  After a submit click only the first can happen.
PageNeedsHuman(w) ==
    /\ at[w] = "drive"
    /\ \E item \in Pauses :
         /\ mem[w].marked => item = "browser"
         /\ Proceed(w, "save", Paused(mem[w], item))
    /\ UNCHANGED << attempt, txn, clicks >>

\* handle_submission_evidence: the page confirms receipt, or it does not and a
\* human has to look.
Evidence(r) == { [r EXCEPT !.state = "completed"], Paused(r, "browser") }

Always(r) == TRUE                       \* mutant: the marker is not looked at

\* submission_attempted_at is None.
Unsubmitted(r) == ~ r.marked

\* A submit click is on record: verify only.
VerifyOnly(w) ==
    /\ at[w] = "drive"
    /\ ~ Unsubmitted(mem[w])
    /\ \E r \in Evidence(mem[w]) : Proceed(w, "save", r)
    /\ UNCHANGED << attempt, txn, clicks >>

\* The form has no submit control: CONTINUED.
NoSubmitControl(w) ==
    /\ at[w] = "drive"
    /\ Unsubmitted(mem[w])
    /\ Proceed(w, "save", [mem[w] EXCEPT !.state = "running"])
    /\ UNCHANGED << attempt, txn, clicks >>

\* The mode does not permit the submit action.
FilledOnly(w) ==
    /\ at[w] = "drive"
    /\ Unsubmitted(mem[w])
    /\ mem[w].mode = "fill"
    /\ Proceed(w, "save", [mem[w] EXCEPT !.state = "completed"])
    /\ UNCHANGED << attempt, txn, clicks >>

\* mark_submission_attempted and persist, which commits.
Mark(w) ==
    LET marked == [mem[w] EXCEPT !.marked = TRUE, !.state = "running"]
    IN  /\ at[w] = "drive"
        /\ Unsubmitted(mem[w])
        /\ mem[w].mode = "submit"
        /\ CanWrite(w)
        /\ attempt' = [attempt EXCEPT ![Of(w)] = marked]
        /\ txn' = NoWorker
        /\ Proceed(w, "click", marked)
        /\ UNCHANGED clicks

\* session.click: the employer's site may or may not receive it.
Click(w) ==
    /\ at[w] = "click"
    /\ \E landed \in {0, 1} :
         clicks' = [clicks EXCEPT ![Of(w)] = IF @ < ClickCap THEN @ + landed ELSE @]
    /\ Proceed(w, "verify", mem[w])
    /\ UNCHANGED << attempt, txn >>

\* The browser reports that the click failed, or the page is judged.
Observe(w) ==
    /\ at[w] = "verify"
    /\ \E r \in Evidence(mem[w]) \cup { [mem[w] EXCEPT !.state = "failed"] } :
         Proceed(w, "save", r)
    /\ UNCHANGED << attempt, txn, clicks >>

\* The last save of run_step, _reconcile_application, the commit.
Save(w) ==
    /\ at[w] = "save"
    /\ CanWrite(w)
    /\ attempt' = [attempt EXCEPT ![Of(w)] = mem[w]]
    /\ app' = reconcile(app, mem[w].state)
    /\ txn' = NoWorker
    /\ at' = [at EXCEPT ![w] = "report"]
    /\ UNCHANGED << task, run, mem, client, crashes, clicks, raced >>

ReportKept(w) ==                        \* mutant: the paused step keeps its task
    /\ at[w] = "report"
    /\ CanWrite(w)
    /\ task' = [task EXCEPT ![run[w]].state = "pending"]
    /\ LetGo(w)
    /\ UNCHANGED << app, attempt, client, crashes, clicks, raced >>

\* The handler returned: TaskQueue.complete in the worker's unit of work.
Report(w) ==
    /\ at[w] = "report"
    /\ CanWrite(w)
    /\ task' = [task EXCEPT ![run[w]].state = "over"]
    /\ LetGo(w)
    /\ UNCHANGED << app, attempt, client, crashes, clicks, raced >>

\* The handler raises or times out: its unit of work rolls back and
\* TaskQueue.fail takes the task out of the queue.
Raise(w) ==
    /\ MayRaise
    /\ Running(w)
    /\ CanWrite(w)
    /\ task' = [task EXCEPT ![run[w]].state = "over"]
    /\ LetGo(w)
    /\ UNCHANGED << app, attempt, client, crashes, clicks, raced >>

Crash(w) ==
    /\ at[w] # "idle"
    /\ crashes < MaxCrashes
    /\ crashes' = crashes + 1
    /\ LetGo(w)
    /\ UNCHANGED << app, attempt, task, client, clicks, raced >>

-----------------------------------------------------------------------------
Start(c) == StartCheck(c) \/ StartInsert(c)

Resolve(c) ==
    \/ \E a \in Attempts, item \in Interventions : ResolveRead(c, a, item)
    \/ Activate(c)
    \/ KeepControl(c)
    \/ Cancel(c)
    \/ ReclaimBinds(c)
    \/ Resume(c)
    \/ ReclaimFails(c)

Bind(w) == BindHosted(w) \/ BindCreated(w) \/ BindLocal(w) \/ BindRefused(w)

Drive(w) ==
    \/ NoDriver(w)
    \/ PageNeedsHuman(w)
    \/ VerifyOnly(w)
    \/ NoSubmitControl(w)
    \/ FilledOnly(w)
    \/ Mark(w)

Step(w) ==
    \/ ReclaimWrite(w)
    \/ Claim(w)
    \/ Load(w)
    \/ Bind(w)
    \/ Drive(w)
    \/ Click(w)
    \/ Observe(w)
    \/ Save(w)
    \/ Report(w)

Next ==
    \/ \E c \in Clients : Start(c) \/ Resolve(c) \/ Abandon(c)
    \/ \E w \in Workers : Step(w) \/ Raise(w) \/ Crash(w)
    \/ \E w \in Workers, t \in Tasks : ReclaimRead(w, t)

Spec == Init /\ [][Next]_vars

\* Worker loops keep polling and wait_for ends every handler; every poll reclaims
\* before it claims, so the lapsed lease of a task nobody runs is noticed.
\* Crashes are bounded.  Nothing is assumed of the requests.
FairSpec ==
    /\ Spec
    /\ \A w \in Workers : WF_vars(Step(w))
    /\ \A w \in Workers, t \in Tasks :
         SF_vars(ReclaimRead(w, t) /\ \A v \in Workers : run[v] # t)

\* Every request ends, a human looks at every open intervention again and
\* again and chooses "Done, continue", and the host, if there is one, does not
\* refuse the browser forever.
Patience ==
    \A c \in Clients :
        /\ WF_vars(Abandon(c))
        /\ SF_vars(Resume(c))
        /\ \A a \in Attempts, item \in Interventions :
             SF_vars(item \in attempt[a].open /\ ResolveRead(c, a, item))

-----------------------------------------------------------------------------
(* Properties *)

TypeOK ==
    /\ app \in ApplicationState
    /\ attempt \in [Attempts -> ApplicationAttempt]
    /\ task \in [Tasks -> TaskRow]
    /\ at \in [Workers -> Places]
    /\ run \in [Workers -> Tasks \cup {NoTask}]
    /\ mem \in [Workers -> ApplicationAttempt]
    /\ txn \in Workers \cup {NoWorker}
    /\ client \in [Clients -> Request]
    /\ crashes \in 0 .. MaxCrashes
    /\ clicks \in [Attempts -> 0 .. ClickCap]
    /\ raced \subseteq Attempts

\* The irreversible action happens at most once: however workers crash, raise
\* and are replaced between the marker, the click and the last commit, the
\* employer's site receives at most one submit click for an attempt that was
\* never run twice at once nor saved from a stale copy.
SubmitOnce == \A a \in Attempts \ raced : clicks[a] <= 1

\* Every received click is on record: submission_attempted_at is committed
\* before the click and no later save of a run or a request takes it away.
ClickIsOnRecord ==
    \A a \in Attempts \ raced : clicks[a] > 0 => attempt[a].marked

\* enqueue_resume: at most one live task runs an attempt, whoever resumes it
\* and however often its lease lapses; only a reclaim whose commit comes after
\* the report of the task it read may leave a second one.
OneLiveTask ==
    \A t, u \in Tasks :
        Live(t) /\ Live(u) /\ task[t].of = task[u].of =>
            t = u \/ task[t].late \/ task[u].late

\* The application is only marked submitted by an attempt whose click is on
\* record, or that exists and was asked to fill the form and stop.
Earned(a) ==
    \/ attempt[a].marked
    \/ attempt[a].state # NoRow /\ attempt[a].mode = "fill"
    \/ a \in raced
SubmittedIsEarned == app \in SUBMITTED_STATES => \E a \in Attempts : Earned(a)

\* WORKFLOW_RELEASES_WORKER: a paused attempt does not keep a task.
PauseLeavesQueue ==
    \A a \in Attempts :
        attempt[a].state = "waiting_for_human" ~>
            ~ \E t \in Tasks : Live(t) /\ task[t].of = a

\* "Done, continue": a patient human gets past every intervention.
PauseCanEnd ==
    Patience =>
        \A a \in Attempts, item \in Interventions :
            item \in attempt[a].open ~> item \notin attempt[a].open

-----------------------------------------------------------------------------
(* What makes SubmitOnce inductive *)

\* A busy worker has a task in hand whose row exists, and existing rows name
\* an existing attempt.
Held ==
    /\ \A w \in Workers : at[w] # "idle" => run[w] # NoTask /\ task[run[w]].state # "absent"
    /\ \A t \in Tasks : task[t].state # "absent" =>
         task[t].of # NoAttempt /\ attempt[task[t].of].state # NoRow

\* Copies were read from existing rows.
Existing ==
    /\ \A w \in Workers : Running(w) => mem[w].state # NoRow
    /\ \A c \in Clients : Resolving(c) =>
         client[c].of # NoAttempt /\ client[c].copy.state # NoRow

\* Nobody clicked for an attempt that does not exist yet.
Untouched ==
    \A a \in Attempts \ raced :
        attempt[a].state = NoRow => clicks[a] = 0 /\ ~ attempt[a].marked

\* An attempt that never raced is run by one worker at a time.
Exclusive ==
    \A v, w \in Workers :
        Running(v) /\ Running(w) /\ Of(v) = Of(w) /\ Of(w) \notin raced => v = w

\* The handler knows of the marker what the row says, and the site has not
\* been clicked before the handler's own click.
Synced ==
    \A w \in Workers : Running(w) /\ Of(w) \notin raced =>
        /\ mem[w].marked = attempt[Of(w)].marked
        /\ at[w] \in {"click", "verify"} => mem[w].marked
        /\ at[w] = "click" => clicks[Of(w)] = 0

MarkerInv == Untouched /\ Exclusive /\ Synced /\ ClickIsOnRecord /\ SubmitOnce

AttemptInv == TypeOK /\ Held /\ Existing /\ MarkerInv

-----------------------------------------------------------------------------
(* What makes SubmittedIsEarned inductive *)

\* The copies in hand are of rows that exist and of the mode those were started in.
ModesKept ==
    /\ \A w \in Workers : Running(w) => mem[w].mode = attempt[Of(w)].mode
    /\ \A c \in Clients : Resolving(c) =>
         /\ attempt[client[c].of].state # NoRow
         /\ client[c].copy.mode = attempt[client[c].of].mode

\* A handler about to save a completed attempt clicked, or was to fill only.
CompletedIsEarned ==
    \A w \in Workers : at[w] = "save" /\ mem[w].state = "completed" =>
        mem[w].marked \/ mem[w].mode = "fill" \/ Of(w) \in raced

\* What a request saw of the application was earned by then.
SeenIsEarned ==
    \A c \in Clients : client[c].doing = "start" /\ client[c].saw \in SUBMITTED_STATES =>
        \E a \in Attempts : Earned(a)

EarnedInv == SubmittedIsEarned /\ ModesKept /\ CompletedIsEarned /\ SeenIsEarned

-----------------------------------------------------------------------------
(* What the repository says of attempts and the code does not do.          *)

\* "The one final-submit click of this attempt", races or not.
OneClickPerAttempt == \A a \in Attempts : clicks[a] <= 1
=============================================================================
