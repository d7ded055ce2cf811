----------------------------- MODULE JobPipeline -----------------------------
(***************************************************************************)
(* From a posting to an application: discovery runs that fold what the     *)
(* sources deliver into the jobs table, scoring runs that score jobs and   *)
(* move their applications, and the other sessions that move them: the     *)
(* requests of the user, and the workers that end an attempt.              *)
(*                                                                         *)
(* Sessions meet in SQLite. A read sees what is committed; the first write *)
(* takes the one write lock until the session ends. A run writes its run   *)
(* record before anything else, so all it reads later it reads with the    *)
(* lock, and so does a worker, which saves its attempt first; a request    *)
(* reads first and writes later. A session writes the columns that differ  *)
(* from what it read, and only those.                                      *)
(***************************************************************************)
EXTENDS ApplicationStates, FiniteSets, FiniteSetsExt, SequencesExt

CONSTANTS
    Sources,        \* the enabled job sources
    Tier,           \* Tier[s]: how close a source is to the employer
    Records,        \* source records: a source and the identifier it gave a posting
    Jobs,           \* openings: identity keys of company, title and location
    Sessions,       \* the requests that move applications
    Moves,          \* the states a user asks for
    Recommendations, \* what a score may recommend
    MaxDelivered,   \* bound on the postings of one discovery run
    MaxScores       \* bound on the scores of all jobs together

ASSUME PipelineAssumption ==
    /\ Tier \in [Sources -> 0 .. 3]
    /\ \A r \in Records : r[1] \in Sources
    /\ "none" \notin Sources \cup Jobs
    /\ Moves \subseteq ApplicationState
    /\ Recommendations \subseteq {"apply", "investigate", "skip"}
    /\ MaxDelivered \in Nat /\ MaxScores \in Nat

VARIABLES
    canon,      \* canon[j]: the source whose values job j shows, "none" without a row
    stage,      \* stage[j]: the pipeline stage of the row
    listed,     \* listed[s, i]: the job that has this source record, "none"
    scored,     \* scored[j]: how often a score was added for j
    state,      \* state[j]: the application of j, "none" without one
    submitted,  \* submitted[j]: its submitted_at is set
    started,    \* the jobs an attempt was started for
    lock,       \* who holds the write lock
    request     \* request[u]: what u is about and the application it read, or Idle

rows == <<canon, stage, listed>>
applications == <<state, submitted, started>>
vars == <<rows, scored, applications, lock, request>>

Stages == {"normalized", "scored"}
Posting == [record : Records, job : Jobs]
Idle == [op |-> "none"]
Init ==
    /\ canon = [j \in Jobs |-> "none"] /\ stage = [j \in Jobs |-> "none"]
    /\ listed = [r \in Records |-> "none"]
    /\ scored = [j \in Jobs |-> 0]
    /\ state = [j \in Jobs |-> "none"] /\ submitted = [j \in Jobs |-> FALSE]
    /\ started = {}
    /\ lock = "none"
    /\ request = [u \in Sessions |-> Idle]

-----------------------------------------------------------------------------
(* Discovery.                                                              *)

Stored == {j \in Jobs : canon[j] # "none"}
Source(posting) == posting.record[1]

\* The values of a posting win over those of every record the row had.
IncomingWins(t, posting) ==
    \A r \in Records :
        t.listed[r] = posting.job => Tier[Source(posting)] > Tier[r[1]]

KnownBySource(t, posting) ==
    \E r \in Records : r[1] = Source(posting) /\ t.listed[r] = posting.job
Known(t, posting) == t.listed[posting.record] = posting.job

DeliveredStage == "normalized"

\* A source record belongs to one job: inserting it for another breaks the constraint
\* uq_job_sources_source_job, and the session with it.
upsert(t, posting) ==
    LET wins == t.canon[posting.job] = "none" \/ IncomingWins(t, posting)
        known == t.canon[posting.job] # "none" /\ Known(t, posting)
    IN  [ canon  |-> IF wins THEN [t.canon EXCEPT ![posting.job] = Source(posting)]
                     ELSE t.canon,
          stage  |-> [t.stage EXCEPT ![posting.job] = DeliveredStage],
          listed |-> IF known THEN t.listed
                     ELSE [t.listed EXCEPT ![posting.record] = posting.job],
          broken |-> t.broken \/ (~known /\ t.listed[posting.record] # "none") ]

OnRecord == [canon |-> canon, stage |-> stage, listed |-> listed, broken |-> FALSE]
Persisted(delivered) ==
    LET after[n \in 0 .. Len(delivered)] ==
            IF n = 0 THEN OnRecord ELSE upsert(after[n - 1], delivered[n])
    IN  after[Len(delivered)]

\* The run record is written, and the lock taken, before the sources are asked.
StartDiscovery ==
    /\ lock = "none"
    /\ lock' = "discovery"
    /\ UNCHANGED <<rows, scored, applications, request>>

\* What the sources that answered delivered, in their order; a source that fails or
\* raises delivers nothing. A broken constraint loses the whole run.
FinishDiscovery(delivered) ==
    /\ lock = "discovery"
    /\ lock' = "none"
    /\ LET t == Persisted(delivered)
       IN  IF t.broken THEN UNCHANGED rows
           ELSE canon' = t.canon /\ stage' = t.stage /\ listed' = t.listed
    /\ UNCHANGED <<scored, applications, request>>

-----------------------------------------------------------------------------
(* Scoring.                                                                *)

TargetState(recommendation) ==
    IF recommendation = "skip" THEN "skipped" ELSE "shortlisted"

\* Where a recommendation does not reach.
Advanced(s) == s \in {"preparing", "ready", "applying"} \cup SUBMITTED_STATES

\* The application is created when there is none; a move the table refuses is dropped.
Recommended(s, recommendation) ==
    LET from == IF s = "none" THEN "discovered" ELSE s
        to == TargetState(recommendation)
    IN  IF Advanced(from) \/ ~can_transition(from, to) THEN from ELSE to

\* Whether a job was scored is asked of the scores, not of the stage.
HasScore(j) == scored[j] > 0

\* "rescore" also stands for a run that was given the ids of its jobs.
StartScoring(kind) ==
    /\ lock = "none"
    /\ lock' = kind
    /\ UNCHANGED <<rows, scored, applications, request>>

\* A limit, or a list of ids, leaves any part of the jobs in question.
Selectable(kind) ==
    IF kind = "rescore" THEN Stored ELSE {j \in Stored : ~HasScore(j)}

\* A job whose scoring raises is left as it was, and the run goes on.
FinishScoring(kind, results) ==
    /\ lock = kind
    /\ DOMAIN results \subseteq Selectable(kind)
    /\ Cardinality(DOMAIN results) + MapThenSumSet(LAMBDA j : scored[j], Jobs) <= MaxScores
    /\ lock' = "none"
    /\ LET done == {j \in DOMAIN results : results[j] # "error"}
       IN  /\ scored' = [j \in Jobs |-> IF j \in done THEN scored[j] + 1 ELSE scored[j]]
           /\ stage' = [j \in Jobs |-> IF j \in done THEN "scored" ELSE stage[j]]
           /\ state' = [j \in Jobs |-> IF j \in done THEN Recommended(state[j], results[j])
                                       ELSE state[j]]
    /\ UNCHANGED <<canon, listed, submitted, started, request>>

\* The session of a run ends with an exception, or its process does.
RunLost ==
    /\ lock # "none"
    /\ lock' = "none"
    /\ UNCHANGED <<rows, scored, applications, request>>

-----------------------------------------------------------------------------
(* Requests and workers.                                                   *)

\* A request to move an application, or to start an attempt for a job.
Read(u, what, j) ==
    /\ request[u] = Idle
    /\ IF what = "start" THEN j \in Stored ELSE state[j] # "none"
    /\ request' = [request EXCEPT ![u] =
            [op |-> what, job |-> j, state |-> state[j], submitted |-> submitted[j]]]
    /\ UNCHANGED <<rows, scored, applications, lock>>

\* A legal move of a copy of an application, or several in a row: submitted_at is
\* set by the first that reaches the employer, and never reset.
transition(read, to) ==
    [state |-> to, submitted |-> read.submitted \/ to \in SUBMITTED_STATES]

WriteEveryColumn(j, read, to) ==
    /\ state' = [state EXCEPT ![j] = to]
    /\ submitted' = [submitted EXCEPT ![j] = transition(read, to).submitted]
\* The columns are written in which the copy differs from what was read.
Save(j, read, to) ==
    LET copy == transition(read, to)
    IN  /\ state' = IF copy.state # read.state THEN [state EXCEPT ![j] = copy.state] ELSE state
        /\ submitted' = IF copy.submitted /\ ~read.submitted
                         THEN [submitted EXCEPT ![j] = TRUE] ELSE submitted

Asked(u, what) == request[u].op = what
EndSession(u) ==
    /\ request' = [request EXCEPT ![u] = Idle]
    /\ UNCHANGED <<rows, scored, lock>>

\* A move the table refuses is answered with an error.
UserMoves(u, to) ==
    /\ Asked(u, "user") /\ lock = "none"
    /\ IF can_transition(request[u].state, to) THEN Save(request[u].job, request[u], to)
       ELSE UNCHANGED <<state, submitted>>
    /\ UNCHANGED started
    /\ EndSession(u)

\* An application made by another session since the read breaks the constraint
\* uq_applications_job_profile, and the session with it.
AttemptStarts(u) ==
    /\ Asked(u, "start") /\ lock = "none"
    /\ LET read == request[u]
           from == IF read.state = "none" THEN "discovered" ELSE read.state
       IN  IF read.state = "none" /\ state[read.job] # "none" THEN UNCHANGED applications
           ELSE /\ Save(read.job, read, advance_to_applying(from))
                /\ started' = started \cup {read.job}
    /\ EndSession(u)

\* The worker reads the application once it holds the lock.
AttemptEnds(j, how) ==
    /\ j \in started /\ lock = "none"
    /\ Save(j, [state |-> state[j], submitted |-> submitted[j]], reconcile(state[j], how))
    /\ UNCHANGED <<rows, scored, started, lock, request>>

\* The lock is not had in time, or the session is lost otherwise.
SessionLost(u) ==
    /\ request[u] # Idle
    /\ EndSession(u)
    /\ UNCHANGED applications

-----------------------------------------------------------------------------
Delivered == SeqOf(Posting, MaxDelivered)
Results == UNION {[part -> Recommendations \cup {"error"}] : part \in SUBSET Jobs}

Next ==
    \/ StartDiscovery
    \/ \E delivered \in Delivered : FinishDiscovery(delivered)
    \/ \E kind \in {"fresh", "rescore"} :
        StartScoring(kind) \/ \E results \in Results : FinishScoring(kind, results)
    \/ RunLost
    \/ \E u \in Sessions :
        \/ \E what \in {"user", "start"}, j \in Jobs : Read(u, what, j)
        \/ \E to \in Moves : UserMoves(u, to)
        \/ AttemptStarts(u) \/ SessionLost(u)
    \/ \E j \in Jobs, how \in {"completed", "cancelled"} : AttemptEnds(j, how)

Spec == Init /\ [][Next]_vars

-----------------------------------------------------------------------------
\* Whatever order the copies of an opening arrive in, its row shows the values of a
\* source as close to the employer as any that reported it: a direct record corrects an
\* aggregator's copy, never the reverse. And whatever a run is delivered, if it commits
\* then every posting is on record under its own opening, and so is every one before it:
\* merging duplicates discards no observation (JobRepository.upsert, _persist).
MergingKeepsTheBest ==
    /\ \A j \in Stored : \A r \in Records :
         listed[r] = j => Tier[canon[j]] >= Tier[r[1]]
    /\ lock = "discovery" =>
         \A delivered \in Delivered :
             LET t == Persisted(delivered)
             IN  ~t.broken =>
                     /\ \A i \in DOMAIN delivered : t.listed[delivered[i].record] = delivered[i].job
                     /\ \A r \in Records : listed[r] # "none" => t.listed[r] = listed[r]

\* Once a submission is on record no session takes it off again, also not one that read
\* the application before it was submitted, and no application is moved to a state from
\* the submission on without one on record (ApplicationRepository.save, transition).
SubmissionStaysOnRecord ==
    [][\A j \in Jobs : /\ submitted[j] => submitted'[j]
                       /\ state'[j] \in SUBMITTED_STATES => submitted'[j]]_vars
=============================================================================
