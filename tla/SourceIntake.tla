----------------------------- MODULE SourceIntake -----------------------------
(***************************************************************************)
(* What a discovery run hears from its sources: the enablement rows with   *)
(* their options, the answers of every board, site or file, how each       *)
(* plugin turns them into postings and failures, and the verdict the run   *)
(* records. The sources of a run share no state while they fetch, and the  *)
(* run's session keeps other writers out until it ends, so a source is     *)
(* heard in one step and the rest of the rows change between runs.         *)
(* A posting is the kind of thing the plugin makes of it: "posting",       *)
(* "unnamed" (the plugin passes over it) or "broken" (it raises).          *)
(***************************************************************************)
EXTENDS Naturals, FiniteSets, Sequences

CONSTANTS
    OptionSets,     \* slug -> the options a person or the settings may give it
    Config,      \* discovery.sources of the settings: slug -> [enabled, options]
    Installed,   \* slug -> what its entry point loads: "descriptor" or "other"
    BoardAnswers,     \* slug -> what one of its boards may answer
    MaxResults,  \* strategy.max_jobs_per_source_per_run
    MaxRuns,     \* bound: discovery runs
    MaxVisitsToSettings  \* bound: restarts, toggles and probes

VARIABLE intake
\* intake.rows: source_states; .selected, .results: the run under way;
\* .run: the last run's record; .runs, .visits: bound counters

BuiltIn == {"greenhouse", "lever", "local_feed"}
\* Options are lists of boards, sites or files; these stand for options that do
\* not validate and for None, which keeps the stored ones.
Invalid == <<"invalid">>
Keep == <<"keep">>

Kinds == {"posting", "unnamed", "broken"}

\* The registry after register_sources and the entry points.
registry == BuiltIn \cup {s \in DOMAIN Installed : Installed[s] = "descriptor"}

ASSUME IntakeAssumption ==
    /\ MaxResults \in Nat \ {0} /\ MaxRuns \in Nat
    /\ IsFiniteSet(DOMAIN Installed)
    /\ \A s \in registry : /\ OptionSets[s] \subseteq Seq(STRING)
                           /\ \A a \in BoardAnswers[s] : a.postings \in Seq(Kinds)
    /\ \A s \in DOMAIN Config : Config[s].options \in Seq(STRING)

-----------------------------------------------------------------------------
\* One answer of a board: the status of the response (0: none came), whether
\* its body carries a bot marker, is JSON, and which shape the payload has.

\* The error a response is turned into; "ok" when there is none.
translate(answer) ==
    LET status == answer.status IN
    CASE status = 429 -> "rate_limited"
      [] status = 403 /\ answer.marker -> "automation_blocked"
      [] status \in {401, 403} /\ ~(status = 403 /\ answer.marker) -> "authentication_required"
      [] status \in {404, 410} -> "endpoint_unavailable"
      [] status < 400 -> "ok"
      [] OTHER -> "transient_network"

get_json(answer) ==
    IF answer.status = 0 THEN "transient_network"
    ELSE IF translate(answer) = "ok" /\ ~answer.json THEN "endpoint_unavailable"
    ELSE translate(answer)

\* A local file: a status of 0 stands for a file that cannot be read.
load(answer) ==
    IF answer.status = 0 \/ ~answer.json THEN "endpoint_unavailable" ELSE "ok"

heard(s, answer) == IF s = "local_feed" THEN load(answer) ELSE get_json(answer)

\* Which shape of payload holds the postings; another one is empty or raises.
Listing(s) == IF s = "greenhouse" THEN {"dict"} ELSE IF s = "lever" THEN {"list"} ELSE {"dict", "list"}
Raises(s, answer) == s = "greenhouse" /\ answer.shape \notin Listing(s)
Postings(s, answer) ==
    IF heard(s, answer) = "ok" /\ answer.shape \in Listing(s) THEN answer.postings ELSE <<>>

-----------------------------------------------------------------------------
NothingHeard == [jobs |-> 0, failed |-> {}, raised |-> FALSE, offered |-> 0]

normalise(acc, posting) ==
    IF acc.raised \/ acc.jobs >= MaxResults THEN acc
    ELSE [acc EXCEPT !.raised = posting = "broken",
                     !.jobs = IF posting = "posting" THEN @ + 1 ELSE @]

\* Posting by posting, from what the boards before it gave.
normalised(acc, postings) ==
    LET after[n \in 0 .. Len(postings)] ==
            IF n = 0 THEN acc ELSE normalise(after[n - 1], postings[n])
    IN  after[Len(postings)]

LostWithTheFirst(s, acc, answer) ==
    IF acc.raised \/ acc.failed # {} \/ acc.jobs >= MaxResults THEN acc
    ELSE IF heard(s, answer) # "ok"
         THEN [acc EXCEPT !.failed = @ \cup {heard(s, answer)}]
    ELSE normalised(acc, Postings(s, answer))
\* One board, site or file: the limit is asked first, a failure is noted and
\* the next one tried, and what raises ends the source.
listing(s, acc, answer) ==
    IF acc.raised \/ acc.jobs >= MaxResults THEN acc
    ELSE IF heard(s, answer) # "ok"
         THEN [acc EXCEPT !.failed = @ \cup {heard(s, answer)}]
    ELSE IF Raises(s, answer) THEN [acc EXCEPT !.raised = TRUE]
    ELSE normalised(acc, Postings(s, answer))

Offered(s, answer) ==
    Cardinality({i \in DOMAIN Postings(s, answer) : Postings(s, answer)[i] = "posting"})

\* What discover returns for these answers, with what the boards had to offer.
discover(s, answers) ==
    LET after[n \in 0 .. Len(answers)] ==
            IF n = 0 THEN NothingHeard
            ELSE [listing(s, after[n - 1], answers[n]) EXCEPT
                     !.offered = after[n - 1].offered + Offered(s, answers[n])]
        last == after[Len(answers)]
    IN  [jobs |-> last.jobs, failed |-> last.failed, raised |-> last.raised,
         truncated |-> last.jobs >= MaxResults, offered |-> last.offered]

\* fetch: a plugin that raises, or cannot be built from its options, is one
\* failure in the place of everything it had found.
fetch(s, options, answers) ==
    LET r == IF options = Invalid THEN NothingHeard ELSE discover(s, answers) IN
    IF options = Invalid
    THEN [jobs |-> 0, failed |-> {"configuration"}, raised |-> TRUE,
          truncated |-> FALSE, offered |-> 0]
    ELSE IF r.raised THEN [r EXCEPT !.jobs = 0, !.failed = {"unknown"}, !.truncated = FALSE]
    ELSE r

-----------------------------------------------------------------------------
NewRow == [enabled |-> FALSE, options |-> <<>>, health |-> "unknown",
           last_jobs |-> 0, streak |-> 0]

row_of(rows, s) == IF s \in DOMAIN rows THEN rows[s] ELSE NewRow
put(f, s, x) == [t \in DOMAIN f \cup {s} |-> IF t = s THEN x ELSE f[t]]

\* A toggle from the command line keeps the options.
set_enabled(rows, s, enabled, options) ==
    put(rows, s, [row_of(rows, s) EXCEPT !.enabled = enabled,
                                         !.options = IF options = Keep THEN @ ELSE options])

record_health(rows, s, state) == put(rows, s, [row_of(rows, s) EXCEPT !.health = state])

record_run(rows, s, jobs, failed) ==
    put(rows, s, [row_of(rows, s) EXCEPT !.last_jobs = jobs,
                                         !.streak = IF failed THEN @ + 1 ELSE 0])

enabled_sources(rows) == {s \in DOMAIN rows : rows[s].enabled /\ s \in registry}

\* The probe asks the first board only; a local feed looks at every file.
health(s, options, answer) ==
    CASE options = Invalid -> "unavailable"
      [] options = <<>> -> "degraded"
      [] s = "local_feed" /\ options # <<>> -> IF answer.status = 0 THEN "degraded" ELSE "healthy"
      [] OTHER -> IF get_json(answer) = "ok" THEN "healthy" ELSE "unavailable"

-----------------------------------------------------------------------------
NoRun == [state |-> "none", failures |-> FALSE, discovered |-> 0]
Resting == intake.selected = {}

IntakeInit ==
    \E on \in SUBSET BuiltIn, had \in {r \in [BuiltIn -> UNION {OptionSets[s] : s \in BuiltIn}] :
                                            \A s \in BuiltIn : r[s] \in OptionSets[s]} :
        intake = [rows |-> [s \in on |-> [NewRow EXCEPT !.enabled = TRUE, !.options = had[s]]],
                  selected |-> {}, results |-> <<>>, run |-> NoRun, runs |-> 0, visits |-> 0]

Visit == Resting /\ intake.visits < MaxVisitsToSettings

\* sync_from_settings: the settings decide about every source they mention,
\* with whatever options they give it.
Startup ==
    /\ Visit
    /\ LET mentioned == {s \in DOMAIN Config : s \in registry}
           after == [s \in DOMAIN intake.rows \cup mentioned |->
                        IF s \in mentioned
                        THEN set_enabled(intake.rows, s, Config[s].enabled, Config[s].options)[s]
                        ELSE intake.rows[s]]
       IN  intake' = [intake EXCEPT !.rows = after, !.visits = @ + 1]

\* A person enables a source, with options that must be valid, or disables it.
Toggle(s) ==
    /\ Visit /\ s \in registry
    /\ \E enabled \in BOOLEAN, options \in (OptionSets[s] \ {Invalid}) \cup {Keep} :
          /\ ~enabled => options = Keep
          /\ intake' = [intake EXCEPT !.rows = set_enabled(@, s, enabled, options),
                                      !.visits = @ + 1]

\* Listing the sources probes every registered one and records what it finds.
Probe ==
    /\ Visit
    /\ \E answers \in [registry -> UNION {BoardAnswers[s] : s \in DOMAIN BoardAnswers}] :
          /\ \A s \in registry : answers[s] \in BoardAnswers[s]
          /\ intake' = [intake EXCEPT
                !.rows = [s \in DOMAIN @ \cup registry |->
                             IF s \in registry
                             THEN record_health(@, s, health(s, row_of(@, s).options, answers[s]))[s]
                             ELSE @[s]],
                !.visits = @ + 1]

\* A run over the enabled sources, or those of them that were named.
BeginRun ==
    /\ Resting /\ intake.runs < MaxRuns
    /\ \E named \in SUBSET registry :
          LET selected == IF named = {} THEN enabled_sources(intake.rows)
                          ELSE enabled_sources(intake.rows) \cap named
          IN  intake' = [intake EXCEPT !.selected = selected, !.results = <<>>, !.runs = @ + 1,
                            !.run = IF selected = {}
                                    THEN [state |-> "failed", failures |-> TRUE, discovered |-> 0]
                                    ELSE [NoRun EXCEPT !.state = "running"]]

Fetch(s) ==
    /\ s \in intake.selected \ DOMAIN intake.results
    /\ LET options == intake.rows[s].options IN
       \E answers \in [1..(IF options = Invalid THEN 0 ELSE Len(options)) -> BoardAnswers[s]] :
          intake' = [intake EXCEPT !.results = put(@, s, fetch(s, options, answers))]

Heard == intake.selected # {} /\ DOMAIN intake.results = intake.selected

verdict(run) ==
    IF run.failures /\ run.discovered = 0 THEN "failed"
    ELSE IF run.failures THEN "partial" ELSE "succeeded"

\* _persist and _finish: every result goes into the rows and into the run.
FinishRun ==
    /\ Heard
    /\ LET results == intake.results
           after == [s \in DOMAIN intake.rows |->
                        IF s \in intake.selected
                        THEN record_run(intake.rows, s, results[s].jobs, results[s].failed # {})[s]
                        ELSE intake.rows[s]]
           run == [state |-> "running",
                   failures |-> \E s \in intake.selected :
                                   results[s].failed # {} \/ results[s].truncated,
                   discovered |-> Cardinality(UNION {{s} \X (1 .. results[s].jobs) :
                                                         s \in intake.selected})]
       IN  intake' = [intake EXCEPT !.rows = after, !.selected = {},
                                    !.run = [run EXCEPT !.state = verdict(run)]]

\* The session of the run is rolled back, its record with it.
RunDropped ==
    /\ ~Resting
    /\ intake' = [intake EXCEPT !.selected = {}, !.results = <<>>, !.run = NoRun]

IntakeNext ==
    \/ Startup \/ Probe \/ BeginRun \/ FinishRun \/ RunDropped
    \/ \E s \in registry : Toggle(s) \/ Fetch(s)

IntakeSpec == IntakeInit /\ [][IntakeNext]_intake

-----------------------------------------------------------------------------
\* A board that fails costs the run that board: the others' postings are
\* delivered up to the limit. What is not delivered is told, by the failures
\* or the truncation of its source and by the verdict of the run, and a run
\* that delivered something is not called failed (the discover methods of
\* the plugins, DiscoveryService._persist, _finish).
NothingIsMissedInSilence ==
    LET results == intake.results
        Least(a, b) == IF a <= b THEN a ELSE b
    IN
    /\ \A s \in DOMAIN results :
          /\ results[s].jobs < results[s].offered => results[s].failed # {} \/ results[s].truncated
          /\ ~results[s].raised => results[s].jobs = Least(MaxResults, results[s].offered)
    /\ intake.run.state \in {"succeeded", "partial", "failed"} =>
          /\ intake.run.state = "succeeded" =>
                \A s \in DOMAIN results : results[s].jobs = results[s].offered
          /\ (\E s \in DOMAIN results : results[s].jobs > 0) => intake.run.state # "failed"
=============================================================================
