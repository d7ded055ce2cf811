--------------------------- MODULE MCJobPipeline ---------------------------
(***************************************************************************)
(* Small instances of the parts of the way from a source to a score for    *)
(* TLC: what a run hears from its sources, what is read out of one         *)
(* posting, the sessions that read and write the jobs and their            *)
(* applications, the score of one posting, the resume tailored to it, and  *)
(* what is remembered of it all. A behaviour shows one part; the others    *)
(* rest.                                                                   *)
(***************************************************************************)
EXTENDS JobPipeline, ModelAdvice, SourceIntake, PostingText, ModelCalls, LessonMemory

CONSTANTS ats, board, j1, j2, u1

VARIABLE part

MCTier == [s \in {ats, board} |-> IF s = ats THEN 3 ELSE 1]

MCRecords == {<<ats, 1>>, <<ats, 2>>, <<board, 1>>}

PipelineSymmetry == Permutations({j1, j2})

-----------------------------------------------------------------------------
\* Each fact with the values its dimension tells apart.
FactValues ==
    [title |-> {-1, 0, 333, 1000}, anti_title |-> BOOLEAN, seniority |-> {-1, 0, 1, 3},
     requirements |-> {<<0, 0>>, <<0, 2>>, <<1, 2>>, <<2, 2>>},
     preferred |-> {-1, 0, 1000}, experience |-> {-1, 0, 2000}, domain |-> {-1, 0, 1000},
     pay |-> {"no_floor", "not_stated", "other_currency", "enough", "below"},
     place |-> {"no_target", "remote", "matches", "similar", "elsewhere"},
     employment |-> {"unknown", "wanted", "other"},
     countries |-> {<<>>, <<"authorized">>, <<"not_authorized">>, <<"requires_sponsorship">>,
                    <<"authorized", "not_authorized">>},
     requires_sponsorship |-> {"yes", "no", "unknown"},
     company |-> {"excluded", "preferred", "preferred_industry", "other"}]

GoodFit ==
    [title |-> 1000, anti_title |-> FALSE, seniority |-> 0, requirements |-> <<2, 2>>,
     preferred |-> 1000, experience |-> 2000, domain |-> 1000, pay |-> "enough",
     place |-> "remote", employment |-> "wanted", countries |-> <<"authorized">>,
     requires_sponsorship |-> "no", company |-> "preferred"]

\* A good posting and one nothing is known of, with any two facts changed.
MCFacts ==
    UNION {{[base EXCEPT ![f] = x, ![g] = y] : x \in FactValues[f], y \in FactValues[g]} :
           base \in {GoodFit,
                     [GoodFit EXCEPT !.title = 333, !.requirements = <<1, 2>>,
                                     !.experience = 0, !.seniority = 1, !.pay = "not_stated",
                                     !.place = "similar", !.company = "other"]},
           f \in DOMAIN FactValues, g \in DOMAIN FactValues}

\* The presets, and one strategy that ignores the location.
MCStrategies ==
    Range(PRESETS) \cup
    {[SearchStrategy EXCEPT !.location_strictness = "ignored",
                            !.remote_preference = "onsite_preferred",
                            !.work_authorization_is_hard_blocker = FALSE]}

Adjust(dimension, delta) == [dimension |-> dimension, delta |-> delta]
MCReplies ==
    [adjustments : {<<>>,
                    <<Adjust("title_match", -900), Adjust("required_skills", -900),
                      Adjust("demonstrated_experience", -900), Adjust("compensation", 150)>>,
                    <<Adjust("title_match", 200), Adjust("title_match", 200),
                      Adjust("no such dimension", 500)>>},
     missing : {{}, {Missing("authorization", "minor"), Missing("clearance", "hard")}}]

IdleFit == [stage |-> "new"]

-----------------------------------------------------------------------------
Answer(status, shape, postings) ==
    [status |-> status, marker |-> FALSE, json |-> TRUE, shape |-> shape, postings |-> postings]
Refusal(status) == Answer(status, "other", <<>>)

\* A board that lists, one that fails in each way, and one of another shape.
Boards(shape) ==
    {Answer(200, shape, <<"posting">>), Answer(200, shape, <<"unnamed", "posting", "posting">>),
     Answer(200, shape, <<"posting", "broken">>), Answer(200, "other", <<>>),
     [Answer(200, shape, <<"posting">>) EXCEPT !.json = FALSE], Refusal(0)}
Refusals == {Refusal(429), Refusal(403), [Refusal(403) EXCEPT !.marker = TRUE],
             Refusal(401), Refusal(404), Refusal(500), Refusal(418)}

MCOptionSets ==
    [greenhouse |-> {<<"b1">>, <<"b1", "b2">>}, lever |-> {<<>>, <<"b1">>, Invalid},
     local_feed |-> {<<"f1">>}]
MCConfig == [greenhouse |-> [enabled |-> TRUE, options |-> <<"b1", "b2">>],
             lever |-> [enabled |-> TRUE, options |-> Invalid],
             elsewhere |-> [enabled |-> TRUE, options |-> <<>>]]
MCInstalled == [elsewhere |-> "other"]
MCAnswers == [greenhouse |-> Boards("dict"),
              lever |-> {Answer(200, "list", <<"posting">>), Answer(200, "dict", <<>>)} \cup Refusals,
              local_feed |-> {Answer(200, "dict", <<"posting">>), Refusal(0)}]

IdleIntake == [rows |-> <<>>, selected |-> {}, results |-> <<>>, run |-> NoRun,
               runs |-> 0, visits |-> 0]

MCTokens == Pieces \cup {"block", "skip", "end_skip", "void"}
Pay(form, low, high, thousands) ==
    [form |-> form, low |-> low, high |-> high, thousands |-> thousands]
MCPays ==
    {Pay("none", 0, 0, FALSE), Pay("range", 120, 150, TRUE), Pay("range", 120, 150, FALSE),
     Pay("single", 125, 125, TRUE), Pay("single", 95, 95, TRUE), Pay("single", 1205, 1205, FALSE),
     Pay("hourly", 60, 60, FALSE), Pay("hourly", 120, 120, FALSE),
     Pay("hourly_range", 60, 80, FALSE)}
IdleReading == [tokens |-> <<>>, job |-> [stage |-> "new"]]

Configured(name, kind, enabled, local) ==
    [name |-> name, kind |-> kind, enabled |-> enabled, key |-> ~local, local |-> local]
MCProviders ==
    {<<Configured("first", k, on, FALSE), Configured("second", "openai_compatible", TRUE, TRUE)>> :
        k \in kinds, on \in BOOLEAN}
\* What an object may hold: a value, a nested object, a list, and strings with
\* brackets, escaped quotes and escaped escapes in them.
Units == {<<"x">>, <<"brace", "endbrace">>, <<"bracket", "endbracket">>,
          <<"quote", "endbrace", "quote">>, <<"quote", "escape", "escape", "quote">>,
          <<"quote", "escape", "quote", "brace", "quote">>}
Braced(body) == <<"brace">> \o body \o <<"endbrace">>
MCValid == {Braced(u) : u \in Units}
MCObjects == MCValid \cup {Braced(u \o v) : u \in Units, v \in Units}
MCSurroundings ==
    [before : {<<>>, <<"endbracket", "quote">>, <<"x", "fence">>},
     after : {<<>>, <<"fence">>, <<"x", "quote", "x">>, <<"brace", "fence">>}]
IdleCall == [stage |-> "new", sent |-> <<>>, enabled |-> FALSE, default |-> "none",
             result |-> "none"]

\* A lesson of each kind but one that only the person could set.
MCAddresses == {[kind |-> k, key |-> 1] : k \in {"job_source", "factual_career", "outcome"}}
\* A deletion of a phrase and of less, a text added, a number changed, and a text written
\* anew with another number.
Edit(generated, user, differs) == [generated |-> generated, user |-> user, differs |-> differs]
MCEdits == {Edit("phrases", "blank", {}), Edit("short", "blank", {}),
            Edit("blank", "phrases", {"phrases"}), Edit("phrases", "phrases", {"numbers"}),
            Edit("phrases", "phrases", {"numbers", "little in common", "phrases"})}
IdleMemory == [lessons |-> <<>>, clock |-> 0, raised |-> FALSE,
               claim |-> [level |-> "verified", stands |-> TRUE, vouched |-> TRUE]]

Number(value, unit) == [value |-> value, unit |-> unit]
Bullet(score, numbers) == [fit |-> score, numbers |-> numbers, tech |-> FALSE, banned |-> FALSE]
Role(name, from, bullets) == [name |-> name, startDate |-> from, highlights |-> bullets]
Resume(work) == [work |-> work, schools |-> {"college"}, certificates |-> {}, banned |-> FALSE]
Cut == Number(35, "percent")
\* Five bullets, of which one must go and not the last; and the second role fits best.
MCWork == <<Role("acme", "2018", <<Bullet(1, {}), Bullet(0, {Number(7, "none")}),
                                  Bullet(2, {Cut}), Bullet(1, {}), Bullet(3, {})>>),
            Role("beta", "2021", <<Bullet(9, {})>>)>>
MCTwice == <<Role("acme", "2018", <<Bullet(1, {Cut})>>), Role("acme", "2022", <<Bullet(2, {})>>)>>
MCPeople == [resume : {Resume(MCWork), Resume(MCTwice)}, metrics : {{}, {35, 1234567}}]
MCWordings ==
    {Bullet(0, {n}) : n \in {Cut, Number(99, "percent"), Number(7, "none"), Number(2020, "none"),
                             Number(2020, "percent"), Number(1234568, "money")}}
    \cup {[Bullet(0, {}) EXCEPT !.tech = TRUE, !.banned = TRUE]}
MCOthers ==
    {Resume(<<Role(name, from, <<b>>)>>) : name \in {"none", "acme", "gamma"},
                                          from \in {"none", "2018", "2022"}, b \in MCWordings}
    \cup {[Resume(MCWork) EXCEPT !.schools = {"academy"}],
          [Resume(MCWork) EXCEPT !.certificates = {"diploma"}, !.banned = TRUE]}
IdleTailoring == [stage |-> "idle", used_llm |-> FALSE]

-----------------------------------------------------------------------------
MCInit ==
    /\ part \in {"pipeline", "score", "sources", "text", "model", "memory", "ledger", "resume"}
    /\ Init
    /\ IF part = "score" THEN FitInit ELSE fit = IdleFit
    /\ IF part = "sources" THEN IntakeInit ELSE intake = IdleIntake
    /\ IF part = "text" THEN TextInit ELSE reading = IdleReading
    /\ IF part = "model" THEN CallInit ELSE call = IdleCall
    /\ IF part = "ledger" THEN MemoryInit ELSE memory = IdleMemory
    /\ IF part = "resume" THEN TailorInit ELSE tailoring = IdleTailoring

others == <<vars, fit, intake, reading, call, memory>>
everything == <<part, tailoring, others>>
Pipeline == part = "pipeline" /\ Next /\ UNCHANGED <<fit, intake, reading, call, memory>>
Scoring == part = "score" /\ FitNext /\ UNCHANGED <<vars, intake, reading, call, memory>>
Hearing == part = "sources" /\ IntakeNext /\ UNCHANGED <<vars, fit, reading, call, memory>>
Reading == part = "text" /\ build_job /\ UNCHANGED <<vars, fit, intake, call, memory>>
Calling == part = "model" /\ CallNext /\ UNCHANGED <<vars, fit, intake, reading, memory>>
Remembering ==
    /\ \/ part = "memory" /\ LessonNext
       \/ part = "ledger" /\ ClaimNext
    /\ UNCHANGED <<vars, fit, intake, reading, call>>
Tailoring == part = "resume" /\ TailorNext /\ UNCHANGED others
MCNext ==
    /\ UNCHANGED part
    /\ \/ /\ Pipeline \/ Scoring \/ Hearing \/ Reading \/ Calling \/ Remembering
          /\ UNCHANGED tailoring
       \/ Tailoring

MCSpec == MCInit /\ [][MCNext]_everything
=============================================================================
