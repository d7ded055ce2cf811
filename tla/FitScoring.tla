------------------------------- MODULE FitScoring -------------------------------
(***************************************************************************)
(* The fit score of one posting for one profile: eleven dimensions judged  *)
(* from the posting, the profile and the strategy, their weighted mean,    *)
(* the blockers, the recommendation, and the optional pass in which a      *)
(* model adjusts dimensions and adds requirements.                         *)
(*                                                                         *)
(* The posting and the profile are reduced to facts: what each dimension   *)
(* tells apart. Scores and confidences are in thousandths, weights in      *)
(* hundredths, so that an overall score is in hundred-thousandths.         *)
(***************************************************************************)
EXTENDS Integers, Sequences

CONSTANTS
    Facts,        \* what is known of a posting and a profile, as records
    Strategies,   \* search strategies, as records
    Replies       \* what the model may answer: sequences of adjustments

Severity == {"hard", "significant", "minor"}

Whole == 1000   \* scores and confidences are in thousandths

\* What a fact may be: a score, or -1 where it is not known; levels apart;
\* requirement lines matched, of those listed.
KnownFacts ==
    [title: -1..Whole, anti_title: BOOLEAN, seniority: Nat \cup {-1},
     requirements: Nat \X Nat, preferred: -1..Whole,
     experience: Nat \cup {-1}, domain: Nat \cup {-1},
     pay: {"no_floor", "not_stated", "other_currency", "enough", "below"},
     place: {"no_target", "remote", "matches", "similar", "elsewhere"},
     employment: {"unknown", "wanted", "other"},
     countries: Seq({"authorized", "not_authorized", "requires_sponsorship", "unknown"}),
     requires_sponsorship: {"yes", "no", "unknown"},
     company: {"excluded", "preferred", "preferred_industry", "other"}]

ASSUME FitAssumption ==
    /\ Facts \subseteq KnownFacts /\ \A f \in Facts : f.requirements[1] <= f.requirements[2]
    /\ \A s \in Strategies : s.title_exploration \in 0..Whole /\ s.seniority_tolerance_levels \in Nat
    /\ \A r \in Replies : /\ r.adjustments \in Seq([dimension: STRING, delta: Int])
                          /\ r.missing \subseteq [requirement: STRING, severity: Severity]

VARIABLE fit
\* fit.facts, fit.strategy: the inputs; fit.score: the stored score, or NoScore;
\* fit.baseline: the overall score before the model was asked; fit.stage

At(score, confidence) == [score |-> score, confidence |-> confidence]
Unknown == At(500, 300)
MinOf(x, y) == IF x < y THEN x ELSE y
MaxOf(x, y) == IF x > y THEN x ELSE y

\* What a search strategy says of scores, and the presets of it.
SearchStrategy ==
    [title_exploration |-> 300, seniority_tolerance_levels |-> 1,
     compensation_strictness |-> "soft", location_strictness |-> "soft",
     remote_preference |-> "remote_preferred", work_authorization_is_hard_blocker |-> TRUE,
     skip_below_score |-> 30000, minimum_fit_score |-> 55000,
     minimum_evidence_confidence |-> 45000]

PRESETS ==
    [precise |-> [SearchStrategy EXCEPT
                    !.title_exploration = 100, !.seniority_tolerance_levels = 0,
                    !.compensation_strictness = "hard", !.location_strictness = "hard",
                    !.skip_below_score = 45000, !.minimum_fit_score = 75000,
                    !.minimum_evidence_confidence = 60000],
     balanced |-> SearchStrategy,
     wide |-> [SearchStrategy EXCEPT
                    !.title_exploration = 700, !.seniority_tolerance_levels = 2,
                    !.skip_below_score = 20000, !.minimum_fit_score = 40000,
                    !.minimum_evidence_confidence = 30000]]

\* The best overlap with a target title; exploration widens the tolerance.
title_match(f, s) ==
    IF f.title = -1 THEN Unknown
    ELSE LET score == MinOf(1000, f.title + s.title_exploration \div 5)
         IN  At(IF f.anti_title THEN (score * 6) \div 10 ELSE score, 700)

\* The distance in levels; -1 when the target or the posting names none.
seniority(f, s) ==
    LET d == f.seniority
        tolerance == s.seniority_tolerance_levels
    IN  IF d = -1 THEN Unknown
        ELSE IF d = 0 THEN At(1000, 900)
        ELSE IF d <= tolerance THEN At(1000 - (d * 500) \div (tolerance + 1), 700)
        ELSE At(100, 800)

\* Requirement lines matched by a skill of the profile, of those listed.
required_skills(f) ==
    LET matched == f.requirements[1]
        lines == f.requirements[2]
    IN  At((matched * 1000) \div MaxOf(lines, 1), IF lines = 0 THEN 300 ELSE 600)

preferred_skills(f) == IF f.preferred = -1 THEN Unknown ELSE At(f.preferred, 600)

\* Factual claims tagged with a skill of the posting, per skill.
demonstrated_experience(f) ==
    IF f.experience = -1 THEN Unknown ELSE At(MinOf(1000, f.experience), 700)

domain_overlap(f) == IF f.domain = -1 THEN Unknown ELSE At(MinOf(1000, f.domain), 500)

compensation(f) ==
    CASE f.pay = "no_floor" -> Unknown
      [] f.pay \in {"not_stated", "other_currency"} -> At(500, 200)
      [] f.pay = "enough" -> At(900, 800)
      [] f.pay = "below" -> At(100, 800)

location(f, s) ==
    IF f.place = "no_target" THEN At(600, 300)
    ELSE IF f.place = "remote" /\ s.remote_preference \in {"remote_only", "remote_preferred"}
    THEN At(1000, 800)
    ELSE LET score == CASE f.place = "matches" -> 1000
                        [] f.place = "similar" -> 500
                        [] OTHER -> 100
         IN  At(IF s.location_strictness = "ignored" THEN MaxOf(score, 500) ELSE score, 600)

employment_type(f) ==
    CASE f.employment = "unknown" -> Unknown
      [] f.employment = "wanted" -> At(1000, 700)
      [] f.employment = "other" -> At(100, 700)

\* The locations of the posting whose country the profile may not work in, in
\* order; an unknown status is no gap.
Gaps(f) ==
    {i \in DOMAIN f.countries :
        \/ f.countries[i] = "not_authorized"
        \/ f.countries[i] = "requires_sponsorship" /\ f.requires_sponsorship = "no"}

work_authorization(f) ==
    IF f.countries = <<>> THEN Unknown
    ELSE IF Gaps(f) = {} THEN At(1000, 800)
    ELSE IF \E i \in Gaps(f) : f.countries[i] = "not_authorized" THEN At(0, 800)
    ELSE At(100, 800)

user_preference(f) ==
    CASE f.company = "excluded" -> At(0, 900)
      [] f.company = "preferred" -> At(1000, 900)
      [] f.company = "preferred_industry" -> At(800, 600)
      [] OTHER -> At(500, 400)

DEFAULT_WEIGHTS ==
    [title_match |-> 18, seniority_match |-> 10, required_skills |-> 20,
     preferred_skills |-> 6, demonstrated_experience |-> 14, domain_overlap |-> 6,
     compensation |-> 8, location |-> 8, employment_type |-> 3,
     work_authorization |-> 4, user_preference |-> 3]
ScoreDimension == DOMAIN DEFAULT_WEIGHTS

score_dimensions(f, s) ==
    [title_match |-> title_match(f, s), seniority_match |-> seniority(f, s),
     required_skills |-> required_skills(f), preferred_skills |-> preferred_skills(f),
     demonstrated_experience |-> demonstrated_experience(f),
     domain_overlap |-> domain_overlap(f), compensation |-> compensation(f),
     location |-> location(f, s), employment_type |-> employment_type(f),
     work_authorization |-> work_authorization(f), user_preference |-> user_preference(f)]

Missing(requirement, severity) == [requirement |-> requirement, severity |-> severity]

\* What the posting asks for and the profile does not have.
missing_requirements(f, s) ==
    LET hardly(condition) == IF condition THEN "hard" ELSE "significant"
    IN  (IF f.requirements[1] < f.requirements[2] THEN {Missing("skill", "significant")} ELSE {})
        \cup (IF f.pay # "below" THEN {}
              ELSE {Missing("compensation", hardly(s.compensation_strictness = "hard"))})
        \cup (IF Gaps(f) = {} THEN {}
              ELSE {Missing("authorization", hardly(s.work_authorization_is_hard_blocker))})

\* The weighted sum of what each dimension has of something; the weights add up to 100.
Weighted(v) ==
    LET w == DEFAULT_WEIGHTS
    IN  w.title_match * v.title_match + w.seniority_match * v.seniority_match
        + w.required_skills * v.required_skills + w.preferred_skills * v.preferred_skills
        + w.demonstrated_experience * v.demonstrated_experience
        + w.domain_overlap * v.domain_overlap + w.compensation * v.compensation
        + w.location * v.location + w.employment_type * v.employment_type
        + w.work_authorization * v.work_authorization + w.user_preference * v.user_preference
overall_of(dimensions) == Weighted([d \in ScoreDimension |-> dimensions[d].score])
confidence_of(dimensions) == Weighted([d \in ScoreDimension |-> dimensions[d].confidence])

HARD_BLOCKER_CAP == 25000
MAX_ADJUSTMENT == 200

Blocked(missing) == \E m \in missing : m.severity = "hard"

\* The verdict from the thresholds given: a hard blocker caps the score and
\* means skip, and apply needs a good score and enough confidence in it.
Verdict(dimensions, missing, t) ==
    LET overall == overall_of(dimensions)
        confidence == confidence_of(dimensions)
    IN  [dimensions |-> dimensions, missing |-> missing, confidence |-> confidence,
         overall |-> IF Blocked(missing) THEN MinOf(overall, HARD_BLOCKER_CAP) ELSE overall,
         recommendation |->
            IF Blocked(missing) \/ overall < t.skip_below_score THEN "skip"
            ELSE IF overall >= t.minimum_fit_score /\ confidence >= t.minimum_evidence_confidence
            THEN "apply" ELSE "investigate"]

NoScore == [recommendation |-> "none"]

score_job(f, s) == Verdict(score_dimensions(f, s), missing_requirements(f, s), s)

\* The thresholds the pass after the model uses are its own, not the strategy's.
EnrichThresholds ==
    [skip_below_score |-> 30000, minimum_fit_score |-> 55000,
     minimum_evidence_confidence |-> 45000]

clamp_delta(delta) == MaxOf(-MAX_ADJUSTMENT, MinOf(MAX_ADJUSTMENT, delta))

\* An adjustment of an unknown name is skipped.
adjusted(dimensions, a) ==
    IF a.dimension \notin ScoreDimension THEN dimensions
    ELSE [dimensions EXCEPT ![a.dimension].score =
            MaxOf(0, MinOf(1000, @ + clamp_delta(a.delta)))]

\* The adjustments of the reply, one after the other.
apply_adjustments(dimensions, adjustments) ==
    LET after[n \in 0..Len(adjustments)] ==
            IF n = 0 THEN dimensions ELSE adjusted(after[n - 1], adjustments[n])
    IN  after[Len(adjustments)]

Replaced(existing, additions) == additions

\* The model may add requirements, of any severity, and remove none.
merge_missing(existing, additions) ==
    existing \cup {a \in additions : \A m \in existing : m.requirement # a.requirement}

enrich_score(score, reply) ==
    Verdict(apply_adjustments(score.dimensions, reply.adjustments),
            merge_missing(score.missing, reply.missing), EnrichThresholds)

FitInit ==
    fit \in [facts: Facts, strategy: Strategies, score: {NoScore}, baseline: {0},
             reply: {<<>>}, stage: {"new"}]

\* ScoringService._score_one: the deterministic score ...
ScoreJob ==
    /\ fit.stage = "new"
    /\ LET score == score_job(fit.facts, fit.strategy)
       IN  fit' = [fit EXCEPT !.score = score, !.baseline = score.overall, !.stage = "scored"]

\* ... and, when a model is asked, what it makes of it, ...
Enrich ==
    /\ fit.stage = "scored"
    /\ \E reply \in Replies :
          fit' = [fit EXCEPT !.score = enrich_score(fit.score, reply),
                             !.reply = reply.adjustments, !.stage = "enriched"]

\* ... or nothing of it when the call or the reply fails.
EnrichFails ==
    /\ fit.stage = "scored"
    /\ fit' = [fit EXCEPT !.stage = "not_enriched"]

FitNext == ScoreJob \/ Enrich \/ EnrichFails
FitSpec == FitInit /\ [][FitNext]_fit

-----------------------------------------------------------------------------
MayNotWork ==
    /\ fit.strategy.work_authorization_is_hard_blocker
    /\ \E i \in DOMAIN fit.facts.countries : fit.facts.countries[i] = "not_authorized"

PaysTooLittle == fit.strategy.compensation_strictness = "hard" /\ fit.facts.pay = "below"

NamedOnce(reply) == \A i, j \in DOMAIN reply : reply[i].dimension = reply[j].dimension => i = j

\* A posting the person may not work at, because a country of it is closed to them
\* or because it pays less than the floor they called hard, is recommended to be
\* skipped and its score stays below the cap, whatever else speaks for it and
\* whatever the model answers; and a model that names each dimension once moves no
\* score by more than the maximum adjustment, while a blocker it invents only lowers
\* the score (score_dimensions, _apply_adjustments, _merge_missing, _recompute).
ModelOnlyAdjusts ==
    /\ fit.stage # "new" /\ (MayNotWork \/ PaysTooLittle) =>
         fit.score.recommendation = "skip" /\ fit.score.overall <= HARD_BLOCKER_CAP
    /\ fit.stage = "enriched" /\ NamedOnce(fit.reply) =>
         /\ fit.score.overall <= fit.baseline + 100 * MAX_ADJUSTMENT
         /\ Blocked(fit.score.missing) \/ fit.score.overall >= fit.baseline - 100 * MAX_ADJUSTMENT
=============================================================================
