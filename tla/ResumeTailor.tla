---------------------------- MODULE ResumeTailor ----------------------------
(***************************************************************************)
(* A resume tailored to one job: the person's own roles and bullets put in *)
(* order and selected, bullets rewritten by a model and spliced back in,   *)
(* and the guard every resume passes before it is used.                    *)
(*                                                                         *)
(* A bullet is what the guard and the ordering tell apart: how well it     *)
(* fits the job, the numbers in it, whether it names a technology the      *)
(* profile does not, and whether it uses a banned phrase.                  *)
(***************************************************************************)
EXTENDS Integers, SequencesExt, FiniteSetsExt

CONSTANTS
    People,        \* career profiles: the resume and the values of the metric ledger
    Wordings,      \* what a model may write in place of a bullet
    Others,        \* resumes from elsewhere that are checked against a profile
    MaxRewrites    \* bound on the bullets a model writes anew

\* A resume of one's own: roles with their bullets, schools and certificates.
Bullets == [fit: Nat, numbers: SUBSET [value: Nat, unit: STRING], tech: BOOLEAN, banned: BOOLEAN]
Roles == [name: STRING, startDate: STRING, highlights: Seq(Bullets)]
Resumes == [work: Seq(Roles), schools: SUBSET STRING, certificates: SUBSET STRING, banned: BOOLEAN]

ASSUME TailorAssumption == \A p \in People : p.resume \in Resumes /\ p.metrics \subseteq Nat

VARIABLE tailoring
\* tailoring.profile, .stage, .resume and .report: the outcome; .used_llm

MAX_HIGHLIGHTS_PER_ROLE == 4

-----------------------------------------------------------------------------
(* The guard. *)

\* _NUMBER_RE finds a number from two digits on, with or without a unit.
Found(n) == n.value >= 10
\* A value is compared with six significant digits and without its unit.
SixDigits == 999999
Normalised(v) ==
    LET tens == v \div 10
        up == v % 10 > 5 \/ (v % 10 = 5 /\ tens % 2 = 1)
    IN  IF v <= SixDigits THEN v ELSE 10 * (IF up THEN tens + 1 ELSE tens)
Years == 1000..9999
YearInAnyUnit(n) == n.value \in Years   \* mutant: the unit is not looked at
Year(n) == n.unit = "none" /\ n.value \in Years
InLedger(p, n) == \E v \in p.metrics : Normalised(v) = Normalised(n.value)

Violation(severity, kind, work) == [severity |-> severity, kind |-> kind, work |-> work]

\* The first role at the employer is taken for the role, whichever it is.
Canonical(p, work) ==
    SelectInSeq(p.resume.work, LAMBDA own : own.name = work.name)

WorkViolations(p, work, w) ==
    LET i == Canonical(p, work)
        bullets == Range(work.highlights)
        Differs(own) == own.startDate # work.startDate /\ "none" \notin {own.startDate, work.startDate}
    IN  (IF work.name # "none" /\ i = 0 THEN {Violation("hard", "unknown_employer", w)} ELSE {})
        \cup (IF work.name # "none" /\ i # 0 /\ Differs(p.resume.work[i])
              THEN {Violation("hard", "altered_date", w)} ELSE {})
        \cup (IF \E b \in bullets : b.tech
              THEN {Violation("soft", "unknown_technology", w)} ELSE {})

\* With nothing in the ledger no number is looked at.
InventedMetric(p, bullet) ==
    \E n \in bullet.numbers :
        p.metrics # {} /\ Found(n) /\ ~InLedger(p, n) /\ ~Year(n)

BulletsOf(resume) == UNION {Range(work.highlights) : work \in Range(resume.work)}

\* In the summary or in a bullet.
BannedPhrase(resume) == resume.banned \/ \E b \in BulletsOf(resume) : b.banned

check(p, resume) ==
    (UNION {WorkViolations(p, resume.work[w], w) : w \in DOMAIN resume.work})
    \cup {Violation("hard", "invented_metric", w) :
             w \in {x \in DOMAIN resume.work :
                       \E b \in Range(resume.work[x].highlights) : InventedMetric(p, b)}}
    \cup (IF resume.schools \subseteq p.resume.schools THEN {}
          ELSE {Violation("hard", "unknown_institution", 0)})
    \cup (IF resume.certificates \subseteq p.resume.certificates THEN {}
          ELSE {Violation("soft", "unknown_certification", 0)})
    \cup (IF BannedPhrase(resume) THEN {Violation("soft", "banned_phrase", 0)} ELSE {})

ok(report) == \A v \in report : v.severity # "hard"

-----------------------------------------------------------------------------
(* The deterministic resume, and the rewritten one. *)

\* The highest key first, keys[i] being that of s[i]; equal keys stay in their order:
\* an element's place is after those that come before it.
BestFirst(s, keys) ==
    LET Before(i, j) == keys[i] > keys[j] \/ (keys[i] = keys[j] /\ i < j)
        Place(i) == Cardinality({j \in DOMAIN s : Before(j, i)}) + 1
    IN  [k \in DOMAIN s |-> s[CHOOSE i \in DOMAIN s : Place(i) = k]]

BulletFits(work) == [i \in DOMAIN work.highlights |-> work.highlights[i].fit]
WorkFit(work) ==
    LET sum[n \in 0..Len(work.highlights)] ==
            IF n = 0 THEN 0 ELSE sum[n - 1] + work.highlights[n].fit
    IN  sum[Len(work.highlights)]

FirstHighlights(work) ==   \* mutant: the bullets are not ordered
    SubSeq(work.highlights, 1, Min({Len(work.highlights), MAX_HIGHLIGHTS_PER_ROLE}))
SelectedHighlights(work) ==
    LET best == BestFirst(work.highlights, BulletFits(work))
    IN  SubSeq(best, 1, Min({Len(best), MAX_HIGHLIGHTS_PER_ROLE}))

deterministic(p) ==
    LET work == p.resume.work
        selected == [w \in DOMAIN work |->
                       [work[w] EXCEPT !.highlights = SelectedHighlights(work[w])]]
    IN  [p.resume EXCEPT !.work = BestFirst(selected, [w \in DOMAIN work |-> WorkFit(selected[w])])]

\* The number of bullets in the roles before w.
Cursor(resume, w) ==
    MapThenSumSet(LAMBDA v : Len(resume.work[v].highlights), 1..(w - 1))

\* A bullet is sent under the number of its role, and what comes back is read as
\* under the number of the bullet in the resume: rewrites[id] is put where the
\* bullet id is, whichever it was written for.
llm_rewrite(resume, rewrites) ==
    [resume EXCEPT !.work =
        [w \in DOMAIN resume.work |->
            [resume.work[w] EXCEPT !.highlights =
                [i \in DOMAIN resume.work[w].highlights |->
                    LET id == Cursor(resume, w) + i - 1
                    IN  IF id \in DOMAIN rewrites THEN rewrites[id]
                        ELSE resume.work[w].highlights[i]]]]]

-----------------------------------------------------------------------------
Result(resume, used_llm) ==
    [tailoring EXCEPT !.stage = "done", !.resume = resume, !.used_llm = used_llm,
                      !.report = check(tailoring.profile, resume)]
Fallback == Result(deterministic(tailoring.profile), FALSE)

\* No model is asked: none is configured, or the caller does not allow it.
TailorAlone == tailoring.stage = "new" /\ tailoring' = Fallback

AskModel ==
    /\ tailoring.stage = "new"
    /\ tailoring' = [tailoring EXCEPT !.stage = "asked",
                                      !.resume = deterministic(tailoring.profile)]

RewriteFails == tailoring.stage = "asked" /\ tailoring' = Fallback

\* A rewrite the guard refuses is discarded as a whole.
Rewritten(rewrites) ==
    LET rewritten == llm_rewrite(tailoring.resume, rewrites)
    IN  /\ tailoring.stage = "asked"
        /\ tailoring' = IF ok(check(tailoring.profile, rewritten))
                        THEN Result(rewritten, TRUE) ELSE Fallback

\* The guard is asked of a resume that was written elsewhere.
CheckOther(resume) ==
    /\ tailoring.stage = "new"
    /\ tailoring' = [Result(resume, FALSE) EXCEPT !.stage = "checked"]

TailorInit ==
    \E p \in People :
        tailoring = [profile |-> p, stage |-> "new", resume |-> p.resume, report |-> {},
                     used_llm |-> FALSE]

TailorNext ==
    \/ TailorAlone \/ AskModel \/ RewriteFails
    \/ \E n \in 0..MaxRewrites :
        \E ids \in kSubset(n, 0..(Cursor(tailoring.resume, Len(tailoring.resume.work) + 1) - 1)) :
        \E rewrites \in [ids -> Wordings] : Rewritten(rewrites)
    \/ \E resume \in Others : CheckOther(resume)

TailorSpec == TailorInit /\ [][TailorNext]_tailoring

-----------------------------------------------------------------------------
(* What a reader of the resume may rely on. *)

NumbersIn(resume) == UNION {b.numbers : b \in BulletsOf(resume)}

\* The numbers a reader takes for a claim: of two to six digits, and no year.
Claims(resume) ==
    {n \in NumbersIn(resume) :
        n.value \in 10..SixDigits /\ ~(n.unit = "none" /\ n.value \in Years)}

\* A role without a name is not looked at, nor a date where either has none.
OwnRole(p, work) ==
    work.name = "none" \/ \E own \in Range(p.resume.work) :
        /\ own.name = work.name
        /\ own.startDate = work.startDate \/ "none" \in {own.startDate, work.startDate}

\* What is left out of a role fits the job no better than what is kept.
KeepsTheBest(p, resume) ==
    \A work \in Range(resume.work) :
        \E own \in Range(p.resume.work) :
            /\ own.name = work.name /\ own.startDate = work.startDate
            /\ Range(work.highlights) \subseteq Range(own.highlights)
            /\ Len(work.highlights) = Min({Len(own.highlights), MAX_HIGHLIGHTS_PER_ROLE})
            /\ \A kept \in Range(work.highlights),
                  left \in Range(own.highlights) \ Range(work.highlights) :
                  kept.fit >= left.fit

\* A tailored resume has every role of the profile, at its employer and from its date,
\* and no other; where no model wrote, it is the best of the person's own bullets, and
\* where one did, or a resume the guard passes was written elsewhere, it has no employer,
\* school or date the profile has not, and no number of two to six digits, years aside,
\* the ledger has not, if there is a ledger, whatever the model answered (ResumeTailor.tailor, FabricationGuard.check).
NothingIsInvented ==
    LET p == tailoring.profile
        resume == tailoring.resume
    IN  /\ tailoring.stage = "done" =>
             /\ Len(resume.work) = Len(p.resume.work)
             /\ \A own \in Range(p.resume.work) :
                  \E work \in Range(resume.work) :
                     own.name = work.name /\ own.startDate = work.startDate
             /\ tailoring.used_llm \/ KeepsTheBest(p, resume)
        /\ tailoring.used_llm \/ (tailoring.stage = "checked" /\ ok(tailoring.report)) =>
             /\ \A work \in Range(resume.work) : OwnRole(p, work)
             /\ resume.schools \subseteq p.resume.schools
             /\ p.metrics # {} => \A n \in Claims(resume) : n.value \in p.metrics
=============================================================================
