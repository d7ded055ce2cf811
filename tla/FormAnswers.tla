------------------------------ MODULE FormAnswers ------------------------------
(***************************************************************************)
(* What is typed into an application form: the questions the driver sees   *)
(* on the page, the policy that decides about each from the sensitivity of *)
(* the question and the profile's stored answers and claims, the drafts    *)
(* the attempt keeps, the interventions that ask the person, and the       *)
(* profile, which a re-import of the resume replaces under a running       *)
(* attempt. A question is its position on the page.                        *)
(***************************************************************************)
EXTENDS Naturals

CONSTANTS
    Questions,      \* how many questions the page has
    Sensitivities,  \* the sensitivity classes that occur
    Levels,         \* the assertion levels of stored answers and claims
    Citations,      \* which of the first two claims a stored answer may cite
    Overrides,      \* class -> authority; the drivers construct the policy with none
    Modes,          \* execution modes
    MaxVisits       \* bound: how often the driver opens the form

REVIEW_REQUIRED_CLASSES ==
    {"work_authorization", "compensation", "demographic", "disability", "veteran",
     "clearance", "background", "legal_attestation"}

\* No override lets a profile answer what it has no factual claim for.
ASSUME FormAssumption ==
    /\ Questions \in Nat \ {0} /\ MaxVisits \in Nat
    /\ Sensitivities \subseteq REVIEW_REQUIRED_CLASSES \cup {"ordinary"}
    /\ Citations \subseteq SUBSET {1, 2}
    /\ \A o \in Overrides : \A s \in DOMAIN o \cap REVIEW_REQUIRED_CLASSES :
          o[s] \notin {"always_answer", "reuse_approved"}

VARIABLE form
\* form.page[q]: the question; .overrides: those in force; .mode;
\* .defaults[q], .claims: the profile; .drafts[q]: attempt.answers;
\* .open: the question of the open intervention; .state: workflow_state;
\* .typed[q]: what the control of the open page holds; .visits: bound counter;
\* .vouched[q]: history, what the person or a factual claim ever stood behind

Question == 1..Questions
Nothing == "nothing"

FACTUAL_LEVELS == {"verified", "user_approved"}

\* Wording only: what an answer says is the source it came from.
Profile == "from the profile"
Declined == "[declined]"
Person == {"first answer", "second answer"}

DEFAULT_AUTHORITY(sensitivity) ==
    CASE sensitivity = "ordinary" -> "always_answer"
      [] sensitivity = "work_authorization" -> "answer_if_verified"
      [] sensitivity \in {"demographic", "disability", "veteran"} -> "decline_if_optional"
      [] sensitivity \in {"compensation", "clearance", "background", "legal_attestation"}
            -> "require_review"

authority_for(f, sensitivity) ==
    IF sensitivity \in DOMAIN f.overrides THEN f.overrides[sensitivity]
    ELSE DEFAULT_AUTHORITY(sensitivity)

\* Claims are numbered in the order of the ledger; a re-import numbers anew.
Claims == 1..3
NoClaim == [level |-> Nothing, superseded |-> FALSE]
Verified == [level |-> "verified", superseded |-> FALSE]
NoDefault == [level |-> Nothing, claim_ids |-> {}]

Present(f) == {c \in Claims : f.claims[c] # NoClaim}

\* The first claim of the ledger the stored answer cites.
claim_for(f, default) ==
    LET cited == default.claim_ids \cap Present(f)
    IN  IF cited = {} THEN NoClaim
        ELSE f.claims[CHOOSE c \in cited : \A d \in cited : c <= d]

Draft(answer, status) == [answer |-> answer, status |-> status]
NoDraft == Draft(Nothing, "none")

ready(default) == Draft(Profile, "ready")
review(default) ==
    IF default = NoDefault THEN Draft(Nothing, "needs_user") ELSE Draft(Profile, "needs_review")

AnyClaimWillDo(f, q) ==
    LET default == f.defaults[q]
        authority == authority_for(f, f.page[q].sensitivity)
    IN  CASE authority = "decline_if_optional" /\ ~f.page[q].required -> Draft(Declined, "ready")
          [] authority \in {"answer_if_verified", "always_answer"} /\ default # NoDefault
                -> ready(default)
          [] OTHER -> review(default)

\* QuestionnairePolicy.decide: the draft; it pauses unless the draft is ready.
decide(f, q) ==
    LET default == f.defaults[q]
        authority == authority_for(f, f.page[q].sensitivity)
        known == default # NoDefault
        answers ==
            CASE authority = "answer_if_verified" ->
                    known /\ claim_for(f, default).level \in FACTUAL_LEVELS
              [] authority = "reuse_approved" ->
                    known /\ default.level \in FACTUAL_LEVELS \cup {"preference"}
              [] authority = "always_answer" -> known /\ default.level # "model_suggestion"
              [] OTHER -> FALSE
    IN  IF authority = "never_answer" THEN Draft(Nothing, "needs_user")
        ELSE IF authority = "decline_if_optional" /\ ~f.page[q].required
        THEN Draft(Declined, "ready")
        ELSE IF answers THEN ready(default) ELSE review(default)

paused(f, q) == decide(f, q).status # "ready"

is_submittable(draft) == draft.status \in {"ready", "user_provided"} /\ draft.answer # Nothing

permitted_actions(mode) ==
    {"research"}
    \cup (IF mode = "research_only" THEN {} ELSE {"prepare_documents"})
    \cup (IF mode \in {"fill_no_submit", "autonomous_submit"}
          THEN {"open_browser", "fill_form", "upload_documents"} ELSE {})
    \cup (IF mode = "autonomous_submit" THEN {"submit"} ELSE {})

check(mode, action) == action \in permitted_actions(mode)

Redrafted(f, last) ==
    [q \in Question |-> IF q <= last THEN decide(f, q) ELSE f.drafts[q]]

\* What the visit leaves in attempt.answers once it looked at questions 1..last:
\* a question that has a draft keeps it.
Drafted(f, last) ==
    [q \in Question |->
        IF q <= last /\ f.drafts[q] = NoDraft THEN decide(f, q) ELSE f.drafts[q]]

Blank == [q \in Question |-> Nothing]

\* What is typed when the first n controls were reached.
Typed(drafts, n) ==
    [q \in Question |-> IF q <= n /\ is_submittable(drafts[q]) THEN drafts[q].answer ELSE Nothing]

\* What a factual claim stands behind, given the profile.
Backed(defaults, claims) ==
    {q \in Question : \E c \in defaults[q].claim_ids : claims[c].level \in FACTUAL_LEVELS}

\* The stored answers of the profile are any; its claims come from imports, and
\* from persons or models before.
FormInit ==
    \E page \in [Question -> [sensitivity: Sensitivities, required: BOOLEAN]],
       overrides \in Overrides, mode \in Modes,
       defaults \in [Question -> {NoDefault} \cup [level: Levels, claim_ids: Citations]],
       first \in [level: Levels, superseded: BOOLEAN] :
         LET claims == <<first, Verified, NoClaim>>
         IN  form = [page |-> page, overrides |-> overrides, mode |-> mode,
                     defaults |-> defaults, claims |-> claims,
                     drafts |-> [q \in Question |-> NoDraft], open |-> 0,
                     state |-> "pending", typed |-> Blank, visits |-> 0,
                     vouched |-> [q \in Question |->
                         IF q \in Backed(defaults, claims) THEN {Profile} ELSE {}]]

\* advance_questions: the page is read top down and the first question the
\* policy pauses on opens an intervention, whatever draft it already has.
StopsAt(f, q) == paused(f, q) /\ \A p \in 1..(q - 1) : ~paused(f, p)
Visit == form.state = "pending" /\ form.visits < MaxVisits

QuestionAsked ==
    /\ Visit
    /\ \E q \in Question :
         /\ StopsAt(form, q)
         /\ form' = [form EXCEPT !.drafts = Drafted(form, q), !.open = q,
                                 !.state = "waiting_for_human", !.typed = Blank,
                                 !.visits = @ + 1]

\* No question pauses: the mode is checked, every control with a submittable
\* draft is filled, and the submit control is used, left alone or absent.
FormFilled ==
    /\ Visit
    /\ \A q \in Question : ~paused(form, q)
    /\ check(form.mode, "fill_form")
    /\ \E outcome \in {"continued", "completed", "clicked"} :
         /\ outcome = "clicked" => check(form.mode, "submit")
         /\ outcome = "completed" => ~check(form.mode, "submit")
         /\ LET drafts == Drafted(form, Questions)
            IN  form' = [form EXCEPT !.drafts = drafts, !.typed = Typed(drafts, Questions),
                                     !.state = outcome, !.visits = @ + 1]

\* A control cannot be filled, or the mode forbids filling: the error leaves the
\* run, and nothing the visit decided is saved.
FillingFails ==
    /\ Visit
    /\ \A q \in Question : ~paused(form, q)
    /\ \E n \in 0..(Questions - 1) :
         /\ n > 0 => check(form.mode, "fill_form")
         /\ form' = [form EXCEPT !.typed = Typed(Drafted(form, Questions), n),
                                 !.visits = @ + 1]

\* The person answers the question that was asked, in the inbox.
Answer ==
    /\ form.state = "waiting_for_human"
    /\ \E answer \in Person :
         form' = [form EXCEPT !.drafts[form.open] = Draft(answer, "user_provided"),
                              !.vouched[form.open] = @ \cup {answer},
                              !.open = 0, !.state = "pending"]

\* The person closes the question without an answer, or gives up.
Done ==
    /\ form.state = "waiting_for_human"
    /\ \E state \in {"pending", "cancelled"} :
         form' = [form EXCEPT !.open = 0, !.state = state]

\* The ledger an import derives from the resume: every claim is verified, and new.
import_json_resume == [c \in Claims |-> IF c = 3 THEN Verified ELSE NoClaim]

\* The resume is imported again: the stored answers stay and keep the old ids.
Reimport ==
    /\ form.claims[3] = NoClaim
    /\ form' = [form EXCEPT !.claims = import_json_resume]

FormNext == QuestionAsked \/ FormFilled \/ FillingFails \/ Answer \/ Done \/ Reimport

FormSpec == FormInit /\ [][FormNext]_form

-----------------------------------------------------------------------------
\* A control is only filled in a mode that allows it, and the control of a
\* sensitive question only ever holds what the person answered to it, a decline of
\* an optional question, or a stored answer a factual claim stood behind; although
\* drafts outlive the profile they were made from and fields are filled one by one
\* (QuestionnairePolicy, advance_questions, apply_ready_answers).
TypedIsVouchedFor ==
    \A q \in Question : form.typed[q] # Nothing =>
        /\ check(form.mode, "fill_form")
        /\ form.page[q].sensitivity \in REVIEW_REQUIRED_CLASSES =>
              \/ form.typed[q] \in form.vouched[q]
              \/ form.typed[q] = Declined /\ ~form.page[q].required

\* What the person answered is not overwritten by the policy, however often the
\* form is opened again and whatever becomes of the profile: only another answer
\* of the person replaces it (runner.advance_questions, AttemptService.resolve).
PersonsAnswerStands ==
    [][\A q \in Question :
          form.drafts[q].status = "user_provided" =>
             \/ form'.drafts[q] = form.drafts[q]
             \/ form'.drafts[q].status = "user_provided" /\ form.open = q]_form

\* A question the person answered is not asked again ("7. on resolution, requeue
\* the workflow from the checkpoint", docs/execution-architecture.md:367): the
\* policy is asked about the profile alone, so it pauses on the same question at
\* every visit.
AnsweredIsNotAskedAgain ==
    form.open # 0 => form.drafts[form.open].status # "user_provided"
=============================================================================
