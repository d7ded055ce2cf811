-------------------------- MODULE ApplicationStates --------------------------
(***************************************************************************)
(* The hiring-process side of an application: the states and the           *)
(* transition table of core/models/application.py, and the two walks over  *)
(* the table that services make on their own.  Pure operators, no state.   *)
(***************************************************************************)
EXTENDS Integers, Sequences

ApplicationState ==
    { "discovered", "evaluating", "skipped", "shortlisted", "preparing",
      "ready", "applying", "submitted", "confirmed", "recruiter_contact",
      "assessment", "interview", "follow_up", "rejected", "withdrawn",
      "offer", "accepted", "closed", "failed", "needs_attention" }

\* An application exists at the employer.
SUBMITTED_STATES ==
    { "submitted", "confirmed", "recruiter_contact", "assessment",
      "interview", "follow_up", "offer", "accepted" }

\* Where the employer is in charge: the common targets once submitted.
Answers == {"rejected", "withdrawn", "closed", "follow_up"}

TRANSITIONS ==
    [ s \in ApplicationState |->
        CASE s = "discovered"  -> {"evaluating", "skipped", "shortlisted", "failed", "closed"}
          [] s = "evaluating"  -> {"shortlisted", "skipped", "needs_attention", "failed", "closed"}
          [] s = "skipped"     -> {"evaluating", "shortlisted", "closed"}
          [] s = "shortlisted" -> {"preparing", "skipped", "withdrawn", "failed", "closed"}
          [] s = "preparing"   -> {"ready", "needs_attention", "failed", "withdrawn", "skipped"}
          [] s = "ready"       -> {"applying", "preparing", "withdrawn", "failed", "skipped"}
          [] s = "applying"    -> {"submitted", "needs_attention", "failed", "ready", "withdrawn"}
          [] s = "submitted"   -> Answers \cup {"confirmed", "recruiter_contact", "assessment",
                                                "interview", "needs_attention"}
          [] s = "confirmed"   -> Answers \cup {"recruiter_contact", "assessment", "interview"}
          [] s = "recruiter_contact" -> Answers \cup {"assessment", "interview"}
          [] s = "assessment"  -> Answers \cup {"interview", "needs_attention"}
          [] s = "interview"   -> Answers \cup {"interview", "offer", "assessment"}
          [] s = "follow_up"   -> (Answers \ {"follow_up"}) \cup
                                  {"interview", "assessment", "recruiter_contact", "offer"}
          [] s = "offer"       -> Answers \cup {"accepted"}
          [] s \in {"accepted", "withdrawn"} -> {"closed"}
          [] s = "rejected"    -> {"closed", "follow_up"}
          [] s = "closed"      -> {}
          [] s = "failed"      -> {"needs_attention", "shortlisted", "preparing", "ready",
                                   "applying", "closed"}
          [] s = "needs_attention" -> {"evaluating", "shortlisted", "preparing", "ready",
                                       "applying", "submitted", "skipped", "withdrawn",
                                       "failed", "closed"} ]

can_transition(current, target) ==
    current = target \/ target \in TRANSITIONS[current]

\* The hops of _advance_to_applying.
ApplyingPath == << "shortlisted", "preparing", "ready", "applying" >>

\* _advance_to_applying: nothing to do when already applying; otherwise take
\* the hops in order and stop at the first one the table refuses.
advance_to_applying(s) ==
    LET Before(i) == IF i = 1 THEN s ELSE ApplyingPath[i - 1]
        legal == {n \in 0 .. Len(ApplyingPath) :
                    \A i \in 1 .. n : can_transition(Before(i), ApplyingPath[i])}
        hops == CHOOSE n \in legal : \A m \in legal : m <= n
    IN  IF s = "applying" \/ hops = 0 THEN s ELSE ApplyingPath[hops]

FailureEarnsToo(workflow) ==            \* mutant: a failed attempt earns SUBMITTED
    IF workflow \in {"completed", "failed"} THEN << "submitted" >> ELSE << >>

\* _TERMINAL_TO_APPLICATION: what a terminal attempt can earn, best first.
TerminalToApplication(workflow) ==
    CASE workflow = "completed" -> << "submitted" >>
      [] workflow = "cancelled" -> << "withdrawn", "skipped" >>
      [] OTHER -> << >>

\* _reconcile_application: the first candidate the table allows, or no change.
reconcile(s, workflow) ==
    LET candidates == TerminalToApplication(workflow)
        legal == {i \in DOMAIN candidates : can_transition(s, candidates[i])}
    IN  IF legal = {} THEN s
        ELSE candidates[CHOOSE i \in legal : \A j \in legal : i <= j]
=============================================================================
