--------------------------- MODULE RecoveryPolicy ---------------------------
(***************************************************************************)
(* The self-healing policy of tasks/recovery.py: what the queue does with  *)
(* a task whose attempt has just failed.  Pure operators, no state.        *)
(*                                                                         *)
(* An error is [category, recovery]: the FailureCategory and the           *)
(* RecoveryHint that core/errors.py attaches to an ApplyuminatiError.      *)
(* Delays are left out: they only reach scheduled_for of a RETRYING row,   *)
(* which no query reads (see TaskQueue).                                   *)
(***************************************************************************)
EXTENDS Naturals, Sequences

FailureCategory ==
    { "extraction_drift", "endpoint_unavailable", "transient_network",
      "rate_limited", "auth_required", "automation_blocked",
      "human_challenge", "backend_unavailable", "invalid_model_output",
      "resource_gone", "duplicate_action", "configuration", "storage",
      "needs_human", "policy_refused", "unknown" }

RecoveryHint ==
    { "retry", "retry_after_backoff", "try_alternative_strategy", "degrade",
      "escalate_to_user", "abort" }

DEFAULT_RECOVERY ==
    [ c \in FailureCategory |->
        CASE c \in {"extraction_drift", "endpoint_unavailable",
                    "automation_blocked"}          -> "try_alternative_strategy"
          [] c \in {"transient_network", "rate_limited"}
                                                   -> "retry_after_backoff"
          [] c = "backend_unavailable"             -> "degrade"
          [] c = "invalid_model_output"            -> "retry"
          [] c \in {"resource_gone", "duplicate_action", "storage",
                    "policy_refused"}              -> "abort"
          [] OTHER                                 -> "escalate_to_user" ]

\* An ApplyuminatiError raised without an explicit recovery hint.
ErrorOf(category) ==
    [category |-> category, recovery |-> DEFAULT_RECOVERY[category]]

Error == [category : FailureCategory, recovery : RecoveryHint]

BLOCKING_CATEGORIES == {"auth_required", "human_challenge", "needs_human"}

TERMINAL_CATEGORIES ==
    {"resource_gone", "duplicate_action", "policy_refused", "storage",
     "configuration"}

STRATEGY_CATEGORIES ==
    {"extraction_drift", "automation_blocked", "endpoint_unavailable",
     "backend_unavailable"}

MAX_INVALID_OUTPUT_ATTEMPTS == 2

\* The states decide may return.
DECIDABLE_STATES == {"retrying", "failed", "blocked"}

\* No strategy left, or the kind registers none: Python's None.
NoStrategy == "none"

\* The first entry of the sequence `available` that is not in the set
\* `attempted`.
next_strategy(available, attempted) ==
    LET fresh == {i \in DOMAIN available : available[i] \notin attempted}
    IN  IF fresh = {} THEN NoStrategy
        ELSE available[CHOOSE i \in fresh : \A j \in fresh : i <= j]

strategy_decision(alternative) ==
    IF alternative = NoStrategy THEN "failed" ELSE "retrying"

hint_rule(error, alternative) ==
    CASE error.recovery \in {"retry", "retry_after_backoff"} -> "retrying"
      [] error.recovery \in {"try_alternative_strategy", "degrade"}
            -> strategy_decision(alternative)
      [] error.recovery = "escalate_to_user" -> "blocked"
      [] OTHER -> "failed"

\* RecoveryDecision.action for a task with `count` recorded attempts out of
\* `max`, after `error`.  The order of the rules is the order of the code:
\* hard rules, the loop guard, category rules, then the hint.
decide(count, max, attempted, error, available) ==
    LET alternative == next_strategy(available, attempted)
    IN  IF error.category \in BLOCKING_CATEGORIES THEN "blocked"
        ELSE IF error.category \in TERMINAL_CATEGORIES THEN "failed"
        ELSE IF count >= max THEN "failed"
        ELSE IF error.category \in STRATEGY_CATEGORIES
             THEN strategy_decision(alternative)
        ELSE IF error.category = "invalid_model_output"
             THEN IF count >= MAX_INVALID_OUTPUT_ATTEMPTS THEN "failed" ELSE "retrying"
        ELSE IF error.category = "rate_limited" THEN "retrying"
        ELSE hint_rule(error, alternative)
=============================================================================
