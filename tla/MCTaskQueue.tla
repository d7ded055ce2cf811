---------------------------- MODULE MCTaskQueue ----------------------------
(* Small instances of TaskQueue for TLC. *)
EXTENDS TaskQueue, TLC

CONSTANTS w1, w2, t1, t2, c1, c2, k1, k2

\* One error per outcome of decide: parked, refused, transient, drifted.
MCFailures ==
    {ErrorOf(c) : c \in {"needs_human", "policy_refused", "transient_network",
                          "extraction_drift"}}

\* Parked or refused only.
MCHardFailures == {ErrorOf("needs_human"), ErrorOf("policy_refused")}

NoStrategies == << >>
TwoStrategies == << "api", "browser" >>
=============================================================================
