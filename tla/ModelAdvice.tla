---------------------------- MODULE ModelAdvice ----------------------------
(***************************************************************************)
(* What a model is asked for on the way to an application: to adjust the   *)
(* score of a posting, and to put the bullets of a resume in other words.  *)
(* The two are asked independently of each other.                          *)
(***************************************************************************)
EXTENDS FitScoring, ResumeTailor

ModelSpec == FitSpec /\ TailorSpec

\* What a model answers changes no fact, neither of a posting nor of a resume
\* (FitScoreEnricher.enrich_score, ResumeTailor.tailor, FabricationGuard.check).
ModelChangesNoFact == ModelOnlyAdjusts /\ NothingIsInvented
=============================================================================
