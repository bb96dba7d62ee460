---------------------------- MODULE MCOrchestration ----------------------------
(* Instances of Orchestration for TLC. *)
EXTENDS Orchestration, TLC

CONSTANTS r1, r2

OneRun == {r1}
TwoRuns == {r1, r2}
RunSymmetry == Permutations(TwoRuns)
===============================================================================
