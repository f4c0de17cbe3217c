------------------------- MODULE MCAnalysisPipeline -------------------------
(* AnalysisPipeline for TLC: the symmetry of its interchangeable processes. *)
EXTENDS AnalysisPipeline, TLC

ProcessSymmetry == Permutations(Controllers) \cup Permutations(Workers)
=============================================================================
