----------------------- MODULE MCInferenceOperations -----------------------
(* Instances of InferenceOperations for TLC. *)
EXTENDS InferenceOperations, TLC

IdSymmetry == Permutations(OpIds)
=============================================================================
