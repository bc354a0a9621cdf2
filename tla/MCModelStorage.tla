---------------------------- MODULE MCModelStorage ----------------------------
(***************************************************************************)
(* Instances of ModelStorage for TLC: two jobs that may be for the same    *)
(* snapshot or for two of one artifact, and a store that may be moved.     *)
(***************************************************************************)
EXTENDS ModelStorage, TLC

(* Job ids are interchangeable: no CHOOSE is over them. *)
JobSymmetry == Permutations(Jobs)
=============================================================================
