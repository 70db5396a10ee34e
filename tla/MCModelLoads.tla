---------------------------- MODULE MCModelLoads ----------------------------
(***************************************************************************)
(* Small configurations of ModelLoads for TLC: its models are alike.       *)
(***************************************************************************)
EXTENDS ModelLoads, TLC

Symmetry == Permutations(Models)
=============================================================================
