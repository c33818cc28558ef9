---------------------------- MODULE MCVfsCache ----------------------------
(* Model values and symmetries of the operator cache's runs. *)
EXTENDS VfsCache, TLC

TaskSymmetry == Permutations(Tasks)
=============================================================================
