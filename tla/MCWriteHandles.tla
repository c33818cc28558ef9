-------------------------- MODULE MCWriteHandles --------------------------
(* Model values and symmetries of the write handle runs. *)
EXTENDS WriteHandles, TLC

Symmetric == Permutations(Tasks) \cup Permutations(HandleIds)
=============================================================================
