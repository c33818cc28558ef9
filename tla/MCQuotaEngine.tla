--------------------------- MODULE MCQuotaEngine ---------------------------
(* Model values and the symmetry of the quota engine's runs. *)
EXTENDS QuotaEngine, TLC

ThreadSymmetry == Permutations(Threads)
=============================================================================
