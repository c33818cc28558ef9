--------------------------- MODULE MCQuotaLayer ---------------------------
(* Model values and symmetries of the quota layer's runs. *)
EXTENDS QuotaLayer, TLC

Symmetric == Permutations(Tasks) \cup Permutations(Paths)
=============================================================================
