---------------------------- MODULE MCEventBus ----------------------------
(* Model values and symmetries of the event bus runs. *)
EXTENDS EventBus

JobSymmetry == Permutations(Jobs)
=============================================================================
