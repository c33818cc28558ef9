---------------------------- MODULE MCTransfer ----------------------------
(* The transfer run; its model values are in Transfer.cfg. *)
EXTENDS Transfer, TLC
=============================================================================
