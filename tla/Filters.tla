------------------------------ MODULE Filters ------------------------------
(***************************************************************************)
(* A sequence without the elements of a set: what is left of a path once   *)
(* its empty and "." segments are dropped, and the events of one job among *)
(* those of all.  The proof system has no definition of SelectSeq; this    *)
(* one is a recursive function that can be reasoned about.                 *)
(***************************************************************************)
EXTENDS Integers, Sequences

Without(s, D) ==
  LET kept[n \in 0 .. Len(s)] ==
        IF n = 0 THEN <<>>
        ELSE IF s[n] \in D THEN kept[n - 1] ELSE Append(kept[n - 1], s[n])
  IN  kept[Len(s)]
=============================================================================
