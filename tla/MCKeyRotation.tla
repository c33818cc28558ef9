--------------------------- MODULE MCKeyRotation ---------------------------
(* KeyRotation on a small instance. *)
EXTENDS KeyRotation, TLC

Symmetric == Permutations(Points) \cup Permutations(Targets) \cup Permutations(Passwords)

\* Every point is configured, and its repository opens with that key only.
OpenInit ==
  /\ RotationInit
  /\ \A p \in Points : Opens(p) /\ keys[db[p].target] = {db[p].pw}

OpenSpec == OpenInit /\ [][RotationNext]_rotationVars
=============================================================================
