--------------------------- MODULE MCMountTable ---------------------------
(* The points of the mount-table run: three ids, of which the last two are alike when shortened. *)
EXTENDS MountTable, TLC

ThreeIds == <<"i1", "i2", "i3">>
=============================================================================
