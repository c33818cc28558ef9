--------------------------- MODULE MCReadHandles ---------------------------
(* Instances of the read handles. *)
EXTENDS ReadHandles, TLC

\* Nothing but reads and writes through write handles.
WritersNext ==
  \/ \E r \in Readers : Start(r) \/ ReadStep(r)
  \/ \E w \in Writers : WriteStarts(w) \/ Write(w)

WritersSpec == Init /\ [][WritersNext]_vars
=============================================================================
