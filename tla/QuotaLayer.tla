---------------------------- MODULE QuotaLayer ----------------------------
(***************************************************************************)
(* The I/O side of crates/opendal-vfs/src/layers/quota.rs: QuotaWriter,    *)
(* QuotaCopier, QuotaDeleter and QuotaAccessor::rename over one backend    *)
(* and one quota id.  They stage, look at sizes, commit to the counter,    *)
(* rename into place, roll back and clean up, one await after the other,   *)
(* while other operations do the same.                                     *)
(*                                                                         *)
(* A commit is one step: QuotaEngine implements the atomic ledger.  An     *)
(* object is its size; 0 also stands for no object.  A staging object is   *)
(* an object like any other, and stays behind when its removal fails or    *)
(* the operation ends without trying.                                      *)
(***************************************************************************)
EXTENDS Integers, FiniteSets, Functions

CONSTANTS Paths,         \* objects of the backend
          Tasks,         \* operations in progress
          MaxSize,       \* the largest object written
          Limit,         \* the layer's limit
          U64Max,        \* u64::MAX
          Ops,           \* the operations callers use
          SharedPaths,   \* callers may work on one path at the same time
          StatMayFail,   \* stat may fail on an object that exists
          RenameMayFail, \* the backend's rename and delete may fail
          MaxUncounted   \* bound on the bytes that go uncounted

ASSUME LayerAssumption ==
  /\ IsFiniteSet(Paths) /\ Paths # {} /\ IsFiniteSet(Tasks)
  /\ U64Max \in Nat /\ Limit \in 0 .. U64Max /\ MaxSize \in 0 .. U64Max
  /\ MaxUncounted \in Nat
  /\ Ops \subseteq {"write", "copy", "delete", "rename"}
  /\ SharedPaths \in BOOLEAN /\ StatMayFail \in BOOLEAN /\ RenameMayFail \in BOOLEAN

VARIABLES size,    \* size[f]: the bytes stored at f
          total,   \* the id's running total
          loaded,  \* its bucket has been loaded (a load may fail, a loaded bucket does not)
          pc,      \* pc[t]: where operation t is
          from,    \* from[t]: the source of a copy, else the path itself
          to,      \* to[t]: the path written, copied to or deleted
          tmp,     \* tmp[t]: `tmp_path`, `tmp_to`; a delete stages nothing and has to[t] here
          old,     \* old[t]: `old_size`, `to_size` or the size to release
          new,     \* new[t]: `written` or `from_size`
          uncounted  \* history: the bytes that operations left stored and out of the total

fileVars == <<size, total, loaded, uncounted>>
vars == <<size, total, loaded, pc, from, to, tmp, old, new, uncounted>>

\* Where an operation can be: before its commit with an object staged,
\* between its commit and the object being in place, or deleting.
Staged == {"close", "from_size", "to_size", "commit"}
Committed == {"rename", "rename_again", "rollback"}
Labels == {"idle", "delete_size", "delete", "release"} \cup Staged \cup Committed

SomePath == CHOOSE f \in Paths : TRUE
SatSub(a, b) == IF a > b THEN a - b ELSE 0
SatAdd(a, b) == IF a + b > U64Max THEN U64Max ELSE a + b

Init ==
  /\ size = [f \in Paths |-> 0]
  /\ total = 0
  /\ loaded = FALSE
  /\ pc = [t \in Tasks |-> "idle"]
  /\ from = [t \in Tasks |-> SomePath]
  /\ to = [t \in Tasks |-> SomePath]
  /\ tmp = [t \in Tasks |-> SomePath]
  /\ old = [t \in Tasks |-> 0]
  /\ new = [t \in Tasks |-> 0]
  /\ uncounted = 0

Goto(t, label) == pc' = [pc EXCEPT ![t] = label]

\* The operation is over and its locals are gone.
Return(t) ==
  /\ Goto(t, "idle")
  /\ from' = [from EXCEPT ![t] = SomePath]
  /\ to' = [to EXCEPT ![t] = SomePath]
  /\ tmp' = [tmp EXCEPT ![t] = SomePath]
  /\ old' = [old EXCEPT ![t] = 0]
  /\ new' = [new EXCEPT ![t] = 0]

\* Nobody else works on the paths, unless callers share them; nobody has a
\* reason to touch the staging object of an operation under way.
Staging(t) == pc[t] \in Staged \cup Committed
Free(t, fs) ==
  \A u \in Tasks \ {t} : pc[u] # "idle" =>
    /\ Staging(u) => tmp[u] \notin fs
    /\ ~ SharedPaths => {from[u], to[u], tmp[u]} \cap fs = {}

\* tmp_path_for: a path nobody has used.
Fresh(t, h) ==
  /\ size[h] = 0
  /\ \A u \in Tasks \ {t} : pc[u] # "idle" => h \notin {from[u], to[u], tmp[u]}

Begin(t, op, f, g, h, label) ==
  /\ op \in Ops
  /\ pc[t] = "idle"
  /\ Free(t, {f, g})
  /\ Goto(t, label)
  /\ from' = [from EXCEPT ![t] = f]
  /\ to' = [to EXCEPT ![t] = g]
  /\ tmp' = [tmp EXCEPT ![t] = h]
  /\ UNCHANGED <<total, loaded, old, new, uncounted>>

\* size_of: the size, or 0 when stat fails.
SizeOf(f) == {size[f]} \cup (IF StatMayFail THEN {0} ELSE {})

\* n more bytes stored that no commit has counted.
Uncount(n) ==
  /\ n = 0 \/ uncounted + n <= MaxUncounted
  /\ uncounted' = uncounted + n

\* The operation ends and k bytes of its staging object stay: the clean-up
\* failed (best_effort_remove swallows that) or was not reached.
Leave(t, k) ==
  /\ size' = [size EXCEPT ![tmp[t]] = k]
  /\ Uncount(k)
  /\ Return(t)

-----------------------------------------------------------------------------
(* QuotaWriter and QuotaCopier. *)

\* n bytes are written to, or copied into, a staging object h.
Stage(t, op, f, g, h, label, n) ==
  /\ Fresh(t, h) /\ h \notin {f, g}
  /\ Begin(t, op, f, g, h, label)
  /\ size' = [size EXCEPT ![h] = n]

Write(t, f, h, n) == Stage(t, "write", f, f, h, "close", n)

Copy(t, f, g, h) == Stage(t, "copy", f, g, h, "from_size", size[f])

\* `abort`, a failed inner close or abort, which return at once, or a client
\* that is gone before close: some part of the staging object may stay.
Abort(t) ==
  /\ pc[t] \in {"close", "from_size"}
  /\ \E k \in 0 .. size[tmp[t]] : Leave(t, k)
  /\ UNCHANGED <<total, loaded>>

\* The client goes away and the future of close is dropped at an await: the
\* staging object stays, and a commit stands though nothing was put in place.
Cancel(t) ==
  /\ pc[t] \in Staged \cup {"rename", "rename_again"}
  /\ Uncount(size[tmp[t]] + IF pc[t] \in Committed THEN SatSub(old[t], new[t]) ELSE 0)
  /\ Return(t)
  /\ UNCHANGED <<size, total, loaded>>

\* The size of a copy's source; where stat fails, the copy counts nothing.
FromSize(t) ==
  /\ pc[t] = "from_size"
  /\ \E s \in SizeOf(from[t]) :
       /\ s < size[tmp[t]] => uncounted + size[tmp[t]] - s <= MaxUncounted
       /\ new' = [new EXCEPT ![t] = s]
  /\ Goto(t, "to_size")
  /\ UNCHANGED <<fileVars, from, to, tmp, old>>

\* The size to be replaced; a writer knows what it has written.
ToSize(t) ==
  /\ pc[t] \in {"close", "to_size"}
  /\ \E s \in SizeOf(to[t]) : old' = [old EXCEPT ![t] = s]
  /\ new' = IF pc[t] = "close" THEN [new EXCEPT ![t] = size[tmp[t]]] ELSE new
  /\ Goto(t, "commit")
  /\ UNCHANGED <<fileVars, from, to, tmp>>

\* Mutant: the total does not saturate at zero.
AfterUnsaturated(o, n) == SatAdd(total - o, n)

\* The total when n bytes replace o bytes.
After(o, n) == SatAdd(SatSub(total, o), n)

\* commit_write accepts.
Commit(t) ==
  /\ pc[t] = "commit"
  /\ After(old[t], new[t]) <= Limit
  /\ total' = After(old[t], new[t])
  /\ loaded' = TRUE
  /\ Goto(t, "rename")
  /\ UNCHANGED <<size, from, to, tmp, old, new, uncounted>>

\* commit_write fails, over the limit or on the load of the bucket: the
\* staging object goes, if it can be removed.
Refuse(t) ==
  /\ pc[t] = "commit"
  /\ \/ ~ loaded /\ UNCHANGED loaded
     \/ After(old[t], new[t]) > Limit /\ loaded' = TRUE
  /\ \E k \in {0, size[tmp[t]]} : Leave(t, k)
  /\ UNCHANGED total

\* commit_rename: the staging object replaces the destination ...
Rename(t) ==
  /\ pc[t] \in {"rename", "rename_again"}
  /\ size' = [size EXCEPT ![to[t]] = size[tmp[t]], ![tmp[t]] = 0]
  /\ uncounted' = uncounted + SatSub(size[tmp[t]], new[t])
  /\ Return(t)
  /\ UNCHANGED <<total, loaded>>

\* ... or, the rename having failed for whatever reason, the destination is
\* removed (best effort) and the rename tried once more.
RenameFails(t) ==
  /\ RenameMayFail
  /\ pc[t] = "rename"
  /\ size' \in {size, [size EXCEPT ![to[t]] = 0]}
  /\ Goto(t, "rename_again")
  /\ UNCHANGED <<total, loaded, from, to, tmp, old, new, uncounted>>

RenameFailsAgain(t) ==
  /\ RenameMayFail
  /\ pc[t] = "rename_again"
  /\ Goto(t, "rollback")
  /\ UNCHANGED <<fileVars, from, to, tmp, old, new>>

\* Mutant: a failed rename leaves the commit in place.
RollbackForgotten(t) ==
  /\ pc[t] = "rollback"
  /\ \E k \in {0, size[tmp[t]]} : Leave(t, k)
  /\ UNCHANGED <<total, loaded>>

\* The commit is undone, with the limit u64::MAX, and the staging object
\* goes, if it can be removed.
Rollback(t) ==
  /\ pc[t] = "rollback"
  /\ total' = After(new[t], old[t])
  /\ \E k \in {0, size[tmp[t]]} : Leave(t, k)
  /\ UNCHANGED loaded

-----------------------------------------------------------------------------
(* QuotaDeleter, for a batch of one path. *)

Delete(t, f) == Begin(t, "delete", f, f, f, "delete_size") /\ UNCHANGED size

DeleteSize(t) ==
  /\ pc[t] = "delete_size"
  /\ \E s \in SizeOf(to[t]) : old' = [old EXCEPT ![t] = s]
  /\ Goto(t, "delete")
  /\ UNCHANGED <<fileVars, from, to, tmp, new>>

DeleteObject(t) ==
  /\ pc[t] = "delete"
  /\ size' = [size EXCEPT ![to[t]] = 0]
  /\ Goto(t, "release")
  /\ UNCHANGED <<total, loaded, from, to, tmp, old, new, uncounted>>

\* The backend's delete or close fails, after the fact perhaps, or the client
\* goes away: nothing is released.
DeleteFails(t) ==
  /\ RenameMayFail
  /\ pc[t] = "delete"
  /\ size' \in {size, [size EXCEPT ![to[t]] = 0]}
  /\ Return(t)
  /\ UNCHANGED <<total, loaded, uncounted>>

\* commit_delete, which fails only when the bucket cannot be loaded.
Release(t) ==
  /\ pc[t] = "release"
  /\ \/ total' = After(old[t], 0) /\ loaded' = TRUE
     \/ ~ loaded /\ UNCHANGED <<total, loaded>>
  /\ Return(t)
  /\ UNCHANGED <<size, uncounted>>

-----------------------------------------------------------------------------
\* QuotaAccessor::rename goes straight to the backend.
RenameObject(t, f, g) ==
  /\ "rename" \in Ops
  /\ pc[t] = "idle"
  /\ Free(t, {f, g})
  /\ f # g
  /\ size[f] # 0
  /\ size' = [size EXCEPT ![f] = 0, ![g] = size[f]]
  /\ UNCHANGED <<total, loaded, pc, from, to, tmp, old, new, uncounted>>

Next ==
  \E t \in Tasks :
    \/ \E f, h \in Paths, n \in 0 .. MaxSize : Write(t, f, h, n)
    \/ \E f, g, h \in Paths : Copy(t, f, g, h)
    \/ \E f, g \in Paths : RenameObject(t, f, g)
    \/ \E f \in Paths : Delete(t, f)
    \/ Abort(t) \/ Cancel(t) \/ FromSize(t) \/ ToSize(t) \/ Commit(t) \/ Refuse(t)
    \/ Rename(t) \/ RenameFails(t) \/ RenameFailsAgain(t) \/ Rollback(t)
    \/ DeleteSize(t) \/ DeleteObject(t) \/ DeleteFails(t) \/ Release(t)

Spec == Init /\ [][Next]_vars

-----------------------------------------------------------------------------
(* Properties. *)

TypeOK ==
  /\ size \in [Paths -> 0 .. MaxSize]
  /\ total \in 0 .. U64Max
  /\ loaded \in BOOLEAN
  /\ pc \in [Tasks -> Labels]
  /\ from \in [Tasks -> Paths] /\ to \in [Tasks -> Paths] /\ tmp \in [Tasks -> Paths]
  /\ old \in [Tasks -> 0 .. MaxSize] /\ new \in [Tasks -> 0 .. MaxSize]
  /\ uncounted \in Nat

Usage == SumFunction(size)
AtRest == \A t \in Tasks : pc[t] = "idle"

\* "limits the total number of bytes currently occupied by objects under an
\* operator" (quota.rs QuotaLayer): when no operation is under way the
\* counter covers the objects, whatever was overwritten, copied, deleted and
\* rolled back, but for the bytes that went uncounted: staging objects whose
\* removal failed or was never tried, copies whose source could not be
\* statted, and smaller objects that were committed and then never put in
\* place because the client had gone.  No other step loses a byte.
StoredIsCounted == AtRest => Usage <= total + uncounted

\* "Roll back the quota commit so a failed rename doesn't leave the counter
\* permanently overstated" (quota.rs QuotaWriter::close): when no operation is
\* under way the counter counts no more than is stored.
NotOverstated == AtRest => total <= Usage
=============================================================================
