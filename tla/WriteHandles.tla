--------------------------- MODULE WriteHandles ---------------------------
(***************************************************************************)
(* Write handles on the files of one writable local point (server.rs):     *)
(* Vfs_OpenWrite, Vfs_WriteAt, Vfs_SetLength (by handle and by path) and   *)
(* Vfs_CloseWrite, with the three ways a handle is closed behind the       *)
(* client's back: the idle reaper, SetVfs and shutdown.                    *)
(*                                                                         *)
(* A file is its length: the point's quota and the handles only look at    *)
(* that.  The files exist from the start and are not removed.  Each await, *)
(* lock, map access and file operation that another task can observe is    *)
(* one step; the scan of the directory tree (utils::dir_size) is one step. *)
(***************************************************************************)
EXTENDS Integers, FiniteSets, Functions

CONSTANTS Paths,      \* files of the point
          HandleIds,  \* handle ids, one per OpenWrite that gets far enough
          Tasks,      \* request handlers
          MaxBytes,   \* the point's max_bytes
          MaxSize,    \* bound: offset + data length, and the lengths SetLength asks for
          Nobody      \* holder of a free lock

ASSUME HandleAssumption ==
  /\ IsFiniteSet(Paths) /\ Paths # {} /\ HandleIds # {}
  /\ MaxBytes \in Nat /\ MaxSize \in Nat
  /\ Nobody \notin Tasks

VARIABLES size,       \* size[f]: the length of f on disk
          handles,    \* write_handles: the ids in the map
          path,       \* path[h]
          append,     \* append[h]
          base,       \* base[h]: quota_base_bytes
          hlen,       \* hlen[h]: WriteState.len
          expired,    \* expired[h]
          guard,      \* guard[h]: who holds the handle's state mutex
          life,       \* life[h]: "new", "open", "evicted", "closing", "closed" or "lost"
          unsynced,   \* unsynced[h]: data went through h that sync_all has not covered
          pointLock,  \* who holds the point's lock (local_point_locks)
          loc,        \* loc[t]: where task t is
          req,        \* req[t]: the arguments and locals of its request
          stop,       \* "serving", "clear", "close" or "exited": where shutdown is
          collected   \* shutdown's `handles`

handleVars == <<handles, path, append, base, hlen, expired, guard, life, unsynced>>
writeVars == <<size, handles, path, append, base, hlen, expired, guard, life, unsynced,
               pointLock, loc, req, stop, collected>>

Lengths == 0 .. MaxSize
Lives == {"new", "open", "evicted", "closing", "closed", "lost"}
SomePath == CHOOSE f \in Paths : TRUE
SomeHandle == CHOOSE h \in HandleIds : TRUE

\* Where a request can be.
Labels == {"idle", "open_lock", "open_scan", "open_file", "write_lock", "write_check",
           "write_data", "write_done", "len_lock", "len_set", "path_lock", "path_check",
           "path_set", "close"}
\* The handle, the file, `overwrite` or `append`, the offset or the new
\* length, the bytes to write, and a local length of a request.
Reqs == [h : HandleIds, f : Paths, overwrite : BOOLEAN, append : BOOLEAN, at : Lengths,
         n : Nat, local : Nat]
NoReq == [h |-> SomeHandle, f |-> SomePath, overwrite |-> FALSE, append |-> FALSE,
          at |-> 0, n |-> 0, local |-> 0]

Larger(a, b) == IF a > b THEN a ELSE b

\* utils::dir_size on the point's root.
DirSize == SumFunction(size)

WriteInit ==
  /\ size = [f \in Paths |-> 0]
  /\ handles = {}
  /\ path = [h \in HandleIds |-> SomePath]
  /\ append = [h \in HandleIds |-> FALSE]
  /\ base = [h \in HandleIds |-> 0]
  /\ hlen = [h \in HandleIds |-> 0]
  /\ expired = [h \in HandleIds |-> FALSE]
  /\ guard = [h \in HandleIds |-> Nobody]
  /\ life = [h \in HandleIds |-> "new"]
  /\ unsynced = [h \in HandleIds |-> FALSE]
  /\ pointLock = Nobody
  /\ loc = [t \in Tasks |-> "idle"]
  /\ req = [t \in Tasks |-> NoReq]
  /\ stop = "serving"
  /\ collected = {}

Begin(t, label, r) ==
  /\ stop = "serving"
  /\ loc[t] = "idle"
  /\ loc' = [loc EXCEPT ![t] = label]
  /\ req' = [req EXCEPT ![t] = r]

WriteGoto(t, label, local) ==
  /\ loc' = [loc EXCEPT ![t] = label]
  /\ req' = [req EXCEPT ![t].local = local]

Return(t) ==
  /\ loc' = [loc EXCEPT ![t] = "idle"]
  /\ req' = [req EXCEPT ![t] = NoReq]

-----------------------------------------------------------------------------
(* Vfs_OpenWrite. *)

OpenWrite(t, f, overwrite, app) ==
  /\ Begin(t, "open_lock", [NoReq EXCEPT !.f = f, !.overwrite = overwrite, !.append = app])
  /\ UNCHANGED <<size, handleVars, pointLock, stop, collected>>

\* The point's lock, then the file's metadata.
OpenLock(t) ==
  /\ loc[t] = "open_lock"
  /\ pointLock = Nobody
  /\ pointLock' = t
  /\ WriteGoto(t, "open_scan", size[req[t].f])
  /\ UNCHANGED <<size, handleVars, stop, collected>>

InitialLen(t) == IF req[t].overwrite THEN 0 ELSE req[t].local
ScannedBase(t) == IF DirSize > req[t].local THEN DirSize - req[t].local ELSE 0

OpenScan(t) ==
  /\ loc[t] = "open_scan"
  /\ IF ScannedBase(t) + InitialLen(t) > MaxBytes
     THEN Return(t) /\ pointLock' = Nobody
     ELSE /\ loc' = [loc EXCEPT ![t] = "open_file"]
          /\ req' = [req EXCEPT ![t].local = InitialLen(t), ![t].n = ScannedBase(t)]
          /\ UNCHANGED pointLock
  /\ UNCHANGED <<size, handleVars, stop, collected>>

\* Open (and truncate) the file and put the handle, under a fresh id, in the map.
OpenFile(t, h) ==
  /\ loc[t] = "open_file"
  /\ life[h] = "new"
  /\ size' = IF req[t].overwrite THEN [size EXCEPT ![req[t].f] = 0] ELSE size
  /\ handles' = handles \cup {h}
  /\ path' = [path EXCEPT ![h] = req[t].f]
  /\ append' = [append EXCEPT ![h] = req[t].append]
  /\ base' = [base EXCEPT ![h] = req[t].n]
  /\ hlen' = [hlen EXCEPT ![h] = req[t].local]
  /\ life' = [life EXCEPT ![h] = "open"]
  /\ pointLock' = Nobody
  /\ Return(t)
  /\ UNCHANGED <<expired, guard, unsynced, stop, collected>>

-----------------------------------------------------------------------------
(* Vfs_WriteAt. *)

\* The handle is cloned out of the map, and not expired.
WriteAt(t, h, offset, n) ==
  /\ h \in handles
  /\ ~ expired[h]
  /\ Begin(t, "write_lock", [NoReq EXCEPT !.h = h, !.at = offset, !.n = n])
  /\ UNCHANGED <<size, handleVars, pointLock, stop, collected>>

\* Mutant: `expired` is not looked at again under the mutex.
WriteLockUnchecked(t) ==
  /\ loc[t] = "write_lock"
  /\ guard[req[t].h] = Nobody
  /\ guard' = [guard EXCEPT ![req[t].h] = t]
  /\ WriteGoto(t, "write_check", 0)
  /\ UNCHANGED <<size, handles, path, append, base, hlen, expired, life, unsynced,
                 pointLock, stop, collected>>

\* Take the state mutex and look at `expired` again.
WriteLock(t) ==
  LET h == req[t].h IN
  /\ loc[t] = "write_lock"
  /\ guard[h] = Nobody
  /\ IF expired[h]
     THEN Return(t) /\ UNCHANGED guard
     ELSE guard' = [guard EXCEPT ![h] = t] /\ WriteGoto(t, "write_check", 0)
  /\ UNCHANGED <<size, handles, path, append, base, hlen, expired, life, unsynced,
                 pointLock, stop, collected>>

\* An appending handle seeks to the end of the file, whatever the offset.
WriteOffset(t) == IF append[req[t].h] THEN size[path[req[t].h]] ELSE req[t].at

\* Mutant: the quota test looks at the old length only.
WriteCheckOldLen(t) ==
  LET h == req[t].h IN
  /\ loc[t] = "write_check"
  /\ base[h] + hlen[h] <= MaxBytes
  /\ WriteGoto(t, "write_data", WriteOffset(t))
  /\ UNCHANGED <<size, handleVars, pointLock, stop, collected>>

\* Mutant: a rejected write keeps the mutex.
WriteCheckLeaking(t) ==
  LET h == req[t].h IN
  /\ loc[t] = "write_check"
  /\ IF base[h] + Larger(hlen[h], WriteOffset(t) + req[t].n) > MaxBytes
     THEN Return(t)
     ELSE WriteGoto(t, "write_data", WriteOffset(t))
  /\ UNCHANGED <<size, handleVars, pointLock, stop, collected>>

WriteCheck(t) ==
  LET h == req[t].h IN
  /\ loc[t] = "write_check"
  /\ IF base[h] + Larger(hlen[h], WriteOffset(t) + req[t].n) > MaxBytes
     THEN Return(t) /\ guard' = [guard EXCEPT ![h] = Nobody]
     ELSE WriteGoto(t, "write_data", WriteOffset(t)) /\ UNCHANGED guard
  /\ UNCHANGED <<size, handles, path, append, base, hlen, expired, life, unsynced,
                 pointLock, stop, collected>>

\* write_all and flush.
WriteData(t) ==
  LET h == req[t].h IN
  /\ loc[t] = "write_data"
  /\ size' = [size EXCEPT ![path[h]] = Larger(@, req[t].local + req[t].n)]
  /\ unsynced' = [unsynced EXCEPT ![h] = TRUE]
  /\ WriteGoto(t, "write_done", req[t].local)
  /\ UNCHANGED <<handles, path, append, base, hlen, expired, guard, life,
                 pointLock, stop, collected>>

WriteDone(t) ==
  LET h == req[t].h IN
  /\ loc[t] = "write_done"
  /\ hlen' = [hlen EXCEPT ![h] = Larger(@, req[t].local + req[t].n)]
  /\ guard' = [guard EXCEPT ![h] = Nobody]
  /\ Return(t)
  /\ UNCHANGED <<size, handles, path, append, base, expired, life, unsynced, pointLock,
                 stop, collected>>

-----------------------------------------------------------------------------
(* Vfs_SetLength. *)

SetHandleLength(t, h, length) ==
  /\ h \in handles
  /\ Begin(t, "len_lock", [NoReq EXCEPT !.h = h, !.at = length])
  /\ UNCHANGED <<size, handleVars, pointLock, stop, collected>>

SetLengthLock(t) ==
  LET h == req[t].h IN
  /\ loc[t] = "len_lock"
  /\ guard[h] = Nobody
  /\ IF expired[h] \/ base[h] + req[t].at > MaxBytes
     THEN Return(t) /\ UNCHANGED guard
     ELSE guard' = [guard EXCEPT ![h] = t] /\ WriteGoto(t, "len_set", 0)
  /\ UNCHANGED <<size, handles, path, append, base, hlen, expired, life, unsynced,
                 pointLock, stop, collected>>

SetLen(t) ==
  LET h == req[t].h IN
  /\ loc[t] = "len_set"
  /\ size' = [size EXCEPT ![path[h]] = req[t].at]
  /\ hlen' = [hlen EXCEPT ![h] = req[t].at]
  /\ unsynced' = [unsynced EXCEPT ![h] = TRUE]
  /\ guard' = [guard EXCEPT ![h] = Nobody]
  /\ Return(t)
  /\ UNCHANGED <<handles, path, append, base, expired, life, pointLock, stop, collected>>

\* By path: under the point's lock, on the file itself.
SetPathLength(t, f, length) ==
  /\ Begin(t, "path_lock", [NoReq EXCEPT !.f = f, !.at = length])
  /\ UNCHANGED <<size, handleVars, pointLock, stop, collected>>

PathLock(t) ==
  /\ loc[t] = "path_lock"
  /\ pointLock = Nobody
  /\ pointLock' = t
  /\ WriteGoto(t, "path_check", size[req[t].f])
  /\ UNCHANGED <<size, handleVars, stop, collected>>

\* check_local_quota, for a file that grows.
PathCheck(t) ==
  LET growth == req[t].at - req[t].local IN
  /\ loc[t] = "path_check"
  /\ IF growth > 0 /\ DirSize + growth > MaxBytes
     THEN Return(t) /\ pointLock' = Nobody
     ELSE WriteGoto(t, "path_set", 0) /\ UNCHANGED pointLock
  /\ UNCHANGED <<size, handleVars, stop, collected>>

PathSet(t) ==
  /\ loc[t] = "path_set"
  /\ size' = [size EXCEPT ![req[t].f] = req[t].at]
  /\ pointLock' = Nobody
  /\ Return(t)
  /\ UNCHANGED <<handleVars, stop, collected>>

-----------------------------------------------------------------------------
(* Vfs_CloseWrite, and the closing of handles nobody closed. *)

\* Mutant: CloseWrite looks the handle up and leaves it in the map.
CloseKeeping(t, h) ==
  /\ h \in handles
  /\ expired' = [expired EXCEPT ![h] = TRUE]
  /\ life' = [life EXCEPT ![h] = "closing"]
  /\ Begin(t, "close", [NoReq EXCEPT !.h = h])
  /\ UNCHANGED <<size, handles, path, append, base, hlen, guard, unsynced,
                 pointLock, stop, collected>>

Close(t, h) ==
  /\ h \in handles
  /\ handles' = handles \ {h}
  /\ expired' = [expired EXCEPT ![h] = TRUE]
  /\ life' = [life EXCEPT ![h] = "closing"]
  /\ Begin(t, "close", [NoReq EXCEPT !.h = h])
  /\ UNCHANGED <<size, path, append, base, hlen, guard, unsynced,
                 pointLock, stop, collected>>

\* finalize_write_state under the mutex: flush and sync_all, or an error.
Finalize(h, synced) ==
  /\ guard[h] = Nobody
  /\ life' = [life EXCEPT ![h] = IF synced THEN "closed" ELSE "lost"]
  /\ unsynced' = [unsynced EXCEPT ![h] = @ /\ ~ synced]

CloseSync(t, synced) ==
  /\ loc[t] = "close"
  /\ Finalize(req[t].h, synced)
  /\ Return(t)
  /\ UNCHANGED <<size, handles, path, append, base, hlen, expired, guard,
                 pointLock, stop, collected>>

\* The reaper (idle for HANDLE_IDLE_TTL) or SetVfs takes the handle out of
\* the map and spawns close_write_handle.
Evict(h) ==
  /\ h \in handles
  /\ handles' = handles \ {h}
  /\ life' = [life EXCEPT ![h] = "evicted"]
  /\ UNCHANGED <<size, path, append, base, hlen, expired, guard, unsynced, pointLock, loc,
                 req, stop, collected>>

EvictExpire(h) ==
  /\ life[h] = "evicted"
  /\ stop # "exited"
  /\ expired' = [expired EXCEPT ![h] = TRUE]
  /\ life' = [life EXCEPT ![h] = "closing"]
  /\ UNCHANGED <<size, handles, path, append, base, hlen, guard, unsynced, pointLock, loc,
                 req, stop, collected>>

\* The spawned close_write_handle: the one closing h that is not a task's.
ByCloser(h) == life[h] = "closing" /\ \A t \in Tasks : loc[t] = "close" => req[t].h # h

EvictSync(h, synced) ==
  /\ ByCloser(h)
  /\ stop # "exited"
  /\ Finalize(h, synced)
  /\ UNCHANGED <<size, handles, path, append, base, hlen, expired, guard, pointLock, loc,
                 req, stop, collected>>

-----------------------------------------------------------------------------
(* Shutdown, once the server has finished the requests it had accepted. *)

Shutdown ==
  /\ stop = "serving"
  /\ \A t \in Tasks : loc[t] = "idle"
  /\ collected' = handles
  /\ stop' = "clear"
  /\ UNCHANGED <<size, handleVars, pointLock, loc, req>>

ShutdownClear ==
  /\ stop = "clear"
  /\ handles' = {}
  /\ stop' = "close"
  /\ UNCHANGED <<size, path, append, base, hlen, expired, guard, life, unsynced,
                 pointLock, loc, req, collected>>

\* close_write_handle on each collected handle, the evicted ones included.
ShutdownClose(h, synced) ==
  /\ stop = "close"
  /\ h \in collected
  /\ collected' = collected \ {h}
  /\ expired' = [expired EXCEPT ![h] = TRUE]
  /\ Finalize(h, synced)
  /\ UNCHANGED <<size, handles, path, append, base, hlen, guard, pointLock, loc, req, stop>>

Exit ==
  /\ stop = "close"
  /\ collected = {}
  /\ stop' = "exited"
  /\ UNCHANGED <<size, handleVars, pointLock, loc, req, collected>>

-----------------------------------------------------------------------------
\* The client goes away and the handler's future is dropped at an await:
\* its locks are released, the rest of it never runs.
Cancel(t) ==
  LET h == req[t].h IN
  /\ loc[t] # "idle"
  /\ guard' = [guard EXCEPT ![h] = IF @ = t THEN Nobody ELSE @]
  /\ pointLock' = IF pointLock = t THEN Nobody ELSE pointLock
  /\ life' = IF loc[t] = "close" THEN [life EXCEPT ![h] = "lost"] ELSE life
  /\ Return(t)
  /\ UNCHANGED <<size, handles, path, append, base, hlen, expired, unsynced,
                 stop, collected>>

WriteRequest(t) ==
  \/ \E f \in Paths, overwrite, app \in BOOLEAN : OpenWrite(t, f, overwrite, app)
  \/ \E h \in HandleIds, offset \in Lengths, n \in 1 .. MaxSize :
       offset + n <= MaxSize /\ WriteAt(t, h, offset, n)
  \/ \E h \in HandleIds, length \in Lengths : SetHandleLength(t, h, length)
  \/ \E f \in Paths, length \in Lengths : SetPathLength(t, f, length)
  \/ \E h \in HandleIds : Close(t, h)

TaskStep(t) ==
  \/ OpenLock(t) \/ OpenScan(t) \/ (\E h \in HandleIds : OpenFile(t, h))
  \/ WriteLock(t) \/ WriteCheck(t) \/ WriteData(t) \/ WriteDone(t)
  \/ SetLengthLock(t) \/ SetLen(t)
  \/ PathLock(t) \/ PathCheck(t) \/ PathSet(t)
  \/ \E synced \in BOOLEAN : CloseSync(t, synced)

CloserStep(h) == EvictExpire(h) \/ \E synced \in BOOLEAN : EvictSync(h, synced)

ShutdownStep ==
  \/ ShutdownClear
  \/ (\E h \in HandleIds, synced \in BOOLEAN : ShutdownClose(h, synced))
  \/ Exit

WriteNext ==
  \/ \E t \in Tasks : WriteRequest(t) \/ TaskStep(t) \/ Cancel(t)
  \/ \E h \in HandleIds : Evict(h) \/ CloserStep(h)
  \/ Shutdown \/ ShutdownStep

WriteSpec == WriteInit /\ [][WriteNext]_writeVars

\* The runtime runs every started request and every spawned close; tokio's
\* mutex serves its waiters in order.
Fairness ==
  /\ \A t \in Tasks : WF_writeVars(TaskStep(t))
  /\ \A h \in HandleIds : SF_writeVars(CloserStep(h))
  /\ WF_writeVars(ShutdownStep)

WriteLiveSpec == WriteSpec /\ Fairness

-----------------------------------------------------------------------------
(* Properties. *)

WriteTypeOK ==
  /\ size \in [Paths -> Nat]
  /\ handles \subseteq HandleIds
  /\ path \in [HandleIds -> Paths]
  /\ append \in [HandleIds -> BOOLEAN]
  /\ base \in [HandleIds -> 0 .. MaxBytes]
  /\ hlen \in [HandleIds -> 0 .. MaxBytes]
  /\ expired \in [HandleIds -> BOOLEAN]
  /\ guard \in [HandleIds -> Tasks \cup {Nobody}]
  /\ life \in [HandleIds -> Lives]
  /\ unsynced \in [HandleIds -> BOOLEAN]
  /\ pointLock \in Tasks \cup {Nobody}
  /\ loc \in [Tasks -> Labels]
  /\ req \in [Tasks -> Reqs]
  /\ stop \in {"serving", "clear", "close", "exited"}
  /\ collected \subseteq HandleIds

\* Once a handle's last sync_all has succeeded nothing more is written
\* through it, although writers that found the handle in the map may still
\* be waiting for its mutex when CloseWrite, the reaper, SetVfs or shutdown
\* close it (server.rs vfs_write_at, vfs_set_length, close_write_handle).
SyncedWhenClosed == \A h \in HandleIds : life[h] = "closed" => ~ unsynced[h]

\* "closing a handle twice ... returns NOT_FOUND" (ipc.proto): of a client's
\* CloseWrites, the reaper and SetVfs, one gets to close the handle.
ClosedOnce ==
  \A t \in Tasks : loc[t] = "close" =>
    /\ req[t].h \notin handles /\ life[req[t].h] = "closing"
    /\ \A u \in Tasks : loc[u] = "close" /\ req[u].h = req[t].h => u = t

\* A handle taken out of the map behind the client's back is finalized,
\* however many writers queue for its mutex, unless the process exits first
\* (server.rs close_write_handle, spawned by the reaper and by SetVfs).
EvictedIsFinalized ==
  \A h \in HandleIds :
    (life[h] = "evicted") ~> (life[h] \in {"closed", "lost"} \/ stop = "exited")
=============================================================================
