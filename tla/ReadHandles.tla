---------------------------- MODULE ReadHandles ----------------------------
(***************************************************************************)
(* The read handles of crates/ipc/src/server.rs: vfs_read_file with        *)
(* get_read_handle and read_from_handle, the invalidations by writers and  *)
(* by SetVfs, the reaper of idle handles, and the requests that change a   *)
(* file without invalidating.                                              *)
(*                                                                         *)
(* One user and one path, hence one key of the read_handles map; the path  *)
(* leads to a file of its own under each configuration of the user.  A     *)
(* local handle holds an open file, a remote one reads by path.  Both      *)
(* remember the length found when they were opened.                        *)
(***************************************************************************)
EXTENDS Integers, FiniteSets

CONSTANTS Readers, Writers,  \* concurrent requests
          Configs,           \* configurations SetVfs switches between
          Remote,            \* those that put the path on a remote point
          Objects, NoObject, \* files (inodes)
          Handles, NoHandle,
          MaxLen,            \* bound: length of a file
          MaxChanges         \* bound: requests that change files or configuration

ASSUME ReadAssumption ==
  /\ Remote \subseteq Configs /\ Configs # {}
  /\ NoObject \notin Objects /\ NoHandle \notin Handles
  /\ MaxLen \in Nat /\ MaxChanges \in Nat
  /\ IsFiniteSet(Readers) /\ IsFiniteSet(Handles)
  /\ Cardinality(Handles) > Cardinality(Readers)
  /\ \E f \in [Configs -> Objects] : \A b, c \in Configs : f[b] = f[c] => b = c

Lens == 0 .. MaxLen

\* A handle: its file (NoObject for a remote one, which goes by path), the
\* configuration and length it was opened with, whether it is past its TTL, its
\* `expired` flag; `suspect` is history: it was opened during a change, or the file
\* was changed by what invalidates no handle.
Infos == [obj : Objects \cup {NoObject}, cfg : Configs, len : Lens,
          idle : BOOLEAN, expired : BOOLEAN, suspect : BOOLEAN]
NoInfo == [obj |-> NoObject, cfg |-> CHOOSE c \in Configs : TRUE, len |-> 0,
           idle |-> FALSE, expired |-> FALSE, suspect |-> FALSE]
NoAnswer == [obj |-> NoObject, len |-> -1]

VARIABLES changes,  \* changes requested so far
          cfg,    \* the user's configuration in the database
          at,     \* at[c]: the file at the path under configuration c
          len,    \* len[o]: length of file o
          map,    \* read_handles: the handle under the key
          info,   \* info[h]
          pc,     \* pc[r]: where read r is
          user,   \* user[r]: the configuration r read
          handle, \* handle[r]: r's Arc
          found,  \* found[r]: the length r's stat found
          late,   \* history: a change overlapped r's opening
          quiet,  \* history: nothing has changed since r started
          wpc, wcfg,  \* where a writer is, and under which configuration
          admin,      \* where SetVfs is
          reaping     \* the reaper has collected the key

fileVars == <<changes, cfg, at, len>>
readVars == <<pc, user, handle, found, late, quiet>>
otherVars == <<wpc, wcfg, admin, reaping>>
vars == <<fileVars, map, info, readVars, otherVars>>

Init ==
  /\ changes = 0
  /\ cfg = NoInfo.cfg
  /\ at = CHOOSE f \in [Configs -> Objects] : \A b, c \in Configs : f[b] = f[c] => b = c
  /\ len = [o \in Objects |-> IF \E c \in Configs : at[c] = o THEN MaxLen ELSE 0]
  /\ map = NoHandle
  /\ info = [h \in Handles |-> NoInfo]
  /\ pc = [r \in Readers |-> "idle"]
  /\ user = [r \in Readers |-> NoInfo.cfg]
  /\ handle = [r \in Readers |-> NoHandle]
  /\ found = [r \in Readers |-> 0]
  /\ late = [r \in Readers |-> FALSE]
  /\ quiet = [r \in Readers |-> FALSE]
  /\ wpc = [w \in Writers |-> "idle"]
  /\ wcfg = [w \in Writers |-> NoInfo.cfg]
  /\ admin = "idle"
  /\ reaping = FALSE

Request == changes < MaxChanges /\ changes' = changes + 1

Goto(r, label) == pc' = [pc EXCEPT ![r] = label]

\* Handles nobody refers to are dropped.
Live(m, held) == ({m} \cup {held[r] : r \in Readers}) \ {NoHandle}
Keep(m, held, i) == [h \in Handles |-> IF h \in Live(m, held) THEN i[h] ELSE NoInfo]

\* get_read_handle has returned.
Opened(r) ==
  /\ user' = [user EXCEPT ![r] = NoInfo.cfg]
  /\ late' = [late EXCEPT ![r] = FALSE]

\* r is over; its locals and history are dropped.
Ends(r) ==
  /\ Goto(r, "idle")
  /\ Opened(r)
  /\ handle' = [handle EXCEPT ![r] = NoHandle]
  /\ info' = Keep(map, handle', info)
  /\ found' = [found EXCEPT ![r] = 0]
  /\ quiet' = [quiet EXCEPT ![r] = FALSE]

-----------------------------------------------------------------------------
(* vfs_read_file *)

Writing == \E w \in Writers : wpc[w] = "write"

\* get_user, and the path is resolved with its configuration.
Start(r) ==
  /\ pc[r] = "idle"
  /\ user' = [user EXCEPT ![r] = cfg]
  /\ late' = [late EXCEPT ![r] = Writing]
  /\ quiet' = [quiet EXCEPT ![r] = admin = "idle"]
  /\ Goto(r, "lookup")
  /\ UNCHANGED <<fileVars, map, info, handle, found, otherVars>>

\* The handle under the key is cloned out of the map.
Lookup(r) ==
  /\ pc[r] = "lookup"
  /\ handle' = [handle EXCEPT ![r] = map]
  /\ Goto(r, IF map = NoHandle THEN "stat" ELSE "check")
  /\ UNCHANGED <<fileVars, map, info, user, found, late, quiet, otherVars>>

\* An unexpired handle is used; the key of an expired one is removed, whatever
\* handle is under it by now.
Check(r) ==
  /\ pc[r] = "check"
  /\ IF info[handle[r]].expired
     THEN /\ map' = NoHandle
          /\ handle' = [handle EXCEPT ![r] = NoHandle]
          /\ info' = Keep(map', handle', info)
          /\ Goto(r, "stat")
          /\ UNCHANGED <<user, late>>
     ELSE /\ info' = [info EXCEPT ![handle[r]].idle = FALSE]
          /\ Goto(r, "read")
          /\ Opened(r)
          /\ UNCHANGED <<map, handle>>
  /\ UNCHANGED <<fileVars, found, quiet, otherVars>>

\* The file's length is found; without the file, or if the call fails, so does the
\* read.
Stat(r) ==
  LET o == at[user[r]] IN
  /\ pc[r] = "stat"
  /\ \/ Ends(r)
     \/ /\ o # NoObject
        /\ found' = [found EXCEPT ![r] = len[o]]
        /\ Goto(r, "open")
        /\ UNCHANGED <<info, user, handle, late, quiet>>
  /\ UNCHANGED <<fileVars, map, otherVars>>

\* The file is opened; a remote reader opens nothing.
Open(r) ==
  LET o == at[user[r]]
      h == CHOOSE h \in Handles : h \notin Live(map, handle)
  IN
  /\ pc[r] = "open"
  /\ \/ Ends(r)
     \/ /\ o # NoObject \/ user[r] \in Remote
        /\ handle' = [handle EXCEPT ![r] = h]
        /\ info' = [info EXCEPT ![h] =
                      [NoInfo EXCEPT !.obj = IF user[r] \in Remote THEN NoObject ELSE o,
                                     !.cfg = user[r], !.len = found[r]]]
        /\ Goto(r, "insert")
        /\ UNCHANGED <<user, found, late, quiet>>
  /\ UNCHANGED <<fileVars, map, otherVars>>

\* read_handles.insert: the new handle replaces the one under the key, which this
\* read then uses unless it has expired.
Insert(r) ==
  /\ pc[r] = "insert"
  /\ map' = handle[r]
  /\ IF map # NoHandle /\ ~info[map].expired
     THEN handle' = [handle EXCEPT ![r] = map]
     ELSE UNCHANGED handle
  /\ info' = [Keep(map', handle', info) EXCEPT ![map'].suspect = late[r]]
  /\ found' = [found EXCEPT ![r] = 0]
  /\ Opened(r)
  /\ Goto(r, "read")
  /\ UNCHANGED <<fileVars, quiet, otherVars>>

Min2(a, b) == IF a < b THEN a ELSE b

\* What read_from_handle returns for the whole file: an error if the handle has
\* expired; nothing, without asking the backend, if the handle's length is 0; an
\* error if a remote file is gone or shorter than the range asked for; and never
\* more than the length the handle was opened with.
Answer(r) ==
  LET i == info[handle[r]]
      o == IF i.cfg \in Remote THEN at[i.cfg] ELSE i.obj
      unread == i.cfg \in Remote /\ i.len > 0 /\ (o = NoObject \/ len[o] < i.len)
  IN IF i.expired \/ unread
     THEN NoAnswer
     ELSE [obj |-> o, len |-> IF i.len = 0 THEN 0 ELSE Min2(i.len, len[o])]

\* The read itself, and the reply.
Read(r) ==
  /\ pc[r] = "read"
  /\ Goto(r, "idle")
  /\ handle' = [handle EXCEPT ![r] = NoHandle]
  /\ info' = LET used == IF Answer(r) = NoAnswer THEN info
                         ELSE [info EXCEPT ![handle[r]].idle = FALSE]
             IN Keep(map, handle', used)
  /\ quiet' = [quiet EXCEPT ![r] = FALSE]
  /\ UNCHANGED <<fileVars, map, user, found, late, otherVars>>

-----------------------------------------------------------------------------
(* Changes *)

Opening(r) == pc[r] \in {"lookup", "check", "stat", "open", "insert"}

\* The read handle under the key is removed and marked expired.
Invalidate ==
  /\ map' = NoHandle
  /\ info' = Keep(map', handle, IF map = NoHandle THEN info
                                ELSE [info EXCEPT ![map].expired = TRUE])

\* Mutant: a writer leaves the read handle alone.
WriteStartsQuietly(w) ==
  /\ Request
  /\ wpc[w] = "idle" /\ cfg \notin Remote
  /\ wpc' = [wpc EXCEPT ![w] = "write"]
  /\ wcfg' = [wcfg EXCEPT ![w] = cfg]
  /\ late' = [r \in Readers |-> late[r] \/ Opening(r)]
  /\ UNCHANGED <<cfg, at, len, map, info, pc, user, handle, found, quiet, admin, reaping>>

\* vfs_open_write, vfs_write_at and vfs_set_length on a writable point: the handle is
\* invalidated before anything is written.
WriteStarts(w) ==
  /\ Request
  /\ wpc[w] = "idle" /\ cfg \notin Remote
  /\ wpc' = [wpc EXCEPT ![w] = "write"]
  /\ wcfg' = [wcfg EXCEPT ![w] = cfg]
  /\ Invalidate
  /\ late' = [r \in Readers |-> late[r] \/ Opening(r)]
  /\ UNCHANGED <<cfg, at, len, pc, user, handle, found, quiet, admin, reaping>>

\* A file nobody refers to, with its length l: what creating one gives.
Unused == Objects \ ({at[c] : c \in Configs} \cup {info[h].obj : h \in Handles})
SetFile(c, l) ==
  LET o == IF at[c] = NoObject THEN CHOOSE x \in Unused : TRUE ELSE at[c] IN
  /\ at[c] # NoObject \/ Unused # {}
  /\ at' = [at EXCEPT ![c] = o]
  /\ len' = [len EXCEPT ![o] = l]

Disturbed == quiet' = [r \in Readers |-> FALSE]

\* The write itself (the file is created if need be), or it fails.
Write(w) ==
  /\ wpc[w] = "write"
  /\ wpc' = [wpc EXCEPT ![w] = "idle"]
  /\ wcfg' = [wcfg EXCEPT ![w] = NoInfo.cfg]
  /\ \/ /\ \E l \in Lens : SetFile(wcfg[w], l)
        /\ Disturbed
     \/ UNCHANGED <<at, len, quiet>>
  /\ UNCHANGED <<changes, cfg, map, info, pc, user, handle, found, late, admin, reaping>>

\* vfs_touch_file, under the configuration it read: an empty file is written, and no
\* read handle invalidated.
Touch(c) ==
  /\ Request
  /\ c \notin Remote
  /\ SetFile(c, 0)
  /\ Disturbed
  /\ UNCHANGED <<cfg, map, info, pc, user, handle, found, late, otherVars>>

\* A change of the file under configuration c that goes past the read handles.
BehindItsBack(c) ==
  /\ info' = IF map # NoHandle /\ info[map].cfg = c THEN [info EXCEPT ![map].suspect = TRUE]
             ELSE info
  /\ late' = [r \in Readers |-> late[r] \/ (Opening(r) /\ user[r] = c)]
  /\ Disturbed

\* vfs_remove_file and vfs_remove_dir, or a transfer that moves the file away.
Remove(c) ==
  /\ Request
  /\ c \notin Remote /\ at[c] # NoObject
  /\ at' = [at EXCEPT ![c] = NoObject]
  /\ len' = [o \in Objects |-> IF o = at[c] /\ o \notin {info[h].obj : h \in Handles} THEN 0
                               ELSE len[o]]
  /\ BehindItsBack(c)
  /\ UNCHANGED <<cfg, map, pc, user, handle, found, otherVars>>

\* A restore job or a transfer writes the file of a local point, or puts another
\* one in its place.
JobWrites(c) ==
  /\ Request
  /\ c \notin Remote
  /\ \E o \in Unused \cup ({at[c]} \ {NoObject}), l \in Lens :
       /\ at' = [at EXCEPT ![c] = o]
       /\ len' = [len EXCEPT ![o] = l]
  /\ BehindItsBack(c)
  /\ UNCHANGED <<cfg, map, pc, user, handle, found, otherVars>>

\* A remote file appears, changes or goes; the server cannot know.
RemoteChange(c) ==
  /\ Request
  /\ c \in Remote
  /\ \/ \E l \in Lens : SetFile(c, l)
     \/ at' = [at EXCEPT ![c] = NoObject] /\ UNCHANGED len
  /\ BehindItsBack(c)
  /\ UNCHANGED <<cfg, map, pc, user, handle, found, otherVars>>

\* set_vfs: the new configuration is committed, the user's read handles are
\* invalidated later.
SetVfs ==
  /\ Request
  /\ admin = "idle"
  /\ cfg' \in Configs \ {cfg}
  /\ admin' = "invalidate"
  /\ Disturbed
  /\ UNCHANGED <<at, len, map, info, pc, user, handle, found, late, wpc, wcfg, reaping>>

\* invalidate_user_read_handles
InvalidateUser ==
  /\ admin = "invalidate"
  /\ admin' = "idle"
  /\ Invalidate
  /\ late' = [r \in Readers |-> late[r] \/ Opening(r)]
  /\ UNCHANGED <<fileVars, pc, user, handle, found, quiet, wpc, wcfg, reaping>>

-----------------------------------------------------------------------------
(* The reaper *)

\* READ_HANDLE_IDLE_TTL passes without a use of the handle.
Age ==
  /\ map # NoHandle /\ ~info[map].idle
  /\ info' = [info EXCEPT ![map].idle = TRUE]
  /\ UNCHANGED <<fileVars, map, readVars, otherVars>>

\* Mutant: the tick looks for handles that are already expired.
TickExpired ==
  /\ ~reaping /\ map # NoHandle /\ info[map].expired
  /\ reaping' = TRUE
  /\ UNCHANGED <<fileVars, map, info, readVars, wpc, wcfg, admin>>

\* A tick collects the key of an idle handle.
Tick ==
  /\ ~reaping /\ map # NoHandle /\ info[map].idle
  /\ reaping' = TRUE
  /\ UNCHANGED <<fileVars, map, info, readVars, wpc, wcfg, admin>>

\* Mutant: the reaper marks the handle and leaves it in the map.
ReapMarks ==
  /\ reaping
  /\ reaping' = FALSE
  /\ info' = IF map = NoHandle THEN info ELSE [info EXCEPT ![map].expired = TRUE]
  /\ UNCHANGED <<fileVars, map, readVars, wpc, wcfg, admin>>

\* It then removes whatever handle is under the key.
Reap ==
  /\ reaping
  /\ reaping' = FALSE
  /\ Invalidate
  /\ UNCHANGED <<fileVars, readVars, wpc, wcfg, admin>>

ReadStep(r) == Lookup(r) \/ Check(r) \/ Stat(r) \/ Open(r) \/ Insert(r) \/ Read(r)

Next ==
  \/ \E r \in Readers : Start(r) \/ ReadStep(r)
  \/ \E w \in Writers : WriteStarts(w) \/ Write(w)
  \/ \E c \in Configs : Touch(c) \/ Remove(c) \/ JobWrites(c) \/ RemoteChange(c)
  \/ SetVfs \/ InvalidateUser
  \/ Age \/ Tick \/ Reap

Spec == Init /\ [][Next]_vars

\* Time passes, the reaper's interval ticks on, and its task is run.
LiveSpec == Spec /\ WF_vars(Age) /\ WF_vars(Tick) /\ WF_vars(Reap)

-----------------------------------------------------------------------------
(* Properties *)

TypeOK ==
  /\ changes \in 0 .. MaxChanges
  /\ cfg \in Configs
  /\ at \in [Configs -> Objects \cup {NoObject}]
  /\ len \in [Objects -> Lens]
  /\ map \in Handles \cup {NoHandle}
  /\ info \in [Handles -> Infos]
  /\ \A h \in Handles : h \notin Live(map, handle) => info[h] = NoInfo
  /\ map # NoHandle => ~info[map].expired
  /\ pc \in [Readers -> {"idle", "lookup", "check", "stat", "open", "insert", "read"}]
  /\ user \in [Readers -> Configs]
  /\ handle \in [Readers -> Handles \cup {NoHandle}]
  /\ found \in [Readers -> Lens]
  /\ late \in [Readers -> BOOLEAN] /\ quiet \in [Readers -> BOOLEAN]
  /\ wpc \in [Writers -> {"idle", "write"}] /\ wcfg \in [Writers -> Configs]
  /\ admin \in {"idle", "invalidate"} /\ reaping \in BOOLEAN

\* The answer of r is the file its user's configuration leads to, at full length.
AnswersPresent(r) ==
  /\ Answer(r).obj = at[cfg]
  /\ at[cfg] # NoObject
  /\ Answer(r).len = len[at[cfg]]

\* A read during which nothing changed returns the file the configuration leads to,
\* at its full length (vfs_open_write, vfs_write_at and set_vfs, which invalidate),
\* unless the handle it used was opened while a write or a SetVfs was under way, or
\* the file was since changed by one of those that invalidate nothing: a removal, a
\* restore or transfer job of the server's own, or another client of a remote.
\* The other actors are the two-step writers, SetVfs, vfs_touch_file, the reaper
\* that removes by key, and the read that replaces another one's handle.
StaleOnlyIfRaced ==
  \A r \in Readers :
    pc[r] = "read" /\ quiet[r] /\ ~info[handle[r]].suspect /\ Answer(r) # NoAnswer
      => AnswersPresent(r)

\* "Any write invalidates the cached read handle for this path. The next read will
\* reopen the local file/OpenDAL reader and observe new size or object contents"
\* (server.rs vfs_write_at): a read that starts after the last write returns what
\* was written.
NoStaleRead ==
  \A r \in Readers :
    pc[r] = "read" /\ quiet[r] /\ ~Writing /\ Answer(r) # NoAnswer => AnswersPresent(r)

\* Reads have no close: "the TTL is what bounds open descriptors and remote reader
\* state".  Once nobody reads, the cached reader is dropped and stays so.
IdleReaped == <>[](\A r \in Readers : pc[r] = "idle") => <>[](map = NoHandle)
=============================================================================
