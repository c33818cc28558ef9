----------------------------- MODULE Retention -----------------------------
(***************************************************************************)
(* The snapshots of one repository and everything that adds and removes    *)
(* them: backup, forget and retention jobs (crates/ipc/src/server.rs       *)
(* backup, forget, apply_retention; retention.rs) and requests that lock   *)
(* or unlock a snapshot (server.rs set_snapshot_lock).  All of them list   *)
(* the snapshots first and act on the list later, on handles of their own. *)
(*                                                                         *)
(* A snapshot file never changes; a copy of it has a new id.  Sizes and    *)
(* usage are left open: what a prune frees is any amount.                  *)
(***************************************************************************)
EXTENDS Integers, FiniteSets

CONSTANTS Groups,      \* series of snapshots: same host, label and paths
          Jobs,        \* jobs on the repository
          Lockers,     \* set_snapshot_lock requests
          MaxTime,     \* bound: backups started
          MaxId,       \* bound: snapshot files written
          MaxRounds,   \* MAX_SPACE_ROUNDS
          Nobody

ASSUME RetentionAssumption ==
  /\ MaxTime \in Nat /\ MaxId \in Nat /\ MaxRounds \in Nat
  /\ Groups # {}
  /\ Nobody \notin Lockers

Snapshots == [id : 1 .. MaxId, time : 1 .. MaxTime, group : Groups, locked : BOOLEAN]

VARIABLES snaps,    \* the snapshot files
          clock,    \* the time
          ids,      \* ids given out
          pc,       \* pc[j]: where job j is
          args,     \* args[j]: what j was asked to do
          time,     \* time[j]: when j started
          doomed,   \* doomed[j]: the snapshots j is about to delete
          round,    \* round[j], empty[j], batch[j]: `round`, `empty_rounds`, `min_batch`
          empty,
          batch,
          opLock,   \* holder of the repository's op lock
          op,       \* op[k]: where locker k is
          file,     \* file[k]: the snapshot k found, as a set of at most one
          touched   \* groups whose snapshots were forgotten, locked or unlocked by hand

jobVars == <<pc, args, time, doomed, round, empty, batch>>
lockVars == <<opLock, op, file>>
vars == <<snaps, clock, ids, pc, args, time, doomed, round, empty, batch, opLock, op, file,
          touched>>

\* A job: its kind, the kinds of rules of its policy, dry_run, the group a
\* backup belongs to, the ids to forget and include_locked.
Args == [kind : {"backup", "retain", "forget"}, time : BOOLEAN, space : BOOLEAN,
         dry : BOOLEAN, group : Groups, ids : SUBSET (1 .. MaxId), include : BOOLEAN]
NoArgs == [kind |-> "retain", time |-> FALSE, space |-> FALSE, dry |-> FALSE,
           group |-> CHOOSE g \in Groups : TRUE, ids |-> {}, include |-> FALSE]

Init ==
  /\ snaps = {}
  /\ clock = 0 /\ ids = 0
  /\ pc = [j \in Jobs |-> "idle"]
  /\ args = [j \in Jobs |-> NoArgs]
  /\ time = [j \in Jobs |-> 0]
  /\ doomed = [j \in Jobs |-> {}]
  /\ round = [j \in Jobs |-> 0]
  /\ empty = [j \in Jobs |-> 0]
  /\ batch = [j \in Jobs |-> 1]
  /\ opLock = Nobody
  /\ op = [k \in Lockers |-> "idle"]
  /\ file = [k \in Lockers |-> {}]
  /\ touched = {}

Goto(j, label) == pc' = [pc EXCEPT ![j] = label]

\* Job j is over.
Finish(j) ==
  /\ Goto(j, "idle")
  /\ args' = [args EXCEPT ![j] = NoArgs]
  /\ time' = [time EXCEPT ![j] = 0]
  /\ doomed' = [doomed EXCEPT ![j] = {}]
  /\ round' = [round EXCEPT ![j] = 0]
  /\ empty' = [empty EXCEPT ![j] = 0]
  /\ batch' = [batch EXCEPT ![j] = 1]

\* The space rule has done what it can, or the run has failed: before the
\* backup the job goes on to take it, otherwise it is over.
EndRun(j) ==
  IF pc[j] \in {"room", "room_delete"}
  THEN /\ Goto(j, "save")
       /\ doomed' = [doomed EXCEPT ![j] = {}]
       /\ round' = [round EXCEPT ![j] = 0]
       /\ empty' = [empty EXCEPT ![j] = 0]
       /\ batch' = [batch EXCEPT ![j] = 1]
       /\ UNCHANGED <<args, time>>
  ELSE Finish(j)

-----------------------------------------------------------------------------
(* backup. *)

\* The snapshot's time is taken at the start.
Backup(j, g, t, s) ==
  /\ pc[j] = "idle" /\ clock < MaxTime
  /\ clock' = clock + 1
  /\ time' = [time EXCEPT ![j] = clock + 1]
  /\ args' = [args EXCEPT ![j] = [NoArgs EXCEPT !.kind = "backup", !.group = g,
                                                !.time = t, !.space = s]]
  /\ Goto(j, IF s THEN "room" ELSE "save")
  /\ UNCHANGED <<snaps, ids, doomed, round, empty, batch, lockVars, touched>>

\* The snapshot is stored; then the whole policy, if there is one.
Save(j) ==
  /\ pc[j] = "save" /\ ids < MaxId
  /\ ids' = ids + 1
  /\ snaps' = snaps \cup
       {[id |-> ids + 1, time |-> time[j], group |-> args[j].group, locked |-> FALSE]}
  /\ IF args[j].time \/ args[j].space
     THEN /\ Goto(j, IF args[j].time THEN "time" ELSE "space")
          /\ UNCHANGED <<args, time, doomed, round, empty, batch>>
     ELSE Finish(j)
  /\ UNCHANGED <<clock, lockVars, touched>>

SaveFails(j) ==
  /\ pc[j] = "save"
  /\ Finish(j)
  /\ UNCHANGED <<snaps, clock, ids, lockVars, touched>>

-----------------------------------------------------------------------------
(* Retention::run. *)

ApplyRetention(j, t, s, dry) ==
  /\ pc[j] = "idle" /\ (t \/ s)
  /\ args' = [args EXCEPT ![j] = [NoArgs EXCEPT !.time = t, !.space = s, !.dry = dry]]
  /\ Goto(j, IF t THEN "time" ELSE "space")
  /\ UNCHANGED <<snaps, clock, ids, time, doomed, round, empty, batch, lockVars, touched>>

\* A newest snapshot of each group; copies of one snapshot have the same time.
Newest(K) ==
  /\ K \subseteq snaps
  /\ \A s \in snaps : \E n \in K : n.group = s.group /\ n.time >= s.time
  /\ \A n, m \in K : n.group = m.group => n = m

\* rustic's keep rules: each of them keeps the newest of a group.
KeepRules(D) == \E K \in SUBSET snaps : Newest(K) /\ D \cap K = {}

\* time_step: what the keep rules reject and nobody locked is doomed.
TimeList(j, D) ==
  /\ pc[j] = "time"
  /\ D \subseteq {s \in snaps : ~ s.locked} /\ KeepRules(D)
  /\ doomed' = [doomed EXCEPT ![j] = IF args[j].dry THEN {} ELSE D]
  /\ Goto(j, IF D # {} /\ ~ args[j].dry THEN "time_delete" ELSE "space")
  /\ UNCHANGED <<snaps, clock, ids, args, time, round, empty, batch, lockVars, touched>>

\* delete_snapshots, then a prune, which touches no snapshot; a failure part
\* way through ends the run.
TimeDelete(j) ==
  /\ pc[j] = "time_delete"
  /\ \/ /\ snaps' = snaps \ doomed[j]
        /\ Goto(j, "space")
        /\ doomed' = [doomed EXCEPT ![j] = {}]
        /\ UNCHANGED <<args, time, round, empty, batch>>
     \/ /\ \E D \in SUBSET doomed[j] : snaps' = snaps \ D
        /\ Finish(j)
  /\ UNCHANGED <<clock, ids, lockVars, touched>>

\* The run ends: cancelled, out of rounds, enough is free, nothing to remove,
\* no space rule, or an error.
EndSpace(j) ==
  /\ pc[j] \in {"room", "space", "time"}
  /\ EndRun(j)
  /\ UNCHANGED <<snaps, clock, ids, lockVars, touched>>

Min2(a, b) == IF a < b THEN a ELSE b

\* Mutant: the newest snapshots are candidates too.
CandidatesWithNewest(K) == {s \in snaps : ~ s.locked}

\* fifo_candidates, where K are the snapshots popped.
Candidates(K) == {s \in snaps \ K : ~ s.locked}

\* A round of space_step: the oldest candidates, enough of them by their
\* recorded sizes and at least `min_batch`.
SpaceList(j, K, D) ==
  /\ pc[j] \in {"room", "space"}
  /\ args[j].space /\ round[j] < MaxRounds
  /\ Newest(K)
  /\ D # {} /\ D \subseteq Candidates(K)
  /\ \A s \in D, c \in Candidates(K) \ D : s.time <= c.time
  /\ Cardinality(D) >= Min2(batch[j], Cardinality(Candidates(K)))
  /\ IF args[j].dry
     THEN EndRun(j)
     ELSE /\ doomed' = [doomed EXCEPT ![j] = D]
          /\ Goto(j, IF pc[j] = "room" THEN "room_delete" ELSE "space_delete")
          /\ UNCHANGED <<args, time, round, empty, batch>>
  /\ UNCHANGED <<snaps, clock, ids, lockVars, touched>>

\* Mutant: the run is stopped one round later.
StopsLate(empties) == empties >= 3

\* The circuit breaker of space_step.
Stops(empties) == empties >= 2

\* delete_snapshots, prune, and a look at what came back: nothing, less than
\* wanted or enough.  Two rounds in a row without any end the run.
SpaceDelete(j, freed) ==
  LET zero == IF freed = "nothing" THEN empty[j] + 1 ELSE 0
      n == Cardinality(doomed[j])
  IN
  /\ pc[j] \in {"room_delete", "space_delete"}
  /\ snaps' = snaps \ doomed[j]
  /\ IF Stops(zero)
     THEN EndRun(j)
     ELSE /\ empty' = [empty EXCEPT ![j] = zero]
          /\ round' = [round EXCEPT ![j] = @ + 1]
          /\ batch' = [batch EXCEPT ![j] = IF freed = "enough" THEN @
                                           ELSE IF 2 * @ < n THEN n ELSE 2 * @]
          /\ doomed' = [doomed EXCEPT ![j] = {}]
          /\ Goto(j, IF pc[j] = "room_delete" THEN "room" ELSE "space")
          /\ UNCHANGED <<args, time>>
  /\ UNCHANGED <<clock, ids, lockVars, touched>>

\* Deleting or pruning fails part way through.
SpaceFails(j) ==
  /\ pc[j] \in {"room_delete", "space_delete"}
  /\ \E D \in SUBSET doomed[j] : snaps' = snaps \ D
  /\ EndRun(j)
  /\ UNCHANGED <<clock, ids, lockVars, touched>>

-----------------------------------------------------------------------------
(* forget. *)

Forget(j, D, include) ==
  /\ pc[j] = "idle" /\ D # {}
  /\ args' = [args EXCEPT ![j] = [NoArgs EXCEPT !.kind = "forget", !.ids = {s.id : s \in D},
                                                !.include = include]]
  /\ Goto(j, "forget_check")
  /\ UNCHANGED <<snaps, clock, ids, time, doomed, round, empty, batch, lockVars, touched>>

\* Mutant: the job trusts the check made when it was queued.
ForgetCheckSkipped(j) ==
  /\ pc[j] = "forget_check"
  /\ Goto(j, "forget_delete")
  /\ UNCHANGED <<snaps, clock, ids, args, time, doomed, round, empty, batch, lockVars, touched>>

\* "Authoritative lock check", unless include_locked; the opening may fail.
ForgetCheck(j) ==
  /\ pc[j] = "forget_check"
  /\ \/ /\ args[j].include \/ \A s \in snaps : s.id \in args[j].ids => ~ s.locked
        /\ Goto(j, "forget_delete")
        /\ UNCHANGED <<args, time, doomed, round, empty, batch>>
     \/ Finish(j)
  /\ UNCHANGED <<snaps, clock, ids, lockVars, touched>>

Forgotten(j) == {s \in snaps : s.id \in args[j].ids}

ForgetDelete(j) ==
  /\ pc[j] = "forget_delete"
  /\ \E D \in SUBSET Forgotten(j) :
       /\ snaps' = snaps \ D
       /\ touched' = touched \cup {s.group : s \in D}
  /\ Finish(j)
  /\ UNCHANGED <<clock, ids, lockVars>>

-----------------------------------------------------------------------------
(* set_snapshot_lock. *)

\* The request takes the op lock, lists and finds the snapshot; one that is
\* in the requested state already is answered at once.
LockList(k, s) ==
  /\ op[k] = "idle" /\ opLock = Nobody
  /\ opLock' = k
  /\ file' = [file EXCEPT ![k] = {s}]
  /\ op' = [op EXCEPT ![k] = "save"]
  /\ UNCHANGED <<snaps, clock, ids, jobVars, touched>>

LockEnd(k) ==
  /\ op' = [op EXCEPT ![k] = "idle"]
  /\ file' = [file EXCEPT ![k] = {}]
  /\ opLock' = IF opLock = k THEN Nobody ELSE opLock

\* The modified copy is written ...
LockSave(k) ==
  /\ op[k] = "save" /\ ids < MaxId
  /\ ids' = ids + 1
  /\ \E s \in file[k] :
       /\ snaps' = snaps \cup {[s EXCEPT !.id = ids + 1, !.locked = ~ s.locked]}
       /\ touched' = touched \cup {s.group}
  /\ op' = [op EXCEPT ![k] = "find"]
  /\ UNCHANGED <<clock, jobVars, opLock, file>>

Copies(s) == {c \in snaps : /\ c.id # s.id /\ c.time = s.time /\ c.group = s.group
                            /\ c.locked = ~ s.locked}

\* ... found ...
LockFind(k) ==
  /\ op[k] = "find"
  /\ \E s \in file[k] : Copies(s) # {}
  /\ op' = [op EXCEPT ![k] = "delete"]
  /\ UNCHANGED <<snaps, clock, ids, jobVars, opLock, file, touched>>

\* ... and the original removed.
LockDelete(k) ==
  /\ op[k] = "delete"
  /\ snaps' = snaps \ file[k]
  /\ LockEnd(k)
  /\ UNCHANGED <<clock, ids, jobVars, touched>>

\* The snapshot is not found, a step fails, or the copy has disappeared.
LockFails(k) ==
  /\ op[k] # "idle"
  /\ LockEnd(k)
  /\ UNCHANGED <<snaps, clock, ids, jobVars, touched>>

\* The client goes away: the op lock is released, the blocking work goes on.
LockDrop(k) ==
  /\ opLock = k
  /\ opLock' = Nobody
  /\ UNCHANGED <<snaps, clock, ids, jobVars, op, file, touched>>

-----------------------------------------------------------------------------
\* The process ends; the repository stays.
Crash ==
  /\ (\E j \in Jobs : pc[j] # "idle") \/ (\E k \in Lockers : op[k] # "idle")
  /\ pc' = [j \in Jobs |-> "idle"]
  /\ args' = [j \in Jobs |-> NoArgs]
  /\ time' = [j \in Jobs |-> 0]
  /\ doomed' = [j \in Jobs |-> {}]
  /\ round' = [j \in Jobs |-> 0]
  /\ empty' = [j \in Jobs |-> 0]
  /\ batch' = [j \in Jobs |-> 1]
  /\ opLock' = Nobody
  /\ op' = [k \in Lockers |-> "idle"]
  /\ file' = [k \in Lockers |-> {}]
  /\ UNCHANGED <<snaps, clock, ids, touched>>

JobStep(j) ==
  \/ \E g \in Groups, t, s \in BOOLEAN : Backup(j, g, t, s)
  \/ \E t, s, dry \in BOOLEAN : ApplyRetention(j, t, s, dry)
  \/ \E s \in snaps, include \in BOOLEAN : Forget(j, {s}, include)
  \/ Save(j) \/ SaveFails(j)
  \/ \E D \in SUBSET snaps : TimeList(j, D)
  \/ TimeDelete(j) \/ EndSpace(j)
  \/ \E K, D \in SUBSET snaps : SpaceList(j, K, D)
  \/ (\E freed \in {"nothing", "less", "enough"} : SpaceDelete(j, freed)) \/ SpaceFails(j)
  \/ ForgetCheck(j) \/ ForgetDelete(j)

LockStep(k) ==
  \/ \E s \in snaps : LockList(k, s)
  \/ LockSave(k) \/ LockFind(k) \/ LockDelete(k) \/ LockFails(k) \/ LockDrop(k)

Next ==
  \/ \E j \in Jobs : JobStep(j)
  \/ \E k \in Lockers : LockStep(k)
  \/ Crash

Spec == Init /\ [][Next]_vars

-----------------------------------------------------------------------------
(* Properties. *)

TypeOK ==
  /\ snaps \subseteq Snapshots
  /\ clock \in 0 .. MaxTime /\ ids \in 0 .. MaxId
  /\ pc \in [Jobs -> {"idle", "room", "room_delete", "save", "time", "time_delete", "space",
                      "space_delete", "forget_check", "forget_delete"}]
  /\ args \in [Jobs -> Args]
  /\ time \in [Jobs -> 0 .. MaxTime]
  /\ doomed \in [Jobs -> SUBSET Snapshots]
  /\ round \in [Jobs -> 0 .. MaxRounds]
  /\ empty \in [Jobs -> 0 .. 1]
  /\ batch \in [Jobs -> Nat]
  /\ opLock \in Lockers \cup {Nobody}
  /\ op \in [Lockers -> {"idle", "save", "find", "delete"}]
  /\ file \in [Lockers -> SUBSET Snapshots]
  /\ touched \subseteq Groups

\* "Locked snapshots (`DeleteOption::Never`) are never deleted by any rule"
\* (retention.rs), and forget "refuses them unless include_locked is set"
\* (ipc.proto): although lists are old when they are acted upon, a locked
\* file goes only when it is unlocked or its deletion is asked for.
LockedStays ==
  [][\A s \in snaps : s.locked /\ s \notin snaps' =>
       \/ \E k \in Lockers : op[k] = "delete" /\ s \in file[k]
       \/ \E j \in Jobs : pc[j] = "forget_delete" /\ args[j].include /\ s.id \in args[j].ids]_vars

\* "Never deleted by this rule: ... the newest snapshot of every group"
\* (retention.rs): however many backups and retention runs delete from old
\* lists at the same time, the newest snapshot of a group stays until the
\* group has a newer one, unless snapshots of the group are forgotten, locked
\* or unlocked by hand.
NewestKept ==
  [][\A s \in snaps : s \notin snaps' /\ s.group \notin touched' =>
       \E n \in snaps' : n.group = s.group /\ n.time > s.time]_vars
=============================================================================
