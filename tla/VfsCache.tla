----------------------------- MODULE VfsCache -----------------------------
(***************************************************************************)
(* The per-user operator caches of crates/ipc/src/store.rs                 *)
(* (StorageManager): get_vfs, refresh_degraded, build_vfs, create_for_vfs, *)
(* invalidate_vfs and get_data_operator, with the two requests of          *)
(* server.rs that invalidate (SetVfs after its database commit, and        *)
(* ReloadVfs) and the ones that look up (get_operator, backup and restore).*)
(*                                                                         *)
(* One user, whose configuration is a version number: version v is what    *)
(* the v-th SetVfs wrote.  Every version has the same points, as when      *)
(* SetVfs changes a point's backend and keeps its id.  Each access to a    *)
(* concurrent map, cache or lock is one step.                              *)
(***************************************************************************)
EXTENDS Integers, FiniteSets

CONSTANTS Points,      \* the user's point ids
          Tasks,       \* request handlers
          Refreshers,  \* the background tasks that refreshes could be spawned as
          MaxVersion,  \* bound: SetVfs commits
          MaxGen       \* bound: invalidations

ASSUME CacheAssumption ==
  /\ IsFiniteSet(Points)
  /\ Refreshers # {} /\ Refreshers \cap Tasks = {}
  /\ MaxVersion \in Nat /\ MaxGen \in Nat

Builders == Tasks \cup Refreshers
Versions == 0 .. MaxVersion
NoVersion == -1

\* An operator in a cache: the version it was built from and the points mounted.
Entries == [ver : Versions, mounted : SUBSET Points]
NoEntry == [ver |-> NoVersion, mounted |-> {}]
\* A health entry; `ver` records the version it was observed under.
NoHealth == [status |-> "unknown", ver |-> NoVersion]
NoLock == "unlocked"
\* Where a request or a build can be.
Labels == {"idle", "get_vfs", "get_degraded", "refresh", "lock", "recheck", "generation",
           "probe", "health", "clear_other", "insert", "unrefresh", "get_data",
           "insert_data"}

ASSUME LockAssumption == NoLock \notin Builders

VARIABLES db,           \* the version in the database
          up,           \* up: the points whose backend can be reached
          gen,          \* vfs_generation
          vfsOps,       \* vfs_ops
          degradedOps,  \* degraded_ops
          health,       \* health[p]
          dataOps,      \* dataOps[p]: the version data_ops holds for p, or NoVersion
          refreshing,   \* the user is in `refreshing`
          lock,         \* holder of the user's build lock
          pc,           \* pc[b]: where request or background task b is
          user,         \* user[b]: the version b read from the database
          generation,   \* generation[b]: b's local `generation`
          mounted,      \* mounted[b]: the points whose probe succeeded
          todo,         \* todo[b]: points b has still to record the health of, or to
                       \* get a data operator for
          adminPc,      \* where SetVfs or ReloadVfs is
          adminTodo     \* points invalidate_vfs has still to visit

cacheVars == <<vfsOps, degradedOps, health, dataOps>>
buildVars == <<lock, generation, mounted, todo>>
adminVars == <<db, gen, adminPc, adminTodo>>
vfsVars == <<db, up, gen, vfsOps, degradedOps, health, dataOps, refreshing, lock, pc, user,
          generation, mounted, todo, adminPc, adminTodo>>

CacheInit ==
  /\ db = 0
  /\ up \in SUBSET Points
  /\ gen = 0
  /\ vfsOps = NoEntry /\ degradedOps = NoEntry
  /\ health = [p \in Points |-> NoHealth]
  /\ dataOps = [p \in Points |-> NoVersion]
  /\ refreshing = FALSE
  /\ lock = NoLock
  /\ pc = [b \in Builders |-> "idle"]
  /\ user = [b \in Builders |-> 0]
  /\ generation = [b \in Builders |-> 0]
  /\ mounted = [b \in Builders |-> {}]
  /\ todo = [b \in Builders |-> {}]
  /\ adminPc = "idle"
  /\ adminTodo = {}

Goto(b, label) == pc' = [pc EXCEPT ![b] = label]

\* Request t is answered.
Answer(t) == Goto(t, "idle") /\ user' = [user EXCEPT ![t] = 0]

-----------------------------------------------------------------------------
(* get_operator and get_vfs. *)

\* get_user: the record is read once, and used for the rest of the request.
GetUser(t) ==
  /\ pc[t] = "idle"
  /\ user' = [user EXCEPT ![t] = db]
  /\ \/ Goto(t, "get_vfs") /\ UNCHANGED todo
     \/ Goto(t, "get_data") /\ \E p \in Points : todo' = [todo EXCEPT ![t] = {p}]
  /\ UNCHANGED <<up, cacheVars, refreshing, lock, generation, mounted, adminVars>>

GetFull(t) ==
  /\ pc[t] = "get_vfs"
  /\ IF vfsOps # NoEntry THEN Answer(t) ELSE Goto(t, "get_degraded") /\ UNCHANGED user
  /\ UNCHANGED <<up, cacheVars, refreshing, buildVars, adminVars>>

GetDegraded(t) ==
  /\ pc[t] = "get_degraded"
  /\ Goto(t, IF degradedOps # NoEntry THEN "refresh" ELSE "lock")
  /\ UNCHANGED <<up, cacheVars, refreshing, buildVars, user, adminVars>>

\* Request t is served the degraded operator and leaves its record to a
\* background build, spawned as any task that is not running.
SpawnRefresh(t) ==
  \E r \in Refreshers :
    /\ pc[r] = "idle"
    /\ user' = [user EXCEPT ![t] = 0, ![r] = user[t]]
    /\ pc' = [pc EXCEPT ![t] = "idle", ![r] = "lock"]

\* Mutant: the refresh is spawned without looking at `refreshing`.
RefreshDegradedUnchecked(t) ==
  /\ pc[t] = "refresh"
  /\ refreshing' = TRUE
  /\ SpawnRefresh(t)
  /\ UNCHANGED <<up, cacheVars, buildVars, adminVars>>

\* refresh_degraded: only the caller that enters the user in `refreshing`
\* spawns a build.
RefreshDegraded(t) ==
  /\ pc[t] = "refresh"
  /\ IF refreshing
     THEN Answer(t) /\ UNCHANGED refreshing
     ELSE refreshing' = TRUE /\ SpawnRefresh(t)
  /\ UNCHANGED <<up, cacheVars, buildVars, adminVars>>

-----------------------------------------------------------------------------
(* build_vfs, on a blocking thread, under the user's build lock. *)

Lock(b) ==
  /\ pc[b] = "lock"
  /\ lock = NoLock
  /\ lock' = b
  /\ Goto(b, "recheck")
  /\ UNCHANGED <<up, cacheVars, refreshing, user, generation, mounted, todo, adminVars>>

\* Mutant: the background build ends without leaving `refreshing`.
FinishForgotten(b) ==
  /\ lock' = NoLock
  /\ user' = [user EXCEPT ![b] = 0]
  /\ generation' = [generation EXCEPT ![b] = 0]
  /\ mounted' = [mounted EXCEPT ![b] = {}]
  /\ Goto(b, "idle")

\* The build returns: the lock is released and the locals are gone; the
\* background task leaves `refreshing` in a step of its own.
Finish(b) ==
  /\ lock' = NoLock
  /\ user' = [user EXCEPT ![b] = 0]
  /\ generation' = [generation EXCEPT ![b] = 0]
  /\ mounted' = [mounted EXCEPT ![b] = {}]
  /\ Goto(b, IF b \in Refreshers THEN "unrefresh" ELSE "idle")

Recheck(b) ==
  /\ pc[b] = "recheck"
  /\ IF vfsOps # NoEntry
     THEN Finish(b)
     ELSE Goto(b, "generation") /\ UNCHANGED <<lock, user, generation, mounted>>
  /\ UNCHANGED <<up, cacheVars, refreshing, todo, adminVars>>

ReadGeneration(b) ==
  /\ pc[b] = "generation"
  /\ generation' = [generation EXCEPT ![b] = gen]
  /\ Goto(b, "probe")
  /\ UNCHANGED <<up, cacheVars, refreshing, lock, user, mounted, todo, adminVars>>

\* create_for_vfs probes every point in parallel ...
Probe(b) ==
  /\ pc[b] = "probe"
  /\ mounted' = [mounted EXCEPT ![b] = up]
  /\ todo' = [todo EXCEPT ![b] = Points]
  /\ Goto(b, "health")
  /\ UNCHANGED <<up, cacheVars, refreshing, lock, user, generation, adminVars>>

\* Mutant: a failed point keeps the status "unknown" under a version.
SetHealthUnknown(b, p) ==
  /\ pc[b] = "health"
  /\ p \in todo[b]
  /\ health' = [health EXCEPT ![p] =
       [status |-> IF p \in mounted[b] THEN "healthy" ELSE "unknown", ver |-> user[b]]]
  /\ todo' = [todo EXCEPT ![b] = @ \ {p}]
  /\ UNCHANGED <<up, vfsOps, degradedOps, dataOps, refreshing, lock, pc, user, generation,
                 mounted, adminVars>>

\* ... and records the outcome of each, whatever happened to the
\* configuration meanwhile.
SetHealth(b, p) ==
  /\ pc[b] = "health"
  /\ p \in todo[b]
  /\ health' = [health EXCEPT ![p] =
       [status |-> IF p \in mounted[b] THEN "healthy" ELSE "failed", ver |-> user[b]]]
  /\ todo' = [todo EXCEPT ![b] = @ \ {p}]
  /\ UNCHANGED <<up, vfsOps, degradedOps, dataOps, refreshing, lock, pc, user, generation,
                 mounted, adminVars>>

\* The operator is cached only if no invalidation began since the generation
\* was read.
CheckGeneration(b) ==
  /\ pc[b] = "health"
  /\ todo[b] = {}
  /\ IF generation[b] # gen
     THEN Finish(b)
     ELSE Goto(b, "clear_other") /\ UNCHANGED <<lock, user, generation, mounted>>
  /\ UNCHANGED <<up, cacheVars, refreshing, todo, adminVars>>

Degraded(b) == mounted[b] # Points

\* Mutant: the other cache keeps its entry.
ClearOtherSkipped(b) ==
  /\ pc[b] = "clear_other"
  /\ Goto(b, "insert")
  /\ UNCHANGED <<up, cacheVars, refreshing, buildVars, user, adminVars>>

ClearOther(b) ==
  /\ pc[b] = "clear_other"
  /\ IF Degraded(b)
     THEN vfsOps' = NoEntry /\ UNCHANGED degradedOps
     ELSE degradedOps' = NoEntry /\ UNCHANGED vfsOps
  /\ Goto(b, "insert")
  /\ UNCHANGED <<up, health, dataOps, refreshing, buildVars, user, adminVars>>

Insert(b) ==
  LET entry == [ver |-> user[b], mounted |-> mounted[b]] IN
  /\ pc[b] = "insert"
  /\ IF Degraded(b)
     THEN degradedOps' = entry /\ UNCHANGED vfsOps
     ELSE vfsOps' = entry /\ UNCHANGED degradedOps
  /\ Finish(b)
  /\ UNCHANGED <<up, health, dataOps, refreshing, todo, adminVars>>

\* `refreshing.remove` after the background build, however it ended.
EndRefresh(r) ==
  /\ pc[r] = "unrefresh"
  /\ refreshing' = FALSE
  /\ Goto(r, "idle")
  /\ UNCHANGED <<up, cacheVars, buildVars, user, adminVars>>

-----------------------------------------------------------------------------
(* get_data_operator, for backup and restore jobs. *)

GetData(t) ==
  /\ pc[t] = "get_data"
  /\ IF \A p \in todo[t] : dataOps[p] # NoVersion
     THEN Answer(t) /\ todo' = [todo EXCEPT ![t] = {}]
     ELSE Goto(t, "insert_data") /\ UNCHANGED <<user, todo>>
  /\ UNCHANGED <<up, cacheVars, refreshing, lock, generation, mounted, adminVars>>

InsertData(t) ==
  /\ pc[t] = "insert_data"
  /\ dataOps' = [p \in Points |-> IF p \in todo[t] THEN user[t] ELSE dataOps[p]]
  /\ Answer(t)
  /\ todo' = [todo EXCEPT ![t] = {}]
  /\ UNCHANGED <<up, vfsOps, degradedOps, health, refreshing, lock, generation, mounted,
                 adminVars>>

-----------------------------------------------------------------------------
(* SetVfs (commit, then invalidate_vfs) and ReloadVfs (invalidate_vfs). *)

SetUsers ==
  /\ adminPc = "idle"
  /\ db < MaxVersion /\ gen < MaxGen
  /\ db' = db + 1
  /\ adminPc' = "bump"
  /\ UNCHANGED <<up, gen, cacheVars, refreshing, buildVars, pc, user, adminTodo>>

\* ReloadVfs goes on to rebuild with the record it read first: a request
\* like any other that called get_user before the invalidation.
ReloadVfs ==
  /\ adminPc = "idle"
  /\ gen < MaxGen
  /\ adminPc' = "bump"
  /\ UNCHANGED <<db, up, gen, cacheVars, refreshing, buildVars, pc, user, adminTodo>>

BumpGeneration ==
  /\ adminPc = "bump"
  /\ gen' = gen + 1
  /\ adminPc' = "drop_full"
  /\ UNCHANGED <<db, up, cacheVars, refreshing, buildVars, pc, user, adminTodo>>

DropFull ==
  /\ adminPc = "drop_full"
  /\ vfsOps' = NoEntry
  /\ adminPc' = "drop_degraded"
  /\ UNCHANGED <<db, up, gen, degradedOps, health, dataOps, refreshing, buildVars, pc, user,
                 adminTodo>>

DropDegraded ==
  /\ adminPc = "drop_degraded"
  /\ degradedOps' = NoEntry
  /\ adminPc' = "drop_points"
  /\ adminTodo' = Points
  /\ UNCHANGED <<db, up, gen, vfsOps, health, dataOps, refreshing, buildVars, pc, user>>

\* health.remove and data_ops.invalidate for one point.
DropPoint(p) ==
  /\ adminPc = "drop_points"
  /\ p \in adminTodo
  /\ adminTodo' = adminTodo \ {p}
  /\ health' = [health EXCEPT ![p] = NoHealth]
  /\ dataOps' = [dataOps EXCEPT ![p] = NoVersion]
  /\ UNCHANGED <<db, up, gen, vfsOps, degradedOps, refreshing, buildVars, pc, user, adminPc>>

EndInvalidate ==
  /\ adminPc = "drop_points"
  /\ adminTodo = {}
  /\ adminPc' = "idle"
  /\ UNCHANGED <<db, up, gen, cacheVars, refreshing, buildVars, pc, user, adminTodo>>

-----------------------------------------------------------------------------
\* The caches drop entries by idleness, age or capacity.
Evict ==
  /\ \/ vfsOps # NoEntry /\ vfsOps' = NoEntry /\ UNCHANGED <<degradedOps, dataOps>>
     \/ degradedOps # NoEntry /\ degradedOps' = NoEntry /\ UNCHANGED <<vfsOps, dataOps>>
     \/ \E p \in Points :
          /\ dataOps[p] # NoVersion
          /\ dataOps' = [dataOps EXCEPT ![p] = NoVersion]
          /\ UNCHANGED <<vfsOps, degradedOps>>
  /\ UNCHANGED <<up, health, refreshing, buildVars, pc, user, adminVars>>

\* A backend goes away or comes back.
Flip(p) ==
  /\ up' = IF p \in up THEN up \ {p} ELSE up \cup {p}
  /\ UNCHANGED <<cacheVars, refreshing, buildVars, pc, user, adminVars>>

BuildStep(b) ==
  \/ Lock(b) \/ Recheck(b) \/ ReadGeneration(b) \/ Probe(b)
  \/ (\E p \in Points : SetHealth(b, p))
  \/ CheckGeneration(b) \/ ClearOther(b) \/ Insert(b)

RequestStep(t) ==
  \/ GetFull(t) \/ GetDegraded(t) \/ RefreshDegraded(t) \/ GetData(t) \/ InsertData(t)

AdminStep ==
  \/ BumpGeneration \/ DropFull \/ DropDegraded
  \/ (\E p \in Points : DropPoint(p)) \/ EndInvalidate

CacheNext ==
  \/ \E t \in Tasks : GetUser(t) \/ RequestStep(t)
  \/ \E b \in Builders : BuildStep(b)
  \/ \E r \in Refreshers : EndRefresh(r)
  \/ SetUsers \/ ReloadVfs \/ AdminStep
  \/ Evict
  \/ \E p \in Points : Flip(p)

CacheSpec == CacheInit /\ [][CacheNext]_vfsVars

\* The runtime runs every started request and build; clients keep asking.
Fairness ==
  /\ \A t \in Tasks : WF_vfsVars(RequestStep(t)) /\ WF_vfsVars(GetUser(t))
  /\ \A t \in Tasks : SF_vfsVars(GetUser(t) /\ pc'[t] = "get_vfs")
  /\ \A b \in Builders : SF_vfsVars(Lock(b)) /\ WF_vfsVars(BuildStep(b))
  /\ \A r \in Refreshers : WF_vfsVars(EndRefresh(r))
  /\ WF_vfsVars(AdminStep)

CacheLiveSpec == CacheSpec /\ Fairness

-----------------------------------------------------------------------------
(* Properties. *)

CacheTypeOK ==
  /\ db \in Versions /\ gen \in 0 .. MaxGen
  /\ up \subseteq Points
  /\ vfsOps \in Entries \cup {NoEntry} /\ degradedOps \in Entries \cup {NoEntry}
  /\ health \in [Points -> [status : {"healthy", "failed"}, ver : Versions] \cup {NoHealth}]
  /\ dataOps \in [Points -> Versions \cup {NoVersion}]
  /\ refreshing \in BOOLEAN
  /\ lock \in Builders \cup {NoLock}
  /\ pc \in [Builders -> Labels]
  /\ user \in [Builders -> Versions]
  /\ generation \in [Builders -> 0 .. MaxGen]
  /\ mounted \in [Builders -> SUBSET Points]
  /\ todo \in [Builders -> SUBSET Points]
  /\ adminPc \in {"idle", "bump", "drop_full", "drop_degraded", "drop_points"}
  /\ adminTodo \subseteq Points

\* At most one of a full and a degraded operator is cached (store.rs
\* build_vfs), and the full one misses no point: a request served from
\* vfs_ops, which never triggers a refresh, is never stuck with a partial
\* tree.
OneOperatorCached ==
  /\ vfsOps # NoEntry => vfsOps.mounted = Points
  /\ degradedOps # NoEntry => degradedOps.mounted # Points
  /\ vfsOps = NoEntry \/ degradedOps = NoEntry

\* However many requests find the degraded operator, one background build at
\* a time is under way for the user, and the `refreshing` mark is set exactly
\* until its last step (store.rs refresh_degraded): refreshes neither pile up
\* on the build lock nor get blocked by a mark nobody will remove.
RefreshIsSingleFlight ==
  /\ refreshing <=> \E r \in Refreshers : pc[r] # "idle"
  /\ \A r, s \in Refreshers : pc[r] # "idle" /\ pc[s] # "idle" => r = s

\* When every backend stays reachable and clients keep asking, the user gets
\* the complete tree again and again, whatever failed before (store.rs
\* get_vfs, refresh_degraded).
RecoversWhenHealthy == (<>[](up = Points)) => []<>(vfsOps # NoEntry)

\* "Never put a stale user configuration back into the cache" (store.rs
\* build_vfs): once no SetVfs is under way, a cached tree is built from the
\* configuration in the database.
NoStaleVfs ==
  adminPc = "idle" /\ vfsOps # NoEntry => vfsOps.ver = db
=============================================================================
