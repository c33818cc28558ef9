# A TLA+ verification of vaulton-ipc

`vaulton-ipc` is a gRPC server (crate `ipc`) that gives each user a virtual file
system composed of *points* (storage backends, and rustic backup repositories),
runs backup jobs on them and keeps byte quotas (crate `opendal-vfs`). This
directory models the parts of it in which tasks, threads, callbacks, failures
and restarts meet: TLA+ modules, TLC configurations for small instances of them,
and TLAPS proofs for every instance.

Paths below are relative to `crates/`. `PROJECT.json` maps every definition to
the lines it models, lists the runs, the mutants (one plausible bug per checked
property, which TLC must then find), the hazards and the findings.

## The system

| Part | State | Operations | What is hard | What makes it correct |
|---|---|---|---|---|
| Quota engine, `opendal-vfs/src/layers/quota.rs` 130-475, `ipc/src/db.rs` | one atomic counter and dirty flag per id behind a `OnceCell`; the quota table | commit, delete, reset, read, periodic sync | lock-free CAS, lazy load, flag and total are separate atomics, failing sync, restart | every call is one atomic change of one total; no unsynced total is forgotten; a total at rest reaches the database |
| Quota layer, `quota.rs` 600-1034 | objects, the total | staged write, copy, delete, rename | a stat, a commit, a rename with a retry, a rollback and a clean-up, each able to fail or to be abandoned by its client | at rest, what is stored is counted, and no more than that |
| VFS caches, `ipc/src/store.rs` | full and degraded operators per user, point health, data operators, a generation | build, background refresh, invalidate | builds run while SetVfs invalidates; backends come and go | one operator cached; a refresh at a time; recovery; nothing stale |
| Jobs and events, `ipc/src/server.rs` 945-1030, 1450-1585, `event_bus.rs`, `progress.rs` | job tables, a bounded channel, a bounded buffer | register, progress, finish, Poll, GetJob, CancelJob | full queues, blocking sends on runtime workers, two tables read one after the other | no critical event lost or reordered; every end reported; GetJob knows every job |
| Write handles, `server.rs` 96-201, 1030-1166, 2643-2969 | handle map, per-handle mutex, per-point lock | OpenWrite, WriteAt, SetLength, CloseWrite, reaper, shutdown | a handle closed behind its client's back, cancelled requests | nothing written after the last sync; closed once; eviction always finalizes |
| SetVfs and key rotation, `server.rs` 2350-2530, `store.rs` 269-433, 796-826 | configuration in the database, keys in each repository | SetVfs in two phases | failures, crashes and lost clients between the phases, overlapping requests | a repository goes on to open with the configured password |
| Snapshots and retention, `server.rs` 1596-2132, `retention.rs` | snapshot files, lists made from them | backup, retention, forget, lock and unlock | every deletion works from a list made earlier, by several jobs at once | locked snapshots stay; the newest of each group stays |
| Transfer jobs, `server.rs` 599-865, 3046-3211 | source and destination trees, a plan | copy, move, cancel | a check, a listing, then many calls that each may fail, a clean-up and a delete of the source | no file is lost; success means complete; every job ends |
| Read handles, `server.rs` 113-139, 1062-1140, 1173-1299, 2590-2649 | one cached reader per user and path, with its length | read, invalidate, reap | writers invalidate before they write; opening is several calls; removal is by key | reads are up to date unless raced; idle readers are dropped |
| Mount table, paths, read-only layer, `opendal-vfs/src/` (`layers/vfs.rs`, `layers/read_only.rs`, `lib.rs`, `lister.rs`, `deleter.rs`), `ipc/src/utils.rs`, `server.rs` 389-519 | the accepted names, a table per operator | accept a configuration, build, resolve, stat, list, write, delete, copy, rename | name collisions, four resolvers, emulated renames, permissions checked on old configurations | accepted configurations build; resolvers agree; the tree is walkable; read-only stays so |

The parts meet in few places: SetVfs commits the configuration and then cancels
jobs, closes handles, invalidates caches, clears quotas and removes old keys;
each of these effects is an action of the module of the part it acts on (for
instance `BumpGeneration ... EndInvalidate` in VfsCache, `Evict` in
WriteHandles, requests with `op = "reset"` in QuotaEngine). Jobs report through
the event bus; backups and retention read the quota.

## The modules

Each component module has its state as VARIABLES, one action per step another
task can observe, and its properties at the end; `MC<name>` instantiates it and
`<name>.cfg` gives the bounds. Operators named in a comment as *Mutant* are the
faulty variants the mutants of `PROJECT.json` put in place.

**QuotaLedger** is the abstract promise of the engine: totals that change in one
step per call, a copy in the database that is allowed to lag and may be written
from an older copy, restarts that fall back to it. **QuotaEngine** is the code:
every load, compare-exchange, store, swap, use of the `OnceCell` and database call is
a step of a thread or of the sync task. In the ledger a
commit may fail before it is admitted (its bucket cannot be loaded); from then on it
takes effect, or is refused at a moment whose total leaves no room for it, or the
process restarts. `LedgerSpec` states that the engine
implements the ledger under the mapping that reads a bucket being loaded as its
persisted total.

**QuotaLayer** is the writer, copier, deleter and rename above the engine
(commits are atomic there, which `LedgerSpec` justifies). The sizes found by
`stat`, the commit, the rename, its retry and the rollback are separate steps,
and each backend call may fail, the clean-up of the staging object too. A staging
object is an object of the backend like any other: it stays when its removal fails,
when a failed inner close or abort returns early, and when the client goes away and
the future of `close` is dropped (`Cancel`). The history `uncounted` adds up the bytes
that operations leave stored and in nobody's total, bounded by `MaxUncounted`.
`SharedPaths` says whether two callers may work on one path; `StatMayFail` whether
`size_of` may answer 0 for an object that is there.

**VfsCache** is `get_vfs`, `build_vfs`, `refresh_degraded`, `invalidate_vfs`,
`get_data_operator` and `set_health` for one user, with configurations as
version numbers and each map access as a step. `Refreshers` are the tasks a
background refresh may be spawned as; there are more than one, so that only the mark
in `refreshing` keeps two refreshes apart.

**EventBus** is the job table, `finish_job`, the bounded channel, the bridge
thread with its buffer, Poll and GetJob; `Workers` are the threads of the async
runtime, and an async job that blocks in a send holds one.

**WriteHandles** is the four handle RPCs, path-based SetLength, the reaper,
SetVfs's invalidation and shutdown; a file is its length.

**KeyRotation** is `set_vfs` as seen by the repositories: `old`, `new`, the
changes still to handle in the current phase, the database, the set of passwords that
open each repository, jobs that create missing repositories, clients that leave
(the blocking key operation goes on without them) and crashes. `missing` is a
history variable: it records the changes for which phase 1 found no repository.

**Retention** is backup (with the space run before and the full run after it),
`apply_retention`, `forget` and `set_snapshot_lock` on one repository. A
snapshot is its id, time, group (host, label and paths) and lock. Listing and
deleting are separate steps of each job. Sizes are left open: a space round
deletes any non-empty prefix, oldest first, of the candidates that is at least
`min_batch` long, and the prune afterwards frees nothing, less than wanted or
enough. `touched` is a history variable: the groups forgotten, locked or
unlocked by hand.

**Transfer** is `vfs_transfer`, `run_transfer`, `copy_tree`, `copy_one` and
`stream_copy`. A place is absent, a file or a directory of files, on one of two
writable local points or a point users may not write; a file is a datum and how
many of its chunks are there. Every backend call is a step that may fail, jobs
can be cancelled at any step, users upload and truncate, and the process may
end. The code keeps nobody off a transfer's places; the history `kept` (data no
user changed and no two jobs disputed) and `clean` (nobody else used the job's
places) say what the properties speak of.

**ReadHandles** is one key of `read_handles`: lookup, check, stat, open, insert
and read of each request as separate steps, the two-step writers, the requests and
jobs that change a file and invalidate nothing (`Touch`, `Remove`, and `JobWrites` for
restores and transfers, which rewrite a file or put another in its place), a SetVfs
that puts the path on another backend, and the reaper. A local handle holds an inode,
a remote one goes by path. `suspect` and `late` are history: the file was changed
behind the handle's back, by a removal, a job or a remote client, or a write or a
SetVfs was under way while it was being opened.

**MountTable** is in three parts: `normalize_vfs_users` accepts a configuration
point by point; `create_for_vfs` and `VfsBuilder` mount the points that load;
operations run on the tree, each backend call a step. The algorithms are
operators on paths: `ResolvePath`, `VirtualChildren`, `Stat`, `List` for the
tree, `ResolveFilePath`, `ResolvePointPath` and `ResolveDataFilePath` for the
handlers. A segment is a text with the suffixes appended to it, so "a" and
"a-<id>" differ and one begins with the other.

**Filters** defines `Without(s, D)`, a sequence without the elements of a set:
`validate_vfs_path` drops empty and "." segments with it, and EventBus uses it for
the critical events of one job.

**QuotaEngineProofs, QuotaLayerProofs, EventBusProofs, TransferProofs** hold the
proofs about the component each is named after. Three modules hold those of two
related components, and extend the modules of both: **TreeProofs** (MountTable and
VfsCache), **RepositoryProofs** (Retention and KeyRotation), **HandleProofs**
(ReadHandles and WriteHandles). The second of each pair therefore prefixes the names
both would define (`CacheSpec`, `RotationSpec`, `WriteSpec`, and so on); no theorem
is about both.
**FoldTheorems** holds what several of them need about sums, filters and induction.

## The runs

Bounds are the smallest at which every action fires and every mutant is caught.

| Run | Instance | States | Shows |
|---|---|---|---|
| `engine` | 1 id, 2 threads, sizes 0-1, limit 1, u64 of 0-2 | 352 k | totals stay in u64; `UnsyncedIsRemembered`; the engine implements the ledger; `EventuallyDurable` |
| `layer` | 4 paths, staging paths among them, sizes 0-2, 2 callers on paths of their own, limit 3, 2 bytes uncounted | 237 k | `StoredIsCounted`, with failing renames, deletes, stats and clean-ups and lost clients |
| `cache` | 1 request task, 2 refreshers, 2 configurations | 130 k | one operator cached, one refresh at a time, recovery when all backends are up |
| `cache_stale` | same | | **violated**: a tree of the replaced configuration stays cached |
| `bus` | 2 jobs, one async, queue 2, buffer 2, 2 workers | 190 k | critical events complete and in order, every end reported, no gap in GetJob |
| `handles` | 2 files, 1 handle, 2 tasks | 544 k | nothing written after the last sync, closed once, evicted handles finalized |
| `rotation` | 2 points, 2 repositories, 2 passwords, 1 request, 1 job | 131 k | `KeepsOpening` |
| `rotation_concurrent` | 1 point that opens with its one key, 2 requests | | **violated** (`KeepsOpening`): one rotates the key, the other, which read the same configuration, commits the old password, whose key is removed |
| `retention` | 1 group, 2 jobs, 1 lock request, 2 backups, 3 files, 2 rounds | 1.8 M | `LockedStays`, `NewestKept` |
| `transfer` | 2 jobs, 4 places on 3 points, 2 file names, 2 data of 1 chunk, 3 requests | 359 k | `NothingLost`, `SuccessComplete`, `TransferEnds` |
| `reads` | 2 reads, 1 writer, 2 configurations (local, remote), 3 inodes, 2 changes | 2.0 M | `StaleOnlyIfRaced`, `IdleReaped` |
| `mounts` | up to 3 points, 2 of them alike when shortened, every name, kind and loaded subset; operations on up to 2 points with 2 files | 684 k | `BuildNeverFails`, `RoutesAgree`, `TreeIsWalkable`, `ReadOnlyKept`, `RenameKeepsData` |

Five further configurations are kept for the traces described under *Known
deviations*; TLC reports a violation on each:

| Configuration | Instance | Violates |
|---|---|---|
| `QuotaEngineReset.cfg` | 2 threads, sizes 0 and 2 | `ResetMakesZero`: a reset meets a load |
| `QuotaLayerShared.cfg` | 3 paths, 2 callers on any, no failures | `StoredIsCounted`: two overwrites deduct one object twice |
| `QuotaLayerOverstated.cfg` | 2 paths, 1 writer, failing renames | `NotOverstated`: the rollback restores the bytes of an object the retry removed |
| `EventBusStuck.cfg` | 2 async jobs, 2 workers, queue 1, buffer 1 | `FinishReported`: both workers wait for room that only Poll can make |
| `ReadHandlesStale.cfg` | 2 reads and 1 writer, nothing else | `NoStaleRead`: a handle opened between invalidation and write serves the old length afterwards |

Deadlock is checked except where the instance really comes to a halt: jobs that
are all finished (`bus`), a server that has exited (`handles`), bounds on time
and ids used up (`retention`), requests used up (`transfer`), a tree that failed
to build or has too many points to be operated on (`mounts`).

Two threads are enough for the engine because its calls touch one bucket and
interact pairwise (the CAS loop, the permit of the cell, the sync task); the
proofs remove the bound altogether. Two jobs are enough for retention to delete
from a list the other has outdated; the proofs again hold for any number. One
handle is enough for WriteHandles since handles share only the point's lock and
the file lengths. The event queue and buffer are at their limit with two entries, and
one telemetry event next to a critical one already exercises the displacement. `bus`
has more workers than async jobs, which is the condition under which every end is
reported; `EventBusStuck.cfg` has as many of each. Two refreshers are enough for a second
refresh to start beside a first. Four paths let two callers stage an object each and
put it in place, and two uncounted bytes let a staging object of the largest size, or
two smaller ones, stay behind.
Three requests let two transfers meet on an uploaded file, or a user meet a
transfer between two of its calls; two files are enough for a tree to be copied
in part, and one chunk for a file to be created, filled and cut short. Two changes
let a writer and a SetVfs, or two writers one after the other, surround a read. Three points are enough for a
name to collide with an assigned-looking one and with a twin's suffix; the counter
behind the longest suffix would need a fourth and is not reached.

### Fairness

- QuotaEngine: the sync task ticks for ever (`tokio::time::interval`) and a
  thread that has exchanged a total goes on to mark it; a database that answers
  infinitely often stores infinitely often (strong fairness of `SetBytesOk` per
  id). Nothing is assumed of callers.
- VfsCache: requests and builds that have started go on (tokio runs ready
  tasks); requests keep coming; the build mutex is fair (tokio's mutex is FIFO,
  hence strong fairness of `Lock`).
- EventBus: `finish_job` and the bridge thread go on when they can; clients poll
  for ever and a Poll that can be served infinitely often is (strong fairness).
  Poll needs a free worker, which is what `EventBusStuck.cfg` is about.
- WriteHandles: started requests go on unless cancelled; the closer spawned for
  an evicted handle gets the FIFO mutex (strong fairness).
- Transfer: tokio runs a spawned job, and calls to backends return (weak fairness
  of the job's steps). Nothing is assumed of users, cancels and crashes.
- ReadHandles: time passes and the reaper's interval ticks (weak fairness of
  `Age`, `Tick` and `Reap`). Nothing is assumed of reads.

## The proofs

All proofs are for every value of the constants that satisfies the assumptions
named in the component's module. They say that bounds are numbers, that sets of
paths, points or tasks are finite where the code adds or counts them, that the
sets needed for a filler value are not empty and that filler values are not
members; `MountAssumption` also says that ids differ (`validate_point_ids`
rejects a repeated one) and are none of the two words the model reserves.
`ReadAssumption` says that there are more handle names than reads, so that one is
free when it is needed (at most one handle per read and the one in the map are
alive), and that each configuration can have a file of its own at the start.

**QuotaEngineProofs.** `TypeCorrect`, `Durability` (`UnsyncedIsRemembered`) and
`EngineImplementsLedger` (`LedgerSpec`). `UnsyncedIsRemembered` says that a
loaded total that differs from the database is carried by the dirty flag, by a
thread about to set it, or by the sync in flight. It is not inductive: one also
needs that a cell has at most one initialiser, that threads in the CAS loop
work on loaded cells, and that the copy the sync holds is either still the
total or overtaken by a commit that will mark. `EngineCorrect` is that
invariant, and the refinement follows from it action by action: the
successful CAS is the ledger's commit, `SetBytesOk` its store, the rest stutter
or begin and end calls.

**RepositoryProofs: KeyRotation.** `RotationTypeCorrect` for any number of requests, and
`KeyRotationSafe`: with one SetVfs at a time (`OneRequest`), `KeepsOpening`. The
invariant adds that until its commit a request's `old` is what the database
holds and afterwards `new` is (`Current`), and that every change phase 1 has
handled is a password of the repository unless there is no repository (`Added`).
The commit then finds the new key in place, and removing the old key hurts
nobody since the point is alone on its target. `rotation_concurrent` shows that
`OneRequest` is needed.

**RepositoryProofs: Retention.** `TypeCorrect`, `LockedSafe` and `NewestSafe`, for any
number of jobs, requests and groups. The heart is `Superseded`: every snapshot
on any job's list has, *now*, a newer snapshot in its group that is the newest
of the group, or the group was touched by hand. It survives deletions because
the newest is then on nobody's list, and new backups because a newer one only
takes the newest's place. It rests on times being unique in untouched groups
(`Unique`, `Times`: a backup to come has a time of its own, taken at its start).
`Unlocked` says that lists hold no locked snapshot and that a checked forget
stays checked, since a lock is a new file with an id nobody can have asked for
(`Ids`). `Finite` and `Rounds` are needed for the types.

**FoldTheorems.** The sum of a function over a finite set is defined by a
recursion (`SumFunction` of the community modules). `SumFunctionType`,
`SumFunctionUpdate` and `SumFunctionBound` say what it returns, how it moves when
one value changes, and that it is at most the number of elements times a bound on
the values. The library's induction rules take an operator, which the provers
cannot instantiate; the lemmas go by a minimal counterexample instead: the
strict-subset order on a finite set is well founded (`WFMin`), so a set of
subsets on which the claim fails would have a minimal member, and one unfolding
of the recursion refutes it. In the same way `LeastNatural` gives `NatInduct`,
induction over the members of a given set of numbers, and `SeqInduct`, a set of
sequences that has the empty one and is closed under `Append` has all. The prover
knows nothing of `SelectSeq`, hence `Without`, a recursive function: it exists and
is unique (`KeptExists`, `KeptAgree`), an `Append` adds its element or not
(`WithoutAppend`), and it distributes over concatenation (`WithoutConcat`).

**QuotaLayerProofs.** `TypeCorrect` and `StoredAlwaysCounted` (`StoredIsCounted`).
The latter is about rest, so the invariant has to say what the total holds in the
middle of operations: `Counted` says that the stored bytes plus the sum over the
operations of what each has reserved (`Reserve`: new minus replaced size between
commit and rename, the old size between delete and release, always less the bytes of
its staging object) is at most the total plus the uncounted bytes. That needs `Known`
(the size an operation found is not more than there is: right, or 0 where the stat
failed) and `Exclusive`. The rollback adds, and an addition that saturated would
forget bytes: `Bounded` keeps the total and all rollbacks to come within the limit and
one largest object for each of the N operations. Hence the two hypotheses: one caller
per path (`QuotaLayerShared.cfg` shows it is needed) and `NoSaturation`,
Limit + (N + 1) * MaxSize <= u64::MAX, which real limits and sizes satisfy. Failed stats, renames, deletes and clean-ups and lost
clients are all within the theorem; what they leave uncounted is what `uncounted`
records at the step that leaves it, and no other step loses a byte.

**TreeProofs: VfsCache.** `CacheTypeCorrect`, `RefreshSingleFlight`
(`RefreshIsSingleFlight`) and `OneOperator` (`OneOperatorCached`), for any number
of requests, refreshers, points and versions. Neither property is inductive alone.
That there are never two refreshes rests on the mark: the one caller that finds it
clear sets it in the same step, and it is cleared by the last step of the refresh.
`LockHeld`
and `Paths` say which builds are at which step and that those between taking and
releasing the build lock are one; `OtherCleared` says that a build about to insert
into one cache has just removed the entry of the other, and that nobody without
the lock inserts.

**HandleProofs: WriteHandles.** `WriteTypeCorrect`, `NothingAfterSync` (`SyncedWhenClosed`),
`OneCloser` (`ClosedOnce`) and `WithinQuota`: what was measured of the point at
OpenWrite and the handle's own length stay within `max_bytes`. The invariant
says who holds a handle's mutex (`GuardHeld`), that a handle somebody uses was
opened (`WriteOpened`), what shutdown stops (`Stopped`), that handles in the map are
open (`MapOpen`), and the order the close depends on: `expired` is set before
the mutex is asked for (`ExpiredFirst`), and after the sync nobody is inside
(`ClosedIsFree`). `Fits` carries the quota through the checks made under the mutex.

**HandleProofs: ReadHandles.** `TypeCorrect` (a handle nobody refers to is dropped,
the map holds no expired one) and `StaleRaced` (`StaleOnlyIfRaced`), for any number
of reads, writers and configurations. What makes an answer right is `Current`: the
handle was opened under the present configuration, on the file that is there, and
the file has not grown past the length recorded. The invariant says when it holds:
of the handle in the map unless it is suspect or SetVfs has yet to invalidate it
(`MapCurrent`), of one being opened while nothing overlaps (`OpeningOK`), and of
one used by a read during which nothing changed (`UsedOK`). `WriteOverlaps` is what
the history has to deliver: during a write every opening counts as overtaken and
the handle in the map as suspect. `OneFileEach` says that two configurations never
lead to one file, so a removal or a job on one leaves the handles of the other alone. `Fresh` says that a handle about to be inserted
is nobody else's. A file that shrank needs no such care: a local read returns what is
there, a remote one fails. The exceptions of `StaleOnlyIfRaced` are thus exactly a
handle opened while a write or a SetVfs was under way, and a file since removed,
written by a job or changed remotely; `ReadHandlesStale.cfg` shows the first to be real.

**EventBusProofs.** `BusTypeCorrect` (queue, bridge and buffer within their
capacities, and no more workers taken than there are), `NoGapEver`
(`GetJobSeesNoGap`) and `CriticalAlwaysKept` (`CriticalKept`), for any number of
jobs and workers and any capacities. `NoGapEver` rests on `Followed`: a job leaves
the running ones only after its result is published, so the result is there when
GetJob's second lookup comes. `CriticalKept` is inductive beside it: what Poll returned of a job followed by what
is in the buffer, the bridge and the queue is what the job sent. A move from one to
the next leaves their concatenation alone, a displacement takes out an element
`Without` leaves out anyway, and a send appends to the queue and to what was sent.

**TransferProofs.** `TransferTypeCorrect`, `NothingEverLost` (`NothingLost`) and
`SuccessIsComplete` (`SuccessComplete`, an action property), for any number of
jobs, places, files and data of any length. The invariant has three parts.
`ControlInv` says what a job's record and a place may hold at each step of the
job; its `Progress` says that the bytes reported and those to come are the bytes
listed, a sum over the plan, from which the progress never exceeds the total
promised. `KeptInv` is for `NothingLost`: every kept datum has a whole copy at a
place no job will write over (`Safe`), every job has copied the kept files of its
source as far as it has come (`Copied`), and jobs of which one writes where the
other works handle none (`Disputes`). A move may then delete its source since the
destination holds all of it. `CleanInv` is for `SuccessComplete`: of a job nobody
interfered with, the destination holds exactly the part of the plan copied so far
and the source is still what was listed (`DestOK`, `SourceOK`).

**TreeProofs: MountTable.** For any points, names and files: `TypeCorrect`,
`AcceptedAlwaysBuilds` (`BuildNeverFails`), `ReadOnlyIsNeverWritten`
(`ReadOnlyKept`), `RenameNeverLoses` (`RenameKeepsData`) and
`TreeAlwaysWalkable` (`TreeIsWalkable`), `EverySpellingAgrees` (`AllAgree`) and
`RoutesAlwaysAgree` (`RoutesAgree`). That the suffixes suffice is a
pigeonhole argument: `names` has at most as many members as there are points
(`Recorded`), the suffixes offered to a name are different
(`SuffixedInjective`) and more than that, so a free one exists, hence a first
(`SomeFree`). `Distinct` then gives different mount paths. For the operations,
`Between` says that both ends are mounted and a native call stays within one
mount, and `Renaming` where the file is at each step. The tree is walkable because
every mount is two segments deep (`MountShape`), so at most one owns a path
(`OwnerOf`), and list and stat are computed level by level. The resolvers agree
because the names of points survive validation (`NamesLegal`: none is empty, "." or
".."), so validating a path with a mount in front of it is validating the rest
(`WithoutConcat`), and a mount has one owner. TLC checks this for the spellings
`RoutesAgree` lists; `AllAgree` says it of every sequence of segments a client may
send, and `RoutesAlwaysAgree` follows.

Only TLC checks the liveness properties (`EventuallyDurable`,
`RecoversWhenHealthy`, `FinishReported`, `EvictedIsFinalized`, `TransferEnds`,
`IdleReaped`), which are out of the prover's reach. Every invariant and every
action property of the passing runs is a theorem, with the hypotheses named above.

## Known deviations

Two are runs whose violation TLC exhibits (`findings` in `PROJECT.json`):

- *Stale VFS operators* (`cache_stale`, store.rs:732).
- *Overlapping SetVfs requests* (`rotation_concurrent`, server.rs:2484). Both read one
  configuration; the one that keeps the password writes it back over the one that
  changed it, whose second phase removes its key, before or after.

Five more have a configuration and no run:

- *Shared paths in the quota layer* (`QuotaLayerShared.cfg`, quota.rs:864). Sizes are
  read by an earlier `stat`, so two operations on a path account for each other's
  objects and more is stored than counted.
- *A failed rename overstates the total* (`QuotaLayerOverstated.cfg`,
  quota.rs:656), although the rollback is there so that it "doesn't leave the counter
  permanently overstated" (quota.rs:881). The retry
  has removed the destination, whatever made the first rename fail, and the rollback
  restores its bytes. It errs on the safe side, but for good.
- *The event bus without a free worker* (`EventBusStuck.cfg`, server.rs:1579).
  `finish_job` of an async job sends blockingly on a runtime worker; with queue and
  buffer full of critical events and all workers in such a send, Poll, which would
  make room, is never served.
- *A read handle opened between a writer's invalidation and its write*
  (`ReadHandlesStale.cfg`, server.rs:2773) keeps the old length until the next
  invalidation or the TTL, although "the next read will reopen the local file/OpenDAL
  reader and observe new size or object contents" (server.rs:2770).
- *A reset is lost against a load* (`QuotaEngineReset.cfg`, quota.rs:339). `cell.set`
  fails while another thread initialises the cell and `cell.get` is still empty, so
  `reset` returns Ok and zeroes nothing, although it "means make this id zero".

The models have these as well; they follow from a short trace:

- *Staging objects stay behind uncounted.* A removal that fails is swallowed
  (quota.rs:613), a failed inner close or abort removes nothing (quota.rs:863, 902,
  999), and a client that goes away leaves the object, and after the commit a total
  that was never undone (quota.rs:879). Nothing removes such objects later; deleting
  one through the layer releases bytes that were never counted. `StoredIsCounted`
  accounts for them by `uncounted`.
- *A plain rename counts too much.* `rename` replaces an object without releasing its
  bytes (quota.rs:772). It errs on the safe side.
- *Data operator and health of an old configuration.* `get_data_operator`
  inserts without comparing generations (store.rs:792), and a probe of the
  old configuration may write its health after the invalidation (store.rs:225).
- *A finished job may expire unseen.* Its time to live runs from the insertion,
  not from the delivery of its event (server.rs:1492).
- *The quota of a handle is a snapshot.* Usage is measured at OpenWrite; two
  handles of one point each write up to the limit (server.rs:2800), as do two
  path-based SetLength calls (server.rs:2957).
- *Append is a seek and a write.* Two appending handles on a file overwrite each
  other although each appends "at the current end of the file" (server.rs:2786).
- *A repository created during its rotation.* Phase 1 finds none, a backup that
  read the old password creates it, and phase 2 cannot open it with the new one
  (store.rs:345). `KeepsOpening` leaves these points out by `missing`.
- *Two points on one repository.* Only ids must be unique, so two points may
  share a target; rotating the password of one locks the other out
  (store.rs:405). `KeepsOpening` asks for `Sole`.
- *Unlocking races retention.* The unlocked copy has the time of the original; a
  retention run that lists both may delete the copy before the request
  deletes the original, and the snapshot is gone (server.rs:2110). `NewestKept`
  leaves groups touched by hand out for this reason.
- *Transfers do not own their places.* "The destination did not exist before this
  job, so we own it" (server.rs:832), but it was looked for when the request came
  in: of two transfers to one destination the one that fails deletes what the other
  made, and a user's upload in between goes with it. A move also deletes what was
  uploaded to its source after the listing, and of a chain A to B, B to C the second
  may list B half made. `NothingLost` leaves these data out by `kept`.
- *The quota check of a transfer is over before the copy starts* (server.rs:785):
  two transfers each fit and together exceed the limit.
- *Removals, transfers and restores invalidate no read handle* (server.rs:2866, 1840):
  a local handle goes on to read the removed or replaced file, or the old length of
  one that grew, with no race at all. `StaleOnlyIfRaced` leaves these out by
  `suspect`, which `Remove` and `JobWrites` set. TouchFile does not invalidate either;
  it empties the file, which a read through the handle notices.
- *Insert keeps the wrong handle.* "Prefer the already-live handle so only one
  backend reader is retained" (server.rs:1251), but `insert` has replaced it in the
  map; the request uses the old one, the map keeps the new one.
- *A read may fail because the reaper was faster.* The reaper collects keys, a read
  refreshes the handle, the reaper removes it by key and marks it expired
  (server.rs:1085), and the read answers NotFound.
- *Directory moves within a point* work only if the backend's rename takes
  directories; otherwise the error is not Unsupported and the job fails
  (server.rs:819-828).

## Not modelled

The cache of snapshot lists (dropped when a job starts and not when it ends,
server.rs:1770, so a listing made in between stays cached without the job's
result). Restore, check and browsing as far as they read a repository; their job
side is EventBus, and the files a restore writes are `JobWrites` of ReadHandles. Shutdown
marks every read handle expired and then clears the map (server.rs:1162); the process
is about to end, and ReadHandles leaves it out. `safe_join` and symbolic links need a file system model. The
quota layer is never under a data point's mount that users write, so MountTable
has no quotas. `save_user` and `delete_user` are single transactions no RPC calls. Argument
parsing, logging and `browse.rs` (not compiled in) are plain I/O. Backends,
rustic, SQLite, tokio and tonic are external and modelled by what the code relies on.

## Plan

**SnapshotCache** (listing against jobs that invalidate at their start), and a
composition of SetVfs with VfsCache, ReadHandles and WriteHandles: after SetVfs
returns, no new handle is on the old configuration.
