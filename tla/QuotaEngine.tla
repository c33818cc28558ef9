---------------------------- MODULE QuotaEngine ----------------------------
(***************************************************************************)
(* The quota engine of crates/opendal-vfs/src/layers/quota.rs: QuotaState, *)
(* its lazily loaded buckets (one tokio OnceCell per id), the atomic       *)
(* QuotaCounter with its compare-and-swap loop, reset, and the background  *)
(* task that copies dirty totals to the database (db.rs: the quota table). *)
(*                                                                         *)
(* A thread is one task inside a QuotaState call.  Every atomic load,      *)
(* store, swap and compare-exchange, every use of the OnceCell and every   *)
(* database call is one step, so the steps of different tasks interleave   *)
(* wherever the code lets them.                                            *)
(***************************************************************************)
EXTENDS Integers

CONSTANTS Ids,      \* quota ids, "<username>/<point id>"
          Threads,  \* tasks that call into the QuotaState
          Sizes,    \* object sizes seen by commits
          Limits,   \* limits configured on QuotaLayers
          U64Max,   \* u64::MAX
          I64Max    \* i64::MAX, the largest count SQLite stores

ASSUME QuotaAssumption ==
  /\ Ids # {}
  /\ U64Max \in Nat
  /\ I64Max \in 0 .. U64Max
  /\ Sizes \subseteq 0 .. U64Max
  /\ Limits \subseteq 0 .. U64Max
  /\ 0 \in Sizes

VARIABLES cell,       \* cell[i]: i's OnceCell, "absent" from the map, "empty" or "ready"
          bytes,      \* bytes[i]: QuotaCounter.bytes, meaningful once ready
          dirty,      \* dirty[i]: QuotaCounter.dirty
          persisted,  \* persisted[i]: the quota table; 0 also stands for "no row"
          pc,         \* pc[t]: where thread t is
          req,        \* req[t]: the arguments of t's call
          current,    \* current[t]: t's local `current` / `initial_bytes`
          syncPc,     \* where the background sync task is
          todo,       \* the (id, cell) pairs its loop has still to visit
          syncId,     \* the id it is working on
          snap        \* its local `bytes`

threadVars == <<pc, req, current>>
bucketVars == <<cell, bytes, dirty>>
syncVars == <<syncPc, todo, syncId, snap>>
vars == <<cell, bytes, dirty, persisted, pc, req, current, syncPc, todo, syncId, snap>>

Total64 == 0 .. U64Max

\* A commit, a reset, or a read of the total (current_bytes).
\* Deletes commit (size, 0) and rollbacks (new, old) with the limit u64::MAX.
Requests ==
  [op : {"commit"}, id : Ids, old : Sizes, new : Sizes, limit : Limits \cup {U64Max}]
    \cup
  [op : {"reset", "read"}, id : Ids, old : {0}, new : {0}, limit : {U64Max}]

\* Filler for locals that hold nothing.
SomeId == CHOOSE i \in Ids : TRUE
NoReq == [op |-> "read", id |-> SomeId, old |-> 0, new |-> 0, limit |-> U64Max]

\* Mutant: the subtraction does not saturate.
SatSubWrapping(a, b) == a - b

SatSub(a, b) == IF a > b THEN a - b ELSE 0
SatAdd(a, b) == IF a + b > U64Max THEN U64Max ELSE a + b

\* `current.saturating_sub(old_size).saturating_add(new_size)`
NewTotal(t) == SatAdd(SatSub(current[t], req[t].old), req[t].new)

\* Thread t holds the permit of its id's OnceCell: it is the one initialiser.
Initialising(t) == pc[t] \in {"get_bytes", "set_cell"}
PermitHeld(i) == \E u \in Threads : Initialising(u) /\ req[u].id = i

Goto(t, label) == pc' = [pc EXCEPT ![t] = label] /\ UNCHANGED req

\* The call returns and its locals are gone.
Return(t) ==
  /\ pc' = [pc EXCEPT ![t] = "idle"]
  /\ req' = [req EXCEPT ![t] = NoReq]
  /\ current' = [current EXCEPT ![t] = 0]

Init ==
  /\ cell = [i \in Ids |-> "absent"]
  /\ bytes = [i \in Ids |-> 0]
  /\ dirty = [i \in Ids |-> FALSE]
  /\ persisted = [i \in Ids |-> 0]
  /\ pc = [t \in Threads |-> "idle"]
  /\ req = [t \in Threads |-> NoReq]
  /\ current = [t \in Threads |-> 0]
  /\ syncPc = "idle"
  /\ todo = {}
  /\ syncId = SomeId
  /\ snap = 0

\* `buckets.entry(id).or_insert_with(OnceCell::new)` under the map's mutex.
Entry(i) == cell' = [cell EXCEPT ![i] = IF @ = "absent" THEN "empty" ELSE @]

-----------------------------------------------------------------------------
(* QuotaState::bucket, the first half of every commit and read. *)

Call(t, r) ==
  /\ pc[t] = "idle"
  /\ req' = [req EXCEPT ![t] = r]
  /\ Entry(r.id)
  /\ pc' = [pc EXCEPT ![t] = IF r.op = "reset" THEN "rst_get" ELSE "bucket"]
  /\ UNCHANGED <<bytes, dirty, persisted, current, syncVars>>

\* What a caller does with its bucket: apply_delta, or just counter.get().
UseBucket(t) ==
  IF req[t].op = "commit" THEN Goto(t, "load") /\ UNCHANGED current ELSE Return(t)

\* get_or_try_init finds the cell initialised.
BucketReady(t) ==
  /\ pc[t] = "bucket"
  /\ cell[req[t].id] = "ready"
  /\ UseBucket(t)
  /\ UNCHANGED <<bucketVars, persisted, syncVars>>

\* get_or_try_init takes the cell's only permit and starts the load.
BeginLoad(t) ==
  /\ pc[t] = "bucket"
  /\ cell[req[t].id] = "empty"
  /\ ~ PermitHeld(req[t].id)
  /\ Goto(t, "get_bytes")
  /\ UNCHANGED <<bucketVars, persisted, current, syncVars>>

\* tracker.get_bytes(id): a missing row reads as 0.
GetBytes(t) ==
  /\ pc[t] = "get_bytes"
  /\ current' = [current EXCEPT ![t] = persisted[req[t].id]]
  /\ Goto(t, "set_cell")
  /\ UNCHANGED <<bucketVars, persisted, syncVars>>

\* The load fails, or the caller's future is dropped at one of its awaits:
\* the permit goes back and the cell stays empty.
LoadFails(t) ==
  /\ pc[t] \in {"bucket", "get_bytes"}
  /\ Return(t)
  /\ UNCHANGED <<bucketVars, persisted, syncVars>>

\* The initialiser publishes Arc::new(QuotaBucket::new(initial_bytes)).
SetCell(t) ==
  LET i == req[t].id IN
  /\ pc[t] = "set_cell"
  /\ cell' = [cell EXCEPT ![i] = "ready"]
  /\ bytes' = [bytes EXCEPT ![i] = current[t]]
  /\ dirty' = [dirty EXCEPT ![i] = FALSE]
  /\ UseBucket(t)
  /\ UNCHANGED <<persisted, syncVars>>

-----------------------------------------------------------------------------
(* QuotaCounter::apply_delta. *)

Load(t) ==
  /\ pc[t] = "load"
  /\ current' = [current EXCEPT ![t] = bytes[req[t].id]]
  /\ Goto(t, "cas")
  /\ UNCHANGED <<bucketVars, persisted, syncVars>>

\* Mutant: a commit that loses the exchange is refused rather than retried.
CasFailRefused(t) ==
  /\ pc[t] = "cas"
  /\ NewTotal(t) <= req[t].limit
  /\ bytes[req[t].id] # current[t]
  /\ Return(t)
  /\ UNCHANGED <<bucketVars, persisted, syncVars>>

Reject(t) ==
  /\ pc[t] = "cas"
  /\ NewTotal(t) > req[t].limit
  /\ Return(t)
  /\ UNCHANGED <<bucketVars, persisted, syncVars>>

\* Mutant: a plain store instead of the compare-exchange.
CasOkBlind(t) ==
  /\ pc[t] = "cas"
  /\ NewTotal(t) <= req[t].limit
  /\ bytes' = [bytes EXCEPT ![req[t].id] = NewTotal(t)]
  /\ Goto(t, "mark")
  /\ UNCHANGED <<cell, dirty, persisted, current, syncVars>>

CasOk(t) ==
  LET i == req[t].id IN
  /\ pc[t] = "cas"
  /\ NewTotal(t) <= req[t].limit
  /\ bytes[i] = current[t]
  /\ bytes' = [bytes EXCEPT ![i] = NewTotal(t)]
  /\ Goto(t, "mark")
  /\ UNCHANGED <<cell, dirty, persisted, current, syncVars>>

\* The exchange lost a race (a spurious failure changes nothing at all).
CasFail(t) ==
  LET i == req[t].id IN
  /\ pc[t] = "cas"
  /\ NewTotal(t) <= req[t].limit
  /\ bytes[i] # current[t]
  /\ current' = [current EXCEPT ![t] = bytes[i]]
  /\ UNCHANGED <<bucketVars, persisted, pc, req, syncVars>>

\* Mutant: the update does not mark the bucket.
MarkSkipped(t) ==
  /\ pc[t] = "mark"
  /\ Return(t)
  /\ UNCHANGED <<bucketVars, persisted, syncVars>>

\* `dirty.store(true)`, a separate atomic after the exchange or the reset.
Mark(t) ==
  /\ pc[t] = "mark"
  /\ dirty' = [dirty EXCEPT ![req[t].id] = TRUE]
  /\ Return(t)
  /\ UNCHANGED <<cell, bytes, persisted, syncVars>>

-----------------------------------------------------------------------------
(* QuotaState::reset. *)

ResetGet(t) ==
  /\ pc[t] = "rst_get"
  /\ Goto(t, IF cell[req[t].id] = "ready" THEN "rst_store" ELSE "rst_set")
  /\ UNCHANGED <<bucketVars, persisted, current, syncVars>>

\* cell.set(zero bucket) succeeds only when nobody initialised the cell or
\* is initialising it.
ResetSet(t) ==
  LET i == req[t].id IN
  /\ pc[t] = "rst_set"
  /\ IF cell[i] = "empty" /\ ~ PermitHeld(i)
     THEN /\ cell' = [cell EXCEPT ![i] = "ready"]
          /\ bytes' = [bytes EXCEPT ![i] = 0]
          /\ dirty' = [dirty EXCEPT ![i] = TRUE]
          /\ Return(t)
     ELSE /\ Goto(t, "rst_again")
          /\ UNCHANGED <<bucketVars, current>>
  /\ UNCHANGED <<persisted, syncVars>>

\* After a failed set: reset the bucket if there is one, return Ok anyway.
ResetAgain(t) ==
  /\ pc[t] = "rst_again"
  /\ IF cell[req[t].id] = "ready"
     THEN Goto(t, "rst_store") /\ UNCHANGED current
     ELSE Return(t)
  /\ UNCHANGED <<bucketVars, persisted, syncVars>>

ResetStore(t) ==
  /\ pc[t] = "rst_store"
  /\ bytes' = [bytes EXCEPT ![req[t].id] = 0]
  /\ Goto(t, "mark")
  /\ UNCHANGED <<cell, dirty, persisted, current, syncVars>>

-----------------------------------------------------------------------------
(* sync_all, run by the one background task on every tick. *)

\* On to the next pair; the loop body's locals are gone.
SyncNext == syncPc' = "next" /\ syncId' = SomeId /\ snap' = 0

Tick ==
  /\ syncPc = "idle"
  /\ todo' = {i \in Ids : cell[i] # "absent"}
  /\ syncPc' = "next"
  /\ UNCHANGED <<bucketVars, persisted, threadVars, syncId, snap>>

\* Visit an id: `dirty.swap(false)` on a loaded bucket, else skip it.
SyncVisit(i) ==
  /\ syncPc = "next"
  /\ i \in todo
  /\ todo' = todo \ {i}
  /\ IF cell[i] = "ready" /\ dirty[i]
     THEN /\ dirty' = [dirty EXCEPT ![i] = FALSE]
          /\ syncId' = i
          /\ syncPc' = "get"
     ELSE UNCHANGED <<dirty, syncId, syncPc>>
  /\ UNCHANGED <<cell, bytes, persisted, threadVars, snap>>

SyncEnd ==
  /\ syncPc = "next"
  /\ todo = {}
  /\ syncPc' = "idle"
  /\ UNCHANGED <<bucketVars, persisted, threadVars, todo, syncId, snap>>

SyncGet ==
  /\ syncPc = "get"
  /\ snap' = bytes[syncId]
  /\ syncPc' = "set_bytes"
  /\ UNCHANGED <<bucketVars, persisted, threadVars, todo, syncId>>

\* set_bytes commits; counts above i64::MAX never get this far.
SetBytesOk ==
  /\ syncPc = "set_bytes"
  /\ snap <= I64Max
  /\ persisted' = [persisted EXCEPT ![syncId] = snap]
  /\ SyncNext
  /\ UNCHANGED <<bucketVars, threadVars, todo>>

SetBytesFails ==
  /\ syncPc = "set_bytes"
  /\ syncPc' = "remark"
  /\ UNCHANGED <<bucketVars, persisted, threadVars, todo, syncId, snap>>

\* Mutant: a failed set_bytes is not tried again.
RemarkForgotten ==
  /\ syncPc = "remark"
  /\ SyncNext
  /\ UNCHANGED <<bucketVars, persisted, threadVars, todo>>

\* A failed set_bytes sets dirty again, for the next tick.
Remark ==
  /\ syncPc = "remark"
  /\ dirty' = [dirty EXCEPT ![syncId] = TRUE]
  /\ SyncNext
  /\ UNCHANGED <<cell, bytes, persisted, threadVars, todo>>

-----------------------------------------------------------------------------
\* The process stops (shutdown runs no last sync) and starts again: memory
\* is gone, the quota table stays.
Restart ==
  /\ cell' = [i \in Ids |-> "absent"]
  /\ bytes' = [i \in Ids |-> 0]
  /\ dirty' = [i \in Ids |-> FALSE]
  /\ pc' = [t \in Threads |-> "idle"]
  /\ req' = [t \in Threads |-> NoReq]
  /\ current' = [t \in Threads |-> 0]
  /\ syncPc' = "idle"
  /\ todo' = {}
  /\ syncId' = SomeId
  /\ snap' = 0
  /\ UNCHANGED persisted

ThreadStep(t) ==
  \/ BucketReady(t) \/ BeginLoad(t) \/ GetBytes(t) \/ LoadFails(t) \/ SetCell(t)
  \/ Load(t) \/ Reject(t) \/ CasOk(t) \/ CasFail(t) \/ Mark(t)
  \/ ResetGet(t) \/ ResetSet(t) \/ ResetAgain(t) \/ ResetStore(t)

SyncStep ==
  \/ Tick \/ (\E i \in Ids : SyncVisit(i)) \/ SyncEnd \/ SyncGet
  \/ SetBytesOk \/ SetBytesFails \/ Remark

Next ==
  \/ \E t \in Threads : (\E r \in Requests : Call(t, r)) \/ ThreadStep(t)
  \/ SyncStep
  \/ Restart

Spec == Init /\ [][Next]_vars

\* The runtime keeps scheduling the sync task and every thread that is past
\* its last await; the database, tried again on every tick, is not down for
\* ever.
Fairness ==
  /\ WF_vars(SyncStep)
  /\ \A i \in Ids : SF_vars(SetBytesOk /\ syncId = i)
  /\ \A t \in Threads : WF_vars(Mark(t))

LiveSpec == Spec /\ Fairness

-----------------------------------------------------------------------------
(* Properties. *)

TypeOK ==
  /\ cell \in [Ids -> {"absent", "empty", "ready"}]
  /\ bytes \in [Ids -> Total64]
  /\ dirty \in [Ids -> BOOLEAN]
  /\ persisted \in [Ids -> Total64]
  /\ pc \in [Threads -> {"idle", "bucket", "get_bytes", "set_cell", "load", "cas", "mark",
                         "rst_get", "rst_set", "rst_again", "rst_store"}]
  /\ req \in [Threads -> Requests]
  /\ current \in [Threads -> Total64]
  /\ syncPc \in {"idle", "next", "get", "set_bytes", "remark"}
  /\ todo \subseteq Ids
  /\ syncId \in Ids
  /\ snap \in Total64

\* The total the engine would report for i: a bucket not loaded yet stands
\* for the row it will be loaded from.
Total(i) == IF cell[i] = "ready" THEN bytes[i] ELSE persisted[i]

\* A thread is about to set i's dirty flag.
MarkPending(i) == \E t \in Threads : pc[t] = "mark" /\ req[t].id = i

\* The sync task has cleared i's dirty flag and has yet to store, or to set
\* the flag again, for the value the counter holds now.
SyncPending(i) ==
  /\ syncId = i
  /\ \/ syncPc \in {"get", "remark"}
     \/ syncPc = "set_bytes" /\ snap = bytes[i]

\* Durability (quota.rs `dirty`, sync_all): a loaded total that differs from
\* the database is never forgotten.  Some flag, some thread about to set the
\* flag, or the sync in flight still carries it, whatever commits, resets,
\* failed syncs and restarts come in between the separate atomics.
UnsyncedIsRemembered ==
  \A i \in Ids :
    cell[i] = "ready" /\ bytes[i] # persisted[i] =>
      dirty[i] \/ MarkPending(i) \/ SyncPending(i)

\* The inductive strengthening the proofs use.
\* An initialiser is alone on its empty cell, and the row it read is still
\* what the database holds: only a sync of a loaded bucket writes the row.
InitialiserAlone ==
  \A t \in Threads : Initialising(t) =>
    /\ cell[req[t].id] = "empty"
    /\ pc[t] = "set_cell" => current[t] = persisted[req[t].id]
    /\ \A u \in Threads : Initialising(u) /\ req[u].id = req[t].id => u = t

\* Whoever works on a bucket works on a loaded one.
BucketLoaded ==
  /\ \A t \in Threads : pc[t] \in {"load", "cas", "mark", "rst_store"} =>
       cell[req[t].id] = "ready"
  /\ syncPc \in {"get", "set_bytes", "remark"} => cell[syncId] = "ready"

\* The steps of apply_delta belong to commits, those of reset to resets.
CallShape ==
  \A t \in Threads :
    /\ pc[t] \in {"load", "cas"} => req[t].op = "commit"
    /\ pc[t] \in {"rst_get", "rst_set", "rst_again", "rst_store"} => req[t].op = "reset"

\* A copy on its way to the database that the counter has moved away from
\* has been overtaken by a commit or a reset that marks the bucket again.
StaleCopyIsRemembered ==
  syncPc = "set_bytes" =>
    snap = bytes[syncId] \/ dirty[syncId] \/ MarkPending(syncId)

EngineInv ==
  /\ TypeOK
  /\ InitialiserAlone
  /\ BucketLoaded
  /\ UnsyncedIsRemembered
  /\ StaleCopyIsRemembered
  /\ CallShape

\* Thread t's call is on its way to its bucket, or is a reset that has not
\* taken effect yet.
Pending(t) ==
  pc[t] \in {"bucket", "get_bytes", "set_cell", "rst_get", "rst_set", "rst_again", "rst_store"}

\* Thread t's commit has its bucket and is not decided.  It takes effect with
\* its exchange; it is refused by the load (or failed exchange) that saw a
\* total too large for it.
Admitted(t) ==
  \/ pc[t] = "load"
  \/ pc[t] = "cas" /\ NewTotal(t) <= req[t].limit

\* The engine behaves as the ledger: every call takes effect at most once,
\* atomically and with its own arguments; a commit that has its bucket takes
\* effect or is refused, and the latter only if the total did not leave room
\* for it at some moment of the call; loading a bucket is invisible; and the
\* database holds a copy of an earlier total (quota.rs apply_delta, bucket,
\* reset, sync_all).
Totals == [i \in Ids |-> Total(i)]
InFlight == [i \in Ids |-> IF syncPc = "set_bytes" /\ syncId = i THEN snap ELSE -1]
Asked == [t \in Threads |->
  CASE Pending(t)  -> req[t]
    [] Admitted(t) -> [req[t] EXCEPT !.op = "admitted"]
    [] OTHER       -> [op |-> "none"]]
Ledger == INSTANCE QuotaLedger WITH
  total <- Totals, stored <- persisted, copies <- InFlight, asked <- Asked
LedgerSpec == Ledger!Spec

\* A total that stays put reaches the database (sync_all retries on every
\* tick), unless SQLite's integer cannot hold it.
EventuallyDurable ==
  \A i \in Ids, v \in 0 .. I64Max :
    (cell[i] = "ready" /\ bytes[i] = v) ~>
      (persisted[i] = v \/ cell[i] # "ready" \/ bytes[i] # v)

\* reset's contract, 'reset means "make this id zero", regardless of what
\* was previously persisted' (quota.rs reset): a reset that returns without
\* going through the counter's own reset leaves a total of zero.
ResetMakesZero ==
  [][\A t \in Threads :
       (ResetSet(t) \/ ResetAgain(t)) /\ pc'[t] = "idle" => Total(req[t].id)' = 0]_vars
=============================================================================
