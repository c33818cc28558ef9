----------------------------- MODULE Transfer -----------------------------
(***************************************************************************)
(* Transfer jobs of crates/ipc/src/server.rs: vfs_transfer plans a copy or *)
(* a move, run_transfer, copy_tree, copy_one and stream_copy carry it out. *)
(*                                                                         *)
(* A place is a path a transfer can name: absent, a file (whose one name   *)
(* is Root) or a directory of files.  Places are disjoint trees, so no     *)
(* transfer is into its own source.  A file's content is the datum it      *)
(* holds and how many chunks of it.  Each call to a backend is one step,   *)
(* with the failures the code handles.                                     *)
(*                                                                         *)
(* Nothing in the code keeps jobs and users off each other's places, and   *)
(* nothing here does: `kept` and `clean` record what no other actor        *)
(* interfered with, and the properties speak of that.                      *)
(***************************************************************************)
EXTENDS Integers, FiniteSets, Functions

CONSTANTS Jobs,
          Near, Far,     \* places on two local points users may write
          Locked,        \* places on a point users may not write
          Files, Root,   \* names of a directory's files; the name of a lone file
          Data, NoDatum, \* contents users upload
          Chunks,        \* bound: chunks of a datum
          MaxBytes,      \* max_bytes of the local points, in chunks
          MaxRequests,   \* bound: transfers, uploads and truncations together
          Nowhere

Places == Near \cup Far \cup Locked
Names == Files \cup {Root}

ASSUME TransferAssumption ==
  /\ Root \notin Files /\ NoDatum \notin Data /\ Nowhere \notin Places
  /\ Chunks \in Nat \ {0} /\ MaxBytes \in Nat /\ MaxRequests \in Nat
  /\ Near \cap Far = {} /\ (Near \cup Far) \cap Locked = {}
  /\ IsFiniteSet(Files)

Point(p) == CHOOSE A \in {Near, Far, Locked} : p \in A

Contents == [of : Data \cup {NoDatum}, len : 0 .. Chunks]
Blank == [of |-> NoDatum, len |-> 0]
Whole(x) == [of |-> x, len |-> Chunks]
\* What is listed or stored under some of the names.
Listings == UNION {[N -> Contents] : N \in SUBSET Names}
NoFiles == [f \in {} |-> Blank]
Gone == [kind |-> "none", at |-> NoFiles]
KindOf(f) == IF f = Root THEN "file" ELSE "dir"

\* A transfer: where it is, the TransferPlan (places, args.copy, src_is_dir, the files
\* and lengths listed), the entries left, the file being copied and stream_copy's
\* offset, the progress, the token; and history: nobody else has used its places.
NoJob == [pc |-> "idle", src |-> Nowhere, dst |-> Nowhere, copy |-> FALSE, kind |-> "none",
          plan |-> NoFiles, todo |-> {}, cur |-> Root, offset |-> 0, done |-> 0,
          cancelled |-> FALSE, clean |-> TRUE]

VARIABLES job,      \* job[j]
          store,    \* store[p]: what the place p holds
          unused,   \* data nobody has uploaded yet
          requests, \* requests so far
          kept      \* history: data nobody but jobs minding their own places has handled

envVars == <<unused, requests, kept>>
vars == <<job, store, envVars>>

Init ==
  /\ job = [j \in Jobs |-> NoJob]
  /\ store = [p \in Places |-> Gone]
  /\ unused = Data /\ requests = 0 /\ kept = {}

Goto(j, label) == job' = [job EXCEPT ![j].pc = label]
\* The job is over, its locals are dropped.
Ends(j) == job' = [job EXCEPT ![j] = NoJob]

Request == requests < MaxRequests /\ requests' = requests + 1

Has(p, f) == f \in DOMAIN store[p].at
Fits(p, f) == store[p].kind \in {"none", KindOf(f)}
\* File f of place p is created or replaced; directories are created as needed.
Put(p, f, c) ==
  store' = [store EXCEPT ![p] =
              [kind |-> KindOf(f),
               at |-> [g \in DOMAIN @.at \cup {f} |-> IF g = f THEN c ELSE @.at[g]]]]

DataAt(P) == UNION {{store[p].at[f].of : f \in DOMAIN store[p].at} : p \in P}
Uses(k, P) == {job[k].src, job[k].dst} \cap P # {}

\* total_bytes and the `total` run_transfer publishes.
TotalBytes(j) == SumFunction([f \in DOMAIN job[j].plan |-> job[j].plan[f].len])
Total(j) == IF TotalBytes(j) = 0 THEN 1 ELSE TotalBytes(j)

-----------------------------------------------------------------------------
(* vfs_transfer: the checks and the plan. *)

\* The destination has to be writable, and for a move the source too; stat_any on
\* the source, which also gives a lone file's length.
\* History: jobs that share a place are not clean, unless both only read it; data
\* at the places of two jobs one of which writes where the other works is not kept.
Begin(j, s, d, c) ==
  LET rivals == {k \in Jobs \ {j} : Uses(k, {d}) \/ job[k].dst = s}
      shares(k) == k \in rivals \/ (job[k].src = s /\ ~(c /\ job[k].copy))
      disputed == {s, d} \cup {job[k].src : k \in rivals} \cup {job[k].dst : k \in rivals}
      here == store[s]
  IN
  /\ job[j].pc = "idle" /\ Request
  /\ s # d /\ d \notin Locked
  /\ c \/ s \notin Locked
  /\ here # Gone
  /\ job' = [k \in Jobs |->
               IF k = j THEN [NoJob EXCEPT !.pc = "stat_dst", !.src = s, !.dst = d, !.copy = c,
                                !.kind = here.kind,
                                !.plan = IF here.kind = "file" THEN here.at ELSE NoFiles,
                                !.clean = \A o \in Jobs \ {j} : ~shares(o)]
               ELSE [job[k] EXCEPT !.clean = @ /\ ~shares(k)]]
  /\ kept' = IF rivals = {} THEN kept ELSE kept \ DataAt(disputed)
  /\ UNCHANGED <<store, unused>>

\* The destination exists, or a call fails: no job is started.
Refuse(j) ==
  /\ job[j].pc \in {"stat_dst", "list"}
  /\ Ends(j)
  /\ UNCHANGED <<store, envVars>>

\* The destination must not exist.
StatDest(j) ==
  /\ job[j].pc = "stat_dst" /\ store[job[j].dst] = Gone
  /\ Goto(j, "list")
  /\ UNCHANGED <<store, envVars>>

\* The listing of a directory, and the job is spawned.
List(j) ==
  LET here == store[job[j].src]
      listed == IF here.kind = "dir" THEN here.at ELSE NoFiles
  IN
  /\ job[j].pc = "list"
  /\ job' = [job EXCEPT ![j].pc = "quota",
                        ![j].plan = IF job[j].kind = "file" THEN @ ELSE listed]
  /\ UNCHANGED <<store, envVars>>

-----------------------------------------------------------------------------
(* run_transfer *)

\* copy_tree copies a lone file at once.
CopyTree(j) == IF job[j].kind = "file" THEN "copy_one" ELSE "create_dir"

SameMount(j) == Point(job[j].src) = Point(job[j].dst)

DirSize(P) == SumFunction([p \in P |-> SumFunction([f \in DOMAIN store[p].at |-> store[p].at[f].len])])

\* metadata(full_path).len(): of a directory it is whatever the file system says.
ExistingLens(d) ==
  CASE store[d].kind = "none" -> {0}
    [] store[d].kind = "file" -> {store[d].at[Root].len}
    [] OTHER -> 0 .. MaxBytes

\* The quota is checked under the point lock, which is released before anything is
\* written; a move within the point is not checked.  The job fails if the transfer
\* does not fit or the usage cannot be measured.
CheckQuota(j) ==
  LET checked == job[j].copy \/ ~SameMount(j) IN
  /\ job[j].pc = "quota"
  /\ \E len \in ExistingLens(job[j].dst) :
       LET growth == IF TotalBytes(j) > len THEN TotalBytes(j) - len ELSE 0
           fits == growth = 0 \/ DirSize(Point(job[j].dst)) + growth <= MaxBytes
       IN \/ ~checked /\ Goto(j, "rename")
          \/ checked /\ fits /\ Goto(j, CopyTree(j))
          \/ checked /\ growth > 0 /\ Ends(j)
  /\ UNCHANGED <<store, envVars>>

\* The native rename: done, unsupported (copy instead), or failed, with no cleanup.
Rename(j) ==
  LET s == job[j].src
      d == job[j].dst
  IN
  /\ job[j].pc = "rename"
  /\ \/ /\ store[s].kind = job[j].kind
        /\ store[d].kind = "none" \/ (store[d].kind = "file" /\ job[j].kind = "file")
        /\ store' = [store EXCEPT ![d] = store[s], ![s] = Gone]
        /\ job' = [job EXCEPT ![j].pc = "ok", ![j].done = Total(j)]
     \/ Goto(j, CopyTree(j)) /\ UNCHANGED store
     \/ Ends(j) /\ UNCHANGED store
  /\ UNCHANGED envVars

\* Mutant: the listed root itself is not skipped.
EntriesWithRoot(j) == DOMAIN job[j].plan \cup {Root}

\* What the loop of copy_tree goes over.
Entries(j) == DOMAIN job[j].plan

\* copy_tree creates a directory first.
CreateDir(j) ==
  LET d == job[j].dst IN
  /\ job[j].pc = "create_dir"
  /\ \/ /\ store[d].kind # "file"
        /\ store' = [store EXCEPT ![d].kind = "dir"]
        /\ job' = [job EXCEPT ![j].pc = "entries", ![j].todo = Entries(j)]
     \/ Goto(j, "cleanup") /\ UNCHANGED store
  /\ UNCHANGED envVars

\* The loop over the entries, in the order the backend listed them.
NextEntry(j) ==
  /\ job[j].pc = "entries"
  /\ \/ job[j].todo = {} /\ Goto(j, "copied")
     \/ job[j].todo # {} /\ job[j].cancelled /\ Goto(j, "cleanup")
     \/ /\ ~job[j].cancelled
        /\ \E f \in job[j].todo :
             job' = [job EXCEPT ![j].pc = "copy_one", ![j].cur = f, ![j].todo = @ \ {f}]
  /\ UNCHANGED <<store, envVars>>

\* Where copy_tree goes on after a file.
AfterFile(j) == IF job[j].kind = "file" THEN "copied" ELSE "entries"

\* copy_one: one native copy within a mount, else the stream's writer is opened.
CopyOne(j) ==
  LET s == job[j].src
      d == job[j].dst
      f == job[j].cur
  IN
  /\ job[j].pc = "copy_one"
  /\ \/ /\ SameMount(j) /\ Has(s, f) /\ Fits(d, f)
        /\ Put(d, f, store[s].at[f])
        /\ job' = [job EXCEPT ![j].pc = AfterFile(j), ![j].done = @ + job[j].plan[f].len]
     \/ /\ ~SameMount(j) /\ Fits(d, f)
        /\ Put(d, f, Blank)
        /\ job' = [job EXCEPT ![j].pc = "stream", ![j].offset = 0]
     \/ Goto(j, "cleanup") /\ UNCHANGED store
  /\ UNCHANGED envVars

\* A chunk read from `from` is written to the open file, which may have been unlinked
\* since.
WriteChunk(j, from) ==
  LET d == job[j].dst
      f == job[j].cur
      of == IF job[j].offset = 0 \/ store[d].at[f].of = from.of THEN from.of ELSE NoDatum
  IN
  /\ store' = IF Has(d, f)
              THEN [store EXCEPT ![d].at[f] = [of |-> of, len |-> job[j].offset + 1]]
              ELSE store
  /\ job' = [job EXCEPT ![j].offset = @ + 1, ![j].done = @ + 1]

Streaming(j) == job[j].pc = "stream" /\ job[j].offset < job[j].plan[job[j].cur].len
\* Reading at the offset gives no bytes.
Short(j) == Has(job[j].src, job[j].cur)
            => store[job[j].src].at[job[j].cur].len <= job[j].offset

\* Mutant: a read of no bytes is tried again.
StreamRetries(j) ==
  /\ Streaming(j)
  /\ \/ job[j].cancelled /\ Goto(j, "cleanup") /\ UNCHANGED store
     \/ ~job[j].cancelled /\ ~Short(j) /\ WriteChunk(j, store[job[j].src].at[job[j].cur])
     \/ ~job[j].cancelled /\ Short(j) /\ UNCHANGED <<job, store>>
  /\ UNCHANGED envVars

\* stream_copy's loop: a cancelled token, a failed read or write, or a read of no
\* bytes ends the copy.
Stream(j) ==
  /\ Streaming(j)
  /\ \/ Goto(j, "cleanup") /\ UNCHANGED store
     \/ ~job[j].cancelled /\ ~Short(j) /\ WriteChunk(j, store[job[j].src].at[job[j].cur])
  /\ UNCHANGED envVars

\* What closing may leave of the file, when it fails.
LoseFile(j) == Has(job[j].dst, job[j].cur)
               /\ store' = [store EXCEPT ![job[j].dst].at[job[j].cur] = Blank]

\* Mutant: the result of close is not looked at.
CloseIgnored(j) ==
  /\ job[j].pc = "stream" /\ ~Streaming(j)
  /\ Goto(j, AfterFile(j)) /\ (UNCHANGED store \/ LoseFile(j))
  /\ UNCHANGED envVars

\* writer.close(): the file is complete, or what was written is lost.
Close(j) ==
  /\ job[j].pc = "stream" /\ ~Streaming(j)
  /\ \/ Goto(j, AfterFile(j)) /\ UNCHANGED store
     \/ Goto(j, "cleanup") /\ LoseFile(j)
  /\ UNCHANGED envVars

\* What a recursive delete of p may leave: nothing when it succeeds, any part when
\* it fails.
Remains(p) ==
  {Gone, store[p]} \cup
  IF store[p].kind = "dir"
  THEN {[kind |-> "dir", at |-> Restrict(store[p].at, N)] : N \in SUBSET (DOMAIN store[p].at)}
  ELSE {}

\* copy_tree failed: the destination is deleted, whatever comes of it.
Cleanup(j) ==
  /\ job[j].pc = "cleanup"
  /\ \E rest \in Remains(job[j].dst) : store' = [store EXCEPT ![job[j].dst] = rest]
  /\ Ends(j)
  /\ UNCHANGED envVars

\* Mutant: the one byte of an empty transfer is not reported.
SucceedsUnreported(j) == job' = [job EXCEPT ![j].pc = "ok"]

\* The end of run_transfer: an empty transfer reports the one byte it promised.
Succeeds(j) ==
  job' = [job EXCEPT ![j].pc = "ok", ![j].done = IF TotalBytes(j) = 0 THEN @ + 1 ELSE @]

\* A move deletes its source, unless it was cancelled meanwhile; a copy is done.
DeleteSource(j) ==
  /\ job[j].pc = "copied"
  /\ \/ job[j].copy /\ Succeeds(j) /\ UNCHANGED store
     \/ /\ ~job[j].copy /\ job[j].cancelled
        /\ Ends(j) /\ UNCHANGED store
     \/ /\ ~job[j].copy /\ ~job[j].cancelled
        /\ \/ Succeeds(j) /\ store' = [store EXCEPT ![job[j].src] = Gone]
           \/ /\ Ends(j)
              /\ \E rest \in Remains(job[j].src) : store' = [store EXCEPT ![job[j].src] = rest]
  /\ UNCHANGED envVars

\* finish_job: the job is over.
FinishJob(j) ==
  /\ job[j].pc = "ok"
  /\ Ends(j)
  /\ UNCHANGED <<store, envVars>>

Running == {"quota", "rename", "create_dir", "entries", "copy_one", "stream", "copied",
            "cleanup"}

-----------------------------------------------------------------------------
(* The other actors. *)

\* cancel_job
Cancel(j) ==
  /\ job[j].pc \in Running /\ ~job[j].cancelled
  /\ job' = [job EXCEPT ![j].cancelled = TRUE]
  /\ UNCHANGED <<store, envVars>>

Touches(p) == job' = [k \in Jobs |-> [job[k] EXCEPT !.clean = @ /\ ~Uses(k, {p})]]

\* A user (for a locked point: whoever fills it) adds a file with a new datum;
\* which of the unused ones makes no difference.
Upload(p, f) ==
  LET x == CHOOSE d \in unused : TRUE IN
  /\ Request /\ unused # {} /\ Fits(p, f) /\ ~Has(p, f)
  /\ Put(p, f, Whole(x))
  /\ unused' = unused \ {x}
  /\ kept' = IF \E k \in Jobs : Uses(k, {p}) THEN kept ELSE kept \cup {x}
  /\ Touches(p)

\* A user truncates a file, through a write handle or SetLength.
Truncate(p, f) ==
  /\ Request /\ p \notin Locked /\ Has(p, f)
  /\ \E n \in 0 .. store[p].at[f].len - 1 :
       store' = [store EXCEPT ![p].at[f] = IF n = 0 THEN Blank ELSE [@ EXCEPT !.len = n]]
  /\ kept' = kept \ {store[p].at[f].of}
  /\ Touches(p)
  /\ UNCHANGED unused

\* The process ends: the jobs are gone, the files stay.
Crash ==
  /\ job # [j \in Jobs |-> NoJob]
  /\ job' = [j \in Jobs |-> NoJob]
  /\ UNCHANGED <<store, envVars>>

JobStep(j) ==
  \/ CheckQuota(j) \/ Rename(j) \/ CreateDir(j) \/ NextEntry(j) \/ CopyOne(j)
  \/ Stream(j) \/ Close(j) \/ Cleanup(j) \/ DeleteSource(j) \/ FinishJob(j)

Next ==
  \/ \E j \in Jobs : \/ \E s, d \in Places, c \in BOOLEAN : Begin(j, s, d, c)
                     \/ Refuse(j) \/ StatDest(j) \/ List(j)
                     \/ JobStep(j) \/ Cancel(j)
  \/ \E p \in Places, f \in Names : Truncate(p, f) \/ Upload(p, f)
  \/ Crash

Spec == Init /\ [][Next]_vars

\* tokio runs every spawned job, and every call to a backend returns.
LiveSpec == Spec /\ \A j \in Jobs : WF_vars(JobStep(j))

-----------------------------------------------------------------------------
(* Properties *)

Transfers ==
  [pc : {"idle", "stat_dst", "list", "ok"} \cup Running,
   src : Places \cup {Nowhere}, dst : Near \cup Far \cup {Nowhere}, copy : BOOLEAN,
   kind : {"none", "file", "dir"}, plan : Listings, todo : SUBSET Names, cur : Names,
   offset : 0 .. Chunks, done : Nat, cancelled : BOOLEAN, clean : BOOLEAN]

TypeOK ==
  /\ job \in [Jobs -> Transfers]
  /\ \A j \in Jobs : job[j].todo \subseteq DOMAIN job[j].plan /\ job[j].done <= Total(j)
  /\ store \in [Places -> [kind : {"none", "file", "dir"}, at : Listings]]
  /\ \A p \in Places : /\ \A f \in DOMAIN store[p].at : KindOf(f) = store[p].kind
                       /\ store[p].kind = "file" => Root \in DOMAIN store[p].at
  /\ unused \subseteq Data /\ kept \subseteq Data \ unused
  /\ requests \in 0 .. MaxRequests

\* "A move never deletes the source until the destination has been fully transferred
\* successfully" (vfs_transfer): through cancellation, failed reads, writes, closes,
\* renames and deletes, jobs that share a source, and crashes, a kept file is whole
\* at some place.  `kept` leaves out a file a user changed or uploaded to a place a
\* job uses and one at a place two jobs dispute: the clean-up of a failed job
\* (server.rs:832) and the delete of a move's source take what is there, whoever
\* made it.
NothingLost ==
  \A x \in kept : \E p \in Places : \E f \in DOMAIN store[p].at : store[p].at[f] = Whole(x)

\* A transfer nobody interfered with that reports success has made the destination
\* what the source was when listed, empty files and directories included, and has
\* removed the source if it moved; any that reports success has complete progress.
SuccessComplete ==
  [][\A j \in Jobs :
       job[j].pc # "ok" /\ job'[j].pc = "ok" =>
         /\ job'[j].done = Total(j)
         /\ job[j].clean =>
              /\ store'[job[j].dst] = [kind |-> job[j].kind, at |-> job[j].plan]
              /\ ~job[j].copy => store'[job[j].src] = Gone
    ]_vars

\* A transfer that has started ends, also when its source shrinks under it.
TransferEnds == \A j \in Jobs : job[j].pc \in Running ~> job[j].pc \notin Running
=============================================================================
