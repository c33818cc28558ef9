-------------------------- MODULE TransferProofs --------------------------
(***************************************************************************)
(* Transfers: type correctness, NothingLost and SuccessComplete, for any   *)
(* number of jobs, places, files and data.                                 *)
(***************************************************************************)
EXTENDS Transfer, FoldTheorems

-----------------------------------------------------------------------------
(* The invariant: control and progress. *)

Before == {"stat_dst", "list", "quota", "rename", "create_dir"}

\* The lengths listed in a plan, the sum of some of them, and what is promised.
Lens(a) == [f \in DOMAIN a |-> a[f].len]
Bytes(a, S) == SumFunctionOnSet(Lens(a), S)
AllBytes(a) == Bytes(a, DOMAIN a)
Promised(a) == IF AllBytes(a) = 0 THEN 1 ELSE AllBytes(a)

\* What the record b of a job holds at its place in the code.
Shape(b) ==
  /\ b.pc = "idle" => b = NoJob
  /\ b.pc # "idle" => b.src \in Places /\ b.dst \in Near \cup Far /\ b.src # b.dst /\ b.kind # "none"
  /\ b.kind = "file" => DOMAIN b.plan = {Root} /\ b.cur = Root /\ b.todo = {}
  /\ b.kind = "dir" => Root \notin DOMAIN b.plan
  /\ b.pc = "rename" => ~ b.copy
  /\ b.pc \in {"create_dir", "entries"} => b.kind = "dir"
  /\ b.pc \in {"copy_one", "stream"} => b.cur \in DOMAIN b.plan \ b.todo
  /\ b.pc = "stream" => b.offset <= b.plan[b.cur].len
  /\ b.pc \in {"stat_dst", "list", "copied"} => b.todo = {}

\* The bytes reported and the bytes to come are the bytes listed.
Progress(b) ==
  /\ b.pc \in Before => b.done = 0
  /\ b.pc = "entries" => b.done + Bytes(b.plan, b.todo) = AllBytes(b.plan)
  /\ b.pc = "copy_one" =>
       b.done + b.plan[b.cur].len + Bytes(b.plan, b.todo) = AllBytes(b.plan)
  /\ b.pc = "stream" =>
       b.done + (b.plan[b.cur].len - b.offset) + Bytes(b.plan, b.todo) = AllBytes(b.plan)
  /\ b.pc = "copied" => b.done = AllBytes(b.plan)
  /\ b.pc = "cleanup" => b.done <= AllBytes(b.plan)
  /\ b.pc = "ok" => b.done = Promised(b.plan)

JobOK(b) ==
  /\ b \in Transfers
  /\ b.todo \subseteq DOMAIN b.plan /\ b.done <= Promised(b.plan)
  /\ Shape(b) /\ Progress(b)

\* What a place e may hold while the data of U is not uploaded: a file of no bytes is
\* blank.
PlaceOK(e, U) ==
  /\ e \in [kind : {"none", "file", "dir"}, at : Listings]
  /\ e.kind = "file" => Root \in DOMAIN e.at
  /\ \A f \in DOMAIN e.at : /\ KindOf(f) = e.kind
                            /\ e.at[f].of \notin U
                            /\ e.at[f].len = 0 => e.at[f] = Blank

ControlInv ==
  /\ job = [j \in Jobs |-> job[j]] /\ \A j \in Jobs : JobOK(job[j])
  /\ store = [p \in Places |-> store[p]] /\ \A p \in Places : PlaceOK(store[p], unused)
  /\ unused \subseteq Data /\ kept \subseteq Data \ unused
  /\ requests \in 0 .. MaxRequests

-----------------------------------------------------------------------------
(* The invariant: kept data. *)

\* One of the jobs writes where the other works.
Rivals(j, k) ==
  /\ j # k /\ job[j].pc # "idle" /\ job[k].pc # "idle"
  /\ job[k].dst \in {job[j].src, job[j].dst} \/ job[j].dst \in {job[k].src, job[k].dst}

\* Nothing of the kept data K at a place.
NoneOf(e, K) == \A f \in DOMAIN e.at : e.at[f].of \notin K

\* Rivals handle no kept data.
Disputes ==
  \A j, k \in Jobs :
    Rivals(j, k) => NoneOf(store[job[j].src], kept) /\ NoneOf(store[job[j].dst], kept)

\* A whole file of the data K.
WholeIn(e, f, K) == f \in DOMAIN e.at /\ \E x \in K : e.at[f] = Whole(x)

Planned == {"quota", "rename", "create_dir", "entries", "copy_one", "stream", "copied"}

\* The files of its plan that the job b has been through.
Through(b, f) ==
  \/ b.pc \in {"entries", "copied"} /\ f \notin b.todo
  \/ b.pc \in {"copy_one", "stream"} /\ f \notin b.todo \cup {b.cur}

\* What a job b from the place s to the place d has made of a kept file f of s.
FileCopied(b, f, s, d) ==
  /\ KindOf(f) = b.kind
  /\ b.kind = "file" \/ b.pc \in Planned => f \in DOMAIN b.plan /\ b.plan[f].len = Chunks
  /\ Through(b, f) => f \in DOMAIN d.at /\ d.at[f] = s.at[f]
  /\ b.pc = "stream" /\ f = b.cur =>
       f \in DOMAIN d.at /\ (b.offset > 0 => d.at[f] = [of |-> s.at[f].of, len |-> b.offset])

Copied(j) ==
  job[j].pc # "idle" =>
    \A f \in Names :
      WholeIn(store[job[j].src], f, kept)
      => FileCopied(job[j], f, store[job[j].src], store[job[j].dst])

\* A whole copy no job will write over.
SafeAt(x, p, f) ==
  /\ f \in DOMAIN store[p].at /\ store[p].at[f] = Whole(x)
  /\ \A k \in Jobs : job[k].dst = p => job[k].pc \in {"stat_dst", "ok"}

Safe == \A x \in kept : \E p \in Places : \E f \in Names : SafeAt(x, p, f)

KeptInv == Disputes /\ Safe /\ \A j \in Jobs : Copied(j)

-----------------------------------------------------------------------------
(* The invariant: jobs nobody interferes with. *)

Alone(j) ==
  \A k \in Jobs \ {j} : ~ Rivals(j, k) /\ (job[k].src = job[j].src => job[j].copy /\ job[k].copy)

\* The place d holds the planned files of N, and nothing else.
Holds(d, b, N) ==
  d.kind = b.kind /\ DOMAIN d.at = N /\ \A f \in N : d.at[f] = b.plan[f]

\* The destination d of an undisturbed job b.
DestOK(b, d) ==
  /\ b.pc \in {"list", "quota", "rename", "create_dir"} => d = Gone
  /\ b.pc \in {"entries", "copied"} => Holds(d, b, DOMAIN b.plan \ b.todo)
  /\ b.pc = "copy_one" =>
       IF b.kind = "file" THEN d = Gone ELSE Holds(d, b, DOMAIN b.plan \ (b.todo \cup {b.cur}))
  /\ b.pc = "stream" =>
       /\ d.kind = b.kind /\ DOMAIN d.at = DOMAIN b.plan \ b.todo
       /\ \A f \in DOMAIN d.at \ {b.cur} : d.at[f] = b.plan[f]
       /\ b.offset = 0 => d.at[b.cur] = Blank
       /\ b.offset > 0 => d.at[b.cur] = [of |-> b.plan[b.cur].of, len |-> b.offset]

\* Its source s.
SourceOK(b, s) ==
  /\ b.pc \in {"stat_dst", "list"} => s.kind = b.kind /\ (b.kind = "file" => s.at = b.plan)
  /\ b.pc \in Planned => s.kind = b.kind /\ s.at = b.plan

Undisturbed(j) ==
  job[j].clean /\ job[j].pc # "idle" =>
    /\ Alone(j)
    /\ DestOK(job[j], store[job[j].dst]) /\ SourceOK(job[j], store[job[j].src])

CleanInv == \A j \in Jobs : Undisturbed(j)

Inv == ControlInv /\ KeptInv /\ CleanInv

-----------------------------------------------------------------------------
(* Plans, and the sums over them. *)

LEMMA ListingFacts ==
  ASSUME NEW a \in Listings
  PROVE  /\ DOMAIN a \subseteq Names /\ IsFiniteSet(DOMAIN a)
         /\ a = [f \in DOMAIN a |-> a[f]]
         /\ \A f \in DOMAIN a :
              a[f] \in Contents /\ a[f].len \in Nat /\ a[f].len <= Chunks
<1>1. PICK N \in SUBSET Names : a \in [N -> Contents]
  BY DEF Listings
<1>2. IsFiniteSet(Names)
  BY TransferAssumption, FS_AddElement DEF Names
<1>3. IsFiniteSet(N)
  BY <1>1, <1>2, FS_Subset
<1> QED BY <1>1, <1>3, TransferAssumption DEF Contents

LEMMA ListingIntro ==
  ASSUME NEW N \in SUBSET Names, NEW a \in [N -> Contents]
  PROVE  a \in Listings /\ DOMAIN a = N
BY DEF Listings

LEMMA NoFilesListed == NoFiles \in Listings /\ DOMAIN NoFiles = {}
<1>1. NoFiles \in [{} -> Contents]
  BY DEF NoFiles
<1> QED BY <1>1, ListingIntro

LEMMA BlankIs == Blank \in Contents /\ Blank.len = 0 /\ Blank.of = NoDatum
BY TransferAssumption DEF Blank, Contents

LEMMA BytesType ==
  ASSUME NEW a \in Listings, NEW S \in SUBSET DOMAIN a
  PROVE  Bytes(a, S) \in Nat
<1>1. IsFiniteSet(S)
  BY ListingFacts, FS_Subset
<1>2. \A f \in S : Lens(a)[f] \in Nat
  BY ListingFacts DEF Lens
<1> QED BY <1>1, <1>2, SumType DEF Bytes

LEMMA BytesNone ==
  ASSUME NEW a
  PROVE  Bytes(a, {}) = 0
BY SumStep, FS_EmptySet DEF Bytes

LEMMA BytesTake ==
  ASSUME NEW a \in Listings, NEW S \in SUBSET DOMAIN a, NEW e \in S
  PROVE  Bytes(a, S) = a[e].len + Bytes(a, S \ {e})
<1>1. IsFiniteSet(S)
  BY ListingFacts, FS_Subset
<1>2. \A f \in S : Lens(a)[f] \in Int /\ Lens(a)[f] = a[f].len
  BY ListingFacts DEF Lens
<1> QED BY <1>1, <1>2, SumTake DEF Bytes

LEMMA TotalIs ==
  ASSUME NEW j
  PROVE  TotalBytes(j) = AllBytes(job[j].plan) /\ Total(j) = Promised(job[j].plan)
<1>1. DOMAIN Lens(job[j].plan) = DOMAIN job[j].plan
  BY DEF Lens
<1>2. TotalBytes(j) = AllBytes(job[j].plan)
  BY <1>1 DEF TotalBytes, SumFunction, AllBytes, Bytes, Lens
<1> QED BY <1>2 DEF Total, Promised

LEMMA Totals ==
  ASSUME NEW a \in Listings
  PROVE  AllBytes(a) \in Nat /\ Promised(a) \in Nat /\ AllBytes(a) <= Promised(a)
BY BytesType DEF AllBytes, Promised

-----------------------------------------------------------------------------
(* The record of a job, through its steps. *)

LEMMA NoJobOK == JobOK(NoJob)
<1>1. NoJob \in Transfers
  BY NoFilesListed, TransferAssumption DEF NoJob, Transfers, Names
<1>2. 0 <= Promised(NoFiles)
  BY NoFilesListed, Totals
<1> QED BY <1>1, <1>2, NoFilesListed DEF JobOK, NoJob, Shape, Progress, Before

LEMMA JobTypes ==
  ASSUME NEW b, JobOK(b)
  PROVE  /\ b \in Transfers /\ b.plan \in Listings /\ b.todo \in SUBSET DOMAIN b.plan
         /\ b.done \in Nat /\ b.offset \in Nat
         /\ Bytes(b.plan, b.todo) \in Nat /\ AllBytes(b.plan) \in Nat
         /\ Promised(b.plan) \in Nat /\ AllBytes(b.plan) <= Promised(b.plan)
         /\ b.kind = "file" \/ b.pc \in {"copy_one", "stream"} =>
              b.plan[b.cur].len \in Nat /\ b.plan[b.cur].len <= Chunks /\ b.cur \in DOMAIN b.plan
<1>1. b \in Transfers /\ b.plan \in Listings /\ b.todo \in SUBSET DOMAIN b.plan
      /\ b.done \in Nat /\ b.offset \in Nat
  BY TransferAssumption DEF JobOK, Transfers
<1>2. Bytes(b.plan, b.todo) \in Nat /\ AllBytes(b.plan) \in Nat
      /\ Promised(b.plan) \in Nat /\ AllBytes(b.plan) <= Promised(b.plan)
  BY <1>1, BytesType, Totals
<1>3. b.kind = "file" \/ b.pc \in {"copy_one", "stream"} =>
        b.plan[b.cur].len \in Nat /\ b.plan[b.cur].len <= Chunks /\ b.cur \in DOMAIN b.plan
  BY <1>1, ListingFacts DEF JobOK, Shape
<1> QED BY <1>1, <1>2, <1>3

\* A step that only changes the place in the code.
LEMMA GotoOK ==
  ASSUME NEW b, JobOK(b), NEW l, l = "rename" => ~ b.copy,
         \/ b.pc = "stat_dst" /\ l = "list"
         \/ b.pc = "quota" /\ l = "rename"
         \/ b.pc \in {"quota", "rename"} /\ l = "create_dir" /\ b.kind = "dir"
         \/ b.pc \in {"quota", "rename"} /\ l = "copy_one" /\ b.kind = "file"
         \/ b.pc \in {"create_dir", "entries", "copy_one", "stream"} /\ l = "cleanup"
         \/ b.pc = "entries" /\ b.todo = {} /\ l = "copied"
         \/ b.pc = "stream" /\ ~ (b.offset < b.plan[b.cur].len) /\ b.kind = "dir" /\ l = "entries"
         \/ b.pc = "stream" /\ ~ (b.offset < b.plan[b.cur].len) /\ b.kind = "file" /\ l = "copied"
  PROVE  JobOK([b EXCEPT !.pc = l])
<1> DEFINE c == [b EXCEPT !.pc = l]
<1>0. b.pc # "idle" /\ l # "idle" /\ b.pc # "ok" /\ l # "ok"
  OBVIOUS
<1>1. c \in Transfers
  <2>1. l \in {"idle", "stat_dst", "list", "ok"} \cup Running
    BY DEF Running
  <2>2. b \in Transfers
    BY DEF JobOK
  <2> QED BY <2>1, <2>2 DEF Transfers
<1>2. /\ c.pc = l /\ c.src = b.src /\ c.dst = b.dst /\ c.copy = b.copy /\ c.kind = b.kind
      /\ c.plan = b.plan /\ c.todo = b.todo /\ c.cur = b.cur /\ c.offset = b.offset
      /\ c.done = b.done
  BY JobTypes DEF Transfers
<1>3. b.kind = "file" => AllBytes(b.plan) = b.plan[Root].len + Bytes(b.plan, b.todo)
  <2>1. ASSUME b.kind = "file" PROVE DOMAIN b.plan = {Root} /\ b.todo = {} /\ {Root} \ {Root} = {}
    BY <2>1 DEF JobOK, Shape
  <2>2. ASSUME b.kind = "file" PROVE Bytes(b.plan, {Root}) = b.plan[Root].len + Bytes(b.plan, {Root} \ {Root})
    BY <2>1, <2>2, JobTypes, BytesTake
  <2> QED BY <2>1, <2>2 DEF AllBytes
<1> HIDE DEF c
<1>4. Shape(c)
  BY <1>0, <1>2 DEF JobOK, Shape
<1>5. Progress(c) /\ c.done <= Promised(c.plan)
  <2>1. Bytes(b.plan, {}) = 0
    BY BytesNone
  <2>2. b.kind = "file" => b.cur = Root
    BY DEF JobOK, Shape
  <2>3. b.pc = "stream" => b.offset <= b.plan[b.cur].len
    BY DEF JobOK, Shape
  <2>4. b.kind = "file" => b.todo = {}
    BY DEF JobOK, Shape
  <2>5. /\ b.done \in Nat /\ b.offset \in Nat
        /\ Bytes(b.plan, b.todo) \in Nat /\ AllBytes(b.plan) \in Nat
        /\ Promised(b.plan) \in Nat /\ AllBytes(b.plan) <= Promised(b.plan)
        /\ b.kind = "file" \/ b.pc \in {"copy_one", "stream"} => b.plan[b.cur].len \in Nat
    BY JobTypes
  <2>6. Progress(b) /\ b.done <= Promised(b.plan)
    BY DEF JobOK
  <2>7. Progress(c)
    <3>1. CASE l \in Before
      BY <1>2, <2>6, <3>1 DEF Progress, Before
    <3>2. CASE l = "copy_one"
      BY <1>2, <1>3, <2>2, <2>5, <2>6, <3>2 DEF Progress, Before
    <3>3. CASE l = "entries"
      BY <1>2, <2>3, <2>5, <2>6, <3>3 DEF Progress, Before
    <3>4. CASE l = "copied"
      <4>1. b.todo = {} \/ b.kind = "file"
        BY <3>4
      <4>2. b.todo = {} /\ Bytes(b.plan, b.todo) = 0
        BY <2>1, <2>4, <4>1
      <4>3. b.done = AllBytes(b.plan)
        BY <2>3, <2>5, <2>6, <3>4, <4>2 DEF Progress
      <4> QED BY <1>2, <3>4, <4>3 DEF Progress, Before
    <3>5. CASE l = "cleanup"
      BY <1>2, <2>3, <2>5, <2>6, <3>5 DEF Progress, Before
    <3> QED BY <3>1, <3>2, <3>3, <3>4, <3>5 DEF Before
  <2> QED BY <1>2, <2>6, <2>7
<1>6. JobOK(c)
  BY <1>1, <1>2, <1>4, <1>5 DEF JobOK
<1> QED BY <1>6 DEF c

\* The lengths of a lone file's plan.
LEMMA LoneFile ==
  ASSUME NEW a \in Listings, DOMAIN a = {Root}
  PROVE  AllBytes(a) = a[Root].len
<1>1. Bytes(a, {Root}) = a[Root].len + Bytes(a, {Root} \ {Root})
  BY BytesTake
<1>2. {Root} \ {Root} = {}
  OBVIOUS
<1>3. Bytes(a, {}) = 0 /\ a[Root].len \in Nat
  BY BytesNone, ListingFacts
<1> QED BY <1>1, <1>2, <1>3 DEF AllBytes

\* The plan made by vfs_transfer.
LEMMA BeginOK ==
  ASSUME NEW s \in Places, NEW d \in Near \cup Far, s # d, NEW cp \in BOOLEAN, NEW cl \in BOOLEAN,
         NEW kd \in {"file", "dir"}, NEW a \in Listings, DOMAIN a = IF kd = "file" THEN {Root} ELSE {}
  PROVE  JobOK([NoJob EXCEPT !.pc = "stat_dst", !.src = s, !.dst = d, !.copy = cp, !.kind = kd,
                             !.plan = a, !.clean = cl])
<1> DEFINE c == [NoJob EXCEPT !.pc = "stat_dst", !.src = s, !.dst = d, !.copy = cp, !.kind = kd,
                             !.plan = a, !.clean = cl]
<1>1. NoJob \in Transfers
  BY NoJobOK DEF JobOK
<1>2. c \in Transfers
  BY <1>1 DEF Transfers
<1>3. /\ c.pc = "stat_dst" /\ c.src = s /\ c.dst = d /\ c.kind = kd /\ c.plan = a
      /\ c.todo = {} /\ c.cur = Root /\ c.done = 0
  BY DEF NoJob
<1> HIDE DEF c
<1>4. 0 <= Promised(a)
  BY Totals
<1>5. JobOK(c)
  BY <1>2, <1>3, <1>4, TransferAssumption DEF JobOK, Shape, Progress, Before
<1> QED BY <1>5 DEF c

LEMMA ListOK ==
  ASSUME NEW b, JobOK(b), b.pc = "list", NEW a \in Listings,
         b.kind = "file" => a = b.plan, b.kind = "dir" => Root \notin DOMAIN a
  PROVE  JobOK([b EXCEPT !.pc = "quota", !.plan = a])
<1> DEFINE c == [b EXCEPT !.pc = "quota", !.plan = a]
<1>1. b \in Transfers
  BY DEF JobOK
<1>2. c \in Transfers
  BY <1>1 DEF Transfers, Running
<1>3. /\ c.pc = "quota" /\ c.src = b.src /\ c.dst = b.dst /\ c.kind = b.kind /\ c.plan = a
      /\ c.todo = b.todo /\ c.cur = b.cur /\ c.done = b.done
  BY <1>1 DEF Transfers
<1> HIDE DEF c
<1>4. b.todo = {} /\ b.done = 0 /\ 0 <= Promised(a)
  BY Totals DEF JobOK, Shape, Progress, Before
<1>5. JobOK(c)
  BY <1>2, <1>3, <1>4 DEF JobOK, Shape, Progress, Before
<1> QED BY <1>5 DEF c

\* Success, after a rename or after the copy.
LEMMA DoneOK ==
  ASSUME NEW b, JobOK(b), b.pc # "idle"
  PROVE  JobOK([b EXCEPT !.pc = "ok", !.done = Promised(b.plan)])
<1> DEFINE c == [b EXCEPT !.pc = "ok", !.done = Promised(b.plan)]
<1>1. b \in Transfers /\ Promised(b.plan) \in Nat
  BY JobTypes
<1>2. c \in Transfers
  BY <1>1 DEF Transfers
<1>3. /\ c.pc = "ok" /\ c.src = b.src /\ c.dst = b.dst /\ c.kind = b.kind /\ c.plan = b.plan
      /\ c.todo = b.todo /\ c.cur = b.cur /\ c.done = Promised(b.plan)
  BY <1>1 DEF Transfers
<1> HIDE DEF c
<1>4. JobOK(c)
  BY <1>1, <1>2, <1>3 DEF JobOK, Shape, Progress, Before
<1> QED BY <1>4 DEF c

LEMMA EntriesOK ==
  ASSUME NEW b, JobOK(b), b.pc = "create_dir"
  PROVE  JobOK([b EXCEPT !.pc = "entries", !.todo = DOMAIN b.plan])
<1> DEFINE c == [b EXCEPT !.pc = "entries", !.todo = DOMAIN b.plan]
<1>1. b \in Transfers /\ b.plan \in Listings /\ DOMAIN b.plan \subseteq Names
  BY JobTypes, ListingFacts
<1>2. c \in Transfers
  BY <1>1 DEF Transfers, Running
<1>3. /\ c.pc = "entries" /\ c.src = b.src /\ c.dst = b.dst /\ c.kind = b.kind /\ c.plan = b.plan
      /\ c.todo = DOMAIN b.plan /\ c.cur = b.cur /\ c.done = b.done
  BY <1>1 DEF Transfers
<1> HIDE DEF c
<1>4. b.done = 0 /\ AllBytes(b.plan) \in Nat /\ Bytes(b.plan, DOMAIN b.plan) = AllBytes(b.plan)
  BY JobTypes DEF JobOK, Progress, Before, AllBytes
<1>5. JobOK(c)
  BY <1>2, <1>3, <1>4 DEF JobOK, Shape, Progress, Before
<1> QED BY <1>5 DEF c

LEMMA NextOK ==
  ASSUME NEW b, JobOK(b), b.pc = "entries", NEW f \in b.todo
  PROVE  JobOK([b EXCEPT !.pc = "copy_one", !.cur = f, !.todo = b.todo \ {f}])
<1> DEFINE c == [b EXCEPT !.pc = "copy_one", !.cur = f, !.todo = b.todo \ {f}]
<1>1. b \in Transfers /\ b.plan \in Listings /\ b.todo \in SUBSET DOMAIN b.plan
      /\ DOMAIN b.plan \subseteq Names
  BY JobTypes, ListingFacts
<1>2. c \in Transfers
  BY <1>1 DEF Transfers, Running
<1>3. /\ c.pc = "copy_one" /\ c.src = b.src /\ c.dst = b.dst /\ c.kind = b.kind /\ c.plan = b.plan
      /\ c.todo = b.todo \ {f} /\ c.cur = f /\ c.done = b.done
  BY <1>1 DEF Transfers
<1> HIDE DEF c
<1>4. Bytes(b.plan, b.todo) = b.plan[f].len + Bytes(b.plan, b.todo \ {f})
  BY <1>1, BytesTake
<1>5. b.done \in Nat /\ b.plan[f].len \in Nat /\ Bytes(b.plan, b.todo \ {f}) \in Nat
  BY <1>1, JobTypes, BytesType, ListingFacts
<1>6. b.done + b.plan[f].len + Bytes(b.plan, b.todo \ {f}) = AllBytes(b.plan)
  BY <1>4, <1>5 DEF JobOK, Progress
<1>7. JobOK(c)
  BY <1>1, <1>2, <1>3, <1>6 DEF JobOK, Shape, Progress, Before
<1> QED BY <1>7 DEF c

\* A file copied by one native call.
LEMMA CopiedOK ==
  ASSUME NEW b, JobOK(b), b.pc = "copy_one"
  PROVE  JobOK([b EXCEPT !.pc = IF b.kind = "file" THEN "copied" ELSE "entries",
                         !.done = b.done + b.plan[b.cur].len])
<1> DEFINE l == IF b.kind = "file" THEN "copied" ELSE "entries"
           c == [b EXCEPT !.pc = l, !.done = b.done + b.plan[b.cur].len]
<1>0. /\ b.done \in Nat /\ Bytes(b.plan, b.todo) \in Nat /\ AllBytes(b.plan) \in Nat
      /\ Promised(b.plan) \in Nat /\ AllBytes(b.plan) <= Promised(b.plan)
      /\ b.plan[b.cur].len \in Nat
  BY JobTypes
<1>1. b \in Transfers
  BY DEF JobOK
<1>2. c \in Transfers
  <2>1. b.done + b.plan[b.cur].len \in Nat
    BY <1>0
  <2>2. l \in {"idle", "stat_dst", "list", "ok"} \cup Running
    BY DEF Running
  <2> HIDE DEF l
  <2> QED BY <1>1, <2>1, <2>2 DEF Transfers
<1>3. /\ c.pc = l /\ c.src = b.src /\ c.dst = b.dst /\ c.kind = b.kind /\ c.plan = b.plan
      /\ c.todo = b.todo /\ c.cur = b.cur /\ c.done = b.done + b.plan[b.cur].len
  BY <1>1 DEF Transfers
<1>4. b.done + b.plan[b.cur].len + Bytes(b.plan, b.todo) = AllBytes(b.plan)
  BY DEF JobOK, Progress
<1>5. b.kind = "file" => b.todo = {} /\ Bytes(b.plan, b.todo) = 0
  BY BytesNone DEF JobOK, Shape
<1>6. b.kind \in {"file", "dir"}
  BY <1>1 DEF JobOK, Shape, Transfers
<1> HIDE DEF c
<1>7. Shape(c)
  BY <1>3, <1>5, <1>6 DEF JobOK, Shape
<1>8. Progress(c)
  BY <1>0, <1>3, <1>4, <1>5, <1>6 DEF Progress, Before
<1>9. JobOK(c)
  BY <1>0, <1>2, <1>3, <1>4, <1>7, <1>8 DEF JobOK
<1> QED BY <1>9 DEF c

LEMMA OpenOK ==
  ASSUME NEW b, JobOK(b), b.pc = "copy_one"
  PROVE  JobOK([b EXCEPT !.pc = "stream", !.offset = 0])
<1> DEFINE c == [b EXCEPT !.pc = "stream", !.offset = 0]
<1>0. b.done \in Nat /\ b.plan[b.cur].len \in Nat
  BY JobTypes
<1>1. b \in Transfers
  BY DEF JobOK
<1>2. c \in Transfers
  <2>1. 0 \in 0 .. Chunks /\ "stream" \in Running
    BY TransferAssumption DEF Running
  <2> QED BY <1>1, <2>1 DEF Transfers
<1>3. /\ c.pc = "stream" /\ c.src = b.src /\ c.dst = b.dst /\ c.kind = b.kind /\ c.plan = b.plan
      /\ c.todo = b.todo /\ c.cur = b.cur /\ c.done = b.done /\ c.offset = 0
  BY <1>1 DEF Transfers
<1> HIDE DEF c
<1>4. JobOK(c)
  BY <1>0, <1>2, <1>3 DEF JobOK, Shape, Progress, Before
<1> QED BY <1>4 DEF c

LEMMA ChunkOK ==
  ASSUME NEW b, JobOK(b), b.pc = "stream", b.offset < b.plan[b.cur].len
  PROVE  JobOK([b EXCEPT !.offset = b.offset + 1, !.done = b.done + 1])
<1> DEFINE c == [b EXCEPT !.offset = b.offset + 1, !.done = b.done + 1]
<1>0. /\ b.done \in Nat /\ Bytes(b.plan, b.todo) \in Nat /\ AllBytes(b.plan) \in Nat
      /\ Promised(b.plan) \in Nat /\ AllBytes(b.plan) <= Promised(b.plan)
      /\ b.plan[b.cur].len \in Nat /\ b.plan[b.cur].len <= Chunks /\ b.offset \in Nat
  BY JobTypes
<1>1. b \in Transfers
  BY DEF JobOK
<1>2. c \in Transfers
  <2>1. b.offset + 1 \in 0 .. Chunks
    BY <1>0, TransferAssumption
  <2>2. b.done + 1 \in Nat
    BY <1>0
  <2> QED BY <1>1, <2>1, <2>2 DEF Transfers
<1>3. /\ c.pc = "stream" /\ c.src = b.src /\ c.dst = b.dst /\ c.kind = b.kind /\ c.plan = b.plan
      /\ c.todo = b.todo /\ c.cur = b.cur /\ c.done = b.done + 1 /\ c.offset = b.offset + 1
  BY <1>1 DEF Transfers
<1> HIDE DEF c
<1>4. b.done + (b.plan[b.cur].len - b.offset) + Bytes(b.plan, b.todo) = AllBytes(b.plan)
  BY DEF JobOK, Progress
<1>5. b.done + 1 + (b.plan[b.cur].len - (b.offset + 1)) + Bytes(b.plan, b.todo) = AllBytes(b.plan)
      /\ b.done + 1 <= Promised(b.plan) /\ b.offset + 1 <= b.plan[b.cur].len
  BY <1>0, <1>4
<1>6. JobOK(c)
  BY <1>2, <1>3, <1>5 DEF JobOK, Shape, Progress, Before
<1> QED BY <1>6 DEF c

\* The token and the history.
LEMMA FlagsOK ==
  ASSUME NEW b, JobOK(b), NEW x \in BOOLEAN, NEW y \in BOOLEAN, b.pc = "idle" => ~x /\ y
  PROVE  JobOK([b EXCEPT !.cancelled = x, !.clean = y])
<1> DEFINE c == [b EXCEPT !.cancelled = x, !.clean = y]
<1>1. b \in Transfers
  BY DEF JobOK
<1>2. c \in Transfers
  BY <1>1 DEF Transfers
<1>3. /\ c.pc = b.pc /\ c.src = b.src /\ c.dst = b.dst /\ c.kind = b.kind /\ c.plan = b.plan /\ c.copy = b.copy
      /\ c.todo = b.todo /\ c.cur = b.cur /\ c.done = b.done /\ c.offset = b.offset
  BY <1>1 DEF Transfers
<1>4. b.pc = "idle" => c = NoJob
  <2>1. ASSUME b.pc = "idle" PROVE b = NoJob /\ x = b.cancelled /\ y = b.clean
    <3>1. b = NoJob /\ x = FALSE /\ y = TRUE
      BY <2>1 DEF JobOK, Shape
    <3>2. NoJob.cancelled = FALSE /\ NoJob.clean = TRUE
      BY DEF NoJob
    <3> QED BY <3>1, <3>2
  <2>2. [b EXCEPT !.cancelled = b.cancelled, !.clean = b.clean] = b
    BY <1>1 DEF Transfers
  <2> QED BY <2>1, <2>2
<1> HIDE DEF c
<1>5. JobOK(c)
  BY <1>2, <1>3, <1>4 DEF JobOK, Shape, Progress, Before
<1> QED BY <1>5 DEF c

-----------------------------------------------------------------------------
(* What a place holds, through the calls to the backend. *)

LEMMA GoneOK == ASSUME NEW U PROVE PlaceOK(Gone, U)
BY NoFilesListed DEF PlaceOK, Gone

LEMMA PlaceTypes ==
  ASSUME NEW e, NEW U, PlaceOK(e, U)
  PROVE  /\ e.at \in Listings /\ DOMAIN e.at \subseteq Names
         /\ e.kind = "none" => DOMAIN e.at = {}
         /\ e.kind \in {"none", "file"} => DOMAIN e.at \subseteq {Root}
         /\ e.kind = "file" => DOMAIN e.at = {Root}
         /\ e.kind = "dir" => Root \notin DOMAIN e.at
         /\ \A f \in DOMAIN e.at : e.at[f] \in Contents /\ e.at[f].len \in Nat /\ e.at[f].len <= Chunks
<1>1. e.at \in Listings
  BY DEF PlaceOK
<1>2. \A f \in DOMAIN e.at : KindOf(f) = e.kind
  BY DEF PlaceOK
<1> QED BY <1>1, <1>2, ListingFacts DEF PlaceOK, KindOf

LEMMA PutOK ==
  ASSUME NEW e, NEW U, PlaceOK(e, U), NEW f \in Names, e.kind \in {"none", KindOf(f)},
         NEW c \in Contents, c.of \notin U, c.len = 0 => c = Blank
  PROVE  PlaceOK([kind |-> KindOf(f),
                  at |-> [g \in DOMAIN e.at \cup {f} |-> IF g = f THEN c ELSE e.at[g]]], U)
<1> DEFINE N == DOMAIN e.at \cup {f}
           a == [g \in N |-> IF g = f THEN c ELSE e.at[g]]
<1>1. N \in SUBSET Names /\ \A g \in N : KindOf(g) = KindOf(f)
  BY PlaceTypes DEF PlaceOK
<1>2. a \in [N -> Contents]
  BY PlaceTypes
<1>3. DOMAIN a = N /\ \A g \in N : a[g] = IF g = f THEN c ELSE e.at[g]
  OBVIOUS
<1>4. a \in Listings
  <2> HIDE DEF N, a
  <2> QED BY <1>1, <1>2, ListingIntro
<1>5. KindOf(f) = "file" => Root \in N
  BY DEF KindOf
<1>6. KindOf(f) \in {"none", "file", "dir"}
  BY DEF KindOf
<1>7. \A g \in N : KindOf(g) = KindOf(f) /\ a[g].of \notin U /\ (a[g].len = 0 => a[g] = Blank)
  BY <1>1, <1>3 DEF PlaceOK
<1> HIDE DEF N, a
<1>8. PlaceOK([kind |-> KindOf(f), at |-> a], U)
  BY <1>3, <1>4, <1>5, <1>6, <1>7 DEF PlaceOK
<1> QED BY <1>8 DEF a, N

LEMMA EditOK ==
  ASSUME NEW e, NEW U, PlaceOK(e, U), NEW f \in DOMAIN e.at,
         NEW c \in Contents, c.of \notin U, c.len = 0 => c = Blank
  PROVE  PlaceOK([e EXCEPT !.at[f] = c], U)
<1> DEFINE a == [e.at EXCEPT ![f] = c]
           N == DOMAIN e.at
           d == [e EXCEPT !.at[f] = c]
<1>1. e.at = [g \in N |-> e.at[g]] /\ N \in SUBSET Names /\ \A g \in N : e.at[g] \in Contents
  BY PlaceTypes, ListingFacts
<1>2. a \in [N -> Contents] /\ DOMAIN a = N /\ \A g \in N : a[g] = IF g = f THEN c ELSE e.at[g]
  BY <1>1
<1>3. a \in Listings
  <2> HIDE DEF N, a
  <2> QED BY <1>1, <1>2, ListingIntro
<1>4. d.kind = e.kind /\ d.at = a
  BY DEF PlaceOK
<1>5. d \in [kind : {"none", "file", "dir"}, at : Listings]
  <2> HIDE DEF a
  <2> QED BY <1>3 DEF PlaceOK, a
<1> HIDE DEF a, d
<1>6. PlaceOK(d, U)
  BY <1>2, <1>4, <1>5 DEF PlaceOK
<1> QED BY <1>6 DEF d

LEMMA DirOK ==
  ASSUME NEW e, NEW U, PlaceOK(e, U), e.kind # "file"
  PROVE  PlaceOK([e EXCEPT !.kind = "dir"], U)
<1> DEFINE d == [e EXCEPT !.kind = "dir"]
<1>1. d.kind = "dir" /\ d.at = e.at /\ d \in [kind : {"none", "file", "dir"}, at : Listings]
  BY DEF PlaceOK
<1> HIDE DEF d
<1>2. \A f \in DOMAIN e.at : KindOf(f) = "dir"
  BY PlaceTypes DEF PlaceOK
<1>3. PlaceOK(d, U)
  BY <1>1, <1>2 DEF PlaceOK
<1> QED BY <1>3 DEF d

\* What a recursive delete leaves is part of what there was.
LEMMA RemainsOK ==
  ASSUME NEW p, NEW U, PlaceOK(store[p], U), NEW rest \in Remains(p)
  PROVE  /\ PlaceOK(rest, U)
         /\ \A f \in DOMAIN rest.at : f \in DOMAIN store[p].at /\ rest.at[f] = store[p].at[f]
<1>1. CASE rest = Gone
  BY <1>1, GoneOK, NoFilesListed DEF Gone
<1>2. CASE rest = store[p]
  BY <1>2
<1>3. CASE rest \notin {Gone, store[p]}
  <2> DEFINE a == store[p].at
  <2>1. PICK N \in SUBSET (DOMAIN a) : rest = [kind |-> "dir", at |-> Restrict(a, N)]
    BY <1>3 DEF Remains
  <2>2. store[p].kind = "dir"
    BY <1>3 DEF Remains
  <2>3. /\ Restrict(a, N) \in [N -> Contents] /\ N \in SUBSET Names
        /\ DOMAIN Restrict(a, N) = N /\ \A f \in N : Restrict(a, N)[f] = a[f]
    BY <2>1, PlaceTypes DEF Restrict
  <2>4. Restrict(a, N) \in Listings
    BY <2>3, ListingIntro
  <2>5. rest.kind = "dir" /\ rest.at = Restrict(a, N)
    BY <2>1
  <2>6. rest \in [kind : {"none", "file", "dir"}, at : Listings]
    BY <2>1, <2>4
  <2> QED BY <2>2, <2>3, <2>5, <2>6 DEF PlaceOK
<1> QED BY <1>1, <1>2, <1>3

-----------------------------------------------------------------------------
(* Control: every step keeps the records and the places in shape. *)

JobsOK == job = [j \in Jobs |-> job[j]] /\ \A j \in Jobs : JobOK(job[j])
StoreOK == store = [p \in Places |-> store[p]] /\ \A p \in Places : PlaceOK(store[p], unused)
EnvOK == unused \subseteq Data /\ kept \subseteq Data \ unused /\ requests \in 0 .. MaxRequests

LEMMA ControlParts == ControlInv <=> JobsOK /\ StoreOK /\ EnvOK
BY DEF ControlInv, JobsOK, StoreOK, EnvOK

\* A step of one job.
JobStepped(j, c) == job' = [job EXCEPT ![j] = c]
Written(p, e) == store' = [store EXCEPT ![p] = e]

LEMMA JobsStep ==
  ASSUME JobsOK, NEW j \in Jobs, NEW c, JobOK(c), JobStepped(j, c)
  PROVE  JobsOK' /\ job'[j] = c /\ \A k \in Jobs \ {j} : job'[k] = job[k]
BY DEF JobsOK, JobStepped

LEMMA StoreStep ==
  ASSUME StoreOK, NEW p \in Places, NEW e, PlaceOK(e, unused), Written(p, e), unused' = unused
  PROVE  StoreOK' /\ store'[p] = e /\ \A q \in Places \ {p} : store'[q] = store[q]
BY DEF StoreOK, Written

LEMMA Frame == ASSUME ControlInv, UNCHANGED envVars, JobsOK', StoreOK' PROVE ControlInv'
BY ControlParts DEF ControlInv, JobsOK, StoreOK, EnvOK, envVars

LEMMA Parts ==
  ASSUME ControlInv, NEW j \in Jobs
  PROVE  /\ JobsOK /\ StoreOK /\ EnvOK
         /\ JobOK(job[j]) /\ job[j] \in Transfers /\ job = [k \in Jobs |-> job[k]]
         /\ job[j].pc # "idle" =>
              /\ job[j].src \in Places /\ job[j].dst \in Places /\ job[j].src # job[j].dst
              /\ PlaceOK(store[job[j].src], unused) /\ PlaceOK(store[job[j].dst], unused)
              /\ job[j].kind \in {"file", "dir"}
<1>1. /\ JobsOK /\ StoreOK /\ EnvOK
      /\ JobOK(job[j]) /\ job[j] \in Transfers /\ job = [k \in Jobs |-> job[k]]
  BY DEF ControlInv, JobsOK, StoreOK, EnvOK, JobOK
<1>2. job[j].pc # "idle" =>
        job[j].src \in Places /\ job[j].dst \in Places /\ job[j].src # job[j].dst
        /\ job[j].kind # "none"
  BY <1>1 DEF JobOK, Shape, Places
<1>3. job[j].kind \in {"none", "file", "dir"}
  BY <1>1 DEF Transfers
<1> QED BY <1>1, <1>2, <1>3 DEF StoreOK

\* Steps that leave the places alone.
LEMMA ControlQuiet ==
  ASSUME ControlInv, NEW j \in Jobs, NEW c, JobOK(c), JobStepped(j, c), UNCHANGED <<store, envVars>>
  PROVE  ControlInv'
<1>1. JobsOK'
  BY Parts, JobsStep
<1>2. StoreOK'
  BY Parts DEF StoreOK, envVars
<1> QED BY <1>1, <1>2, Frame DEF envVars

\* Steps that change one place.
LEMMA ControlWrite ==
  ASSUME ControlInv, NEW j \in Jobs, NEW c, JobOK(c), JobStepped(j, c), UNCHANGED envVars,
         NEW p \in Places, NEW e, PlaceOK(e, unused), Written(p, e)
  PROVE  ControlInv'
<1>1. JobsOK'
  BY Parts, JobsStep
<1>2. StoreOK'
  BY Parts, StoreStep DEF envVars
<1> QED BY <1>1, <1>2, Frame

LEMMA GotoIs ==
  ASSUME NEW j \in Jobs, NEW l, ControlInv, Goto(j, l)
  PROVE  JobStepped(j, [job[j] EXCEPT !.pc = l])
BY Parts DEF Goto, JobStepped

LEMMA EndsIs ==
  ASSUME NEW j \in Jobs, Ends(j)
  PROVE  JobStepped(j, NoJob) /\ JobOK(NoJob)
BY NoJobOK DEF Ends, JobStepped

LEMMA ControlRefuse ==
  ASSUME ControlInv, NEW j \in Jobs, Refuse(j) \/ FinishJob(j)
  PROVE  ControlInv'
BY EndsIs, ControlQuiet DEF Refuse, FinishJob

LEMMA ControlStatDest ==
  ASSUME ControlInv, NEW j \in Jobs, StatDest(j)
  PROVE  ControlInv'
<1>1. JobStepped(j, [job[j] EXCEPT !.pc = "list"])
  BY GotoIs DEF StatDest
<1>2. JobOK([job[j] EXCEPT !.pc = "list"])
  BY Parts, GotoOK DEF StatDest
<1> QED BY <1>1, <1>2, ControlQuiet DEF StatDest

LEMMA ControlList ==
  ASSUME ControlInv, NEW j \in Jobs, List(j)
  PROVE  ControlInv'
<1> DEFINE b == job[j]
           here == store[b.src]
           a == IF b.kind = "file" THEN b.plan ELSE IF here.kind = "dir" THEN here.at ELSE NoFiles
           c == [b EXCEPT !.pc = "quota", !.plan = a]
<1>1. JobOK(b) /\ b.pc = "list" /\ PlaceOK(here, unused) /\ b.kind \in {"file", "dir"}
  BY Parts DEF List
<1>2. a \in Listings
  BY <1>1, PlaceTypes, NoFilesListed, JobTypes
<1>3. b.kind = "dir" => Root \notin DOMAIN a
  BY <1>1, PlaceTypes, NoFilesListed
<1>4. JobOK(c)
  <2> HIDE DEF b, here
  <2> QED BY <1>1, <1>2, <1>3, ListOK
<1>5. JobStepped(j, c)
  BY Parts DEF List, JobStepped
<1> QED BY <1>4, <1>5, ControlQuiet DEF List

\* To where copy_tree starts.
LEMMA CopyTreeOK ==
  ASSUME ControlInv, NEW j \in Jobs, job[j].pc \in {"quota", "rename"}
  PROVE  JobOK([job[j] EXCEPT !.pc = CopyTree(j)])
<1>1. JobOK(job[j]) /\ job[j].kind \in {"file", "dir"}
  BY Parts
<1> QED BY <1>1, GotoOK DEF CopyTree

LEMMA ControlCheckQuota ==
  ASSUME ControlInv, NEW j \in Jobs, CheckQuota(j)
  PROVE  ControlInv'
<1>1. /\ job[j].pc = "quota" /\ UNCHANGED <<store, envVars>>
      /\ (~ job[j].copy /\ Goto(j, "rename")) \/ Goto(j, CopyTree(j)) \/ Ends(j)
  BY DEF CheckQuota
<1>2. CASE ~ job[j].copy /\ Goto(j, "rename")
  <2>1. JobOK([job[j] EXCEPT !.pc = "rename"])
    BY <1>1, <1>2, Parts, GotoOK
  <2> QED BY <1>1, <1>2, <2>1, GotoIs, ControlQuiet
<1>3. CASE Goto(j, CopyTree(j))
  BY <1>1, <1>3, CopyTreeOK, GotoIs, ControlQuiet
<1>4. CASE Ends(j)
  BY <1>1, <1>4, EndsIs, ControlQuiet
<1> QED BY <1>1, <1>2, <1>3, <1>4

LEMMA ControlRename ==
  ASSUME ControlInv, NEW j \in Jobs, Rename(j)
  PROVE  ControlInv'
<1> DEFINE s == job[j].src
           d == job[j].dst
<1>0. job[j].pc = "rename" /\ UNCHANGED envVars
  BY DEF Rename
<1>1. CASE /\ store' = [store EXCEPT ![d] = store[s], ![s] = Gone]
           /\ job' = [job EXCEPT ![j].pc = "ok", ![j].done = Total(j)]
  <2>1. JobOK([job[j] EXCEPT !.pc = "ok", !.done = Promised(job[j].plan)])
    BY <1>0, Parts, DoneOK
  <2>2. JobStepped(j, [job[j] EXCEPT !.pc = "ok", !.done = Promised(job[j].plan)])
    BY <1>1, Parts, TotalIs DEF JobStepped
  <2>3. JobsOK'
    BY <2>1, <2>2, Parts, JobsStep
  <2>4. s \in Places /\ d \in Places /\ StoreOK /\ PlaceOK(Gone, unused)
    BY <1>0, Parts, GoneOK
  <2>5. StoreOK'
    BY <1>0, <1>1, <2>4 DEF StoreOK, envVars
  <2> QED BY <1>0, <2>3, <2>5, Frame
<1>2. CASE Goto(j, CopyTree(j)) /\ UNCHANGED store
  BY <1>0, <1>2, CopyTreeOK, GotoIs, ControlQuiet
<1>3. CASE Ends(j) /\ UNCHANGED store
  BY <1>0, <1>3, EndsIs, ControlQuiet
<1> QED BY <1>1, <1>2, <1>3 DEF Rename

LEMMA ControlCreateDir ==
  ASSUME ControlInv, NEW j \in Jobs, CreateDir(j)
  PROVE  ControlInv'
<1> DEFINE d == job[j].dst
<1>0. job[j].pc = "create_dir" /\ UNCHANGED envVars
  BY DEF CreateDir
<1>1. CASE /\ store[d].kind # "file" /\ store' = [store EXCEPT ![d].kind = "dir"]
           /\ job' = [job EXCEPT ![j].pc = "entries", ![j].todo = Entries(j)]
  <2>1. JobOK([job[j] EXCEPT !.pc = "entries", !.todo = DOMAIN job[j].plan])
    BY <1>0, Parts, EntriesOK
  <2>2. JobStepped(j, [job[j] EXCEPT !.pc = "entries", !.todo = DOMAIN job[j].plan])
    BY <1>1, Parts DEF JobStepped, Entries
  <2>3. d \in Places /\ PlaceOK([store[d] EXCEPT !.kind = "dir"], unused)
    BY <1>0, <1>1, Parts, DirOK
  <2>4. Written(d, [store[d] EXCEPT !.kind = "dir"])
    BY <1>1, <2>3, Parts DEF Written, StoreOK
  <2> QED BY <1>0, <2>1, <2>2, <2>3, <2>4, ControlWrite
<1>2. CASE Goto(j, "cleanup") /\ UNCHANGED store
  <2>1. JobOK([job[j] EXCEPT !.pc = "cleanup"])
    BY <1>0, Parts, GotoOK
  <2> QED BY <1>0, <1>2, <2>1, GotoIs, ControlQuiet
<1> QED BY <1>1, <1>2 DEF CreateDir

LEMMA ControlNextEntry ==
  ASSUME ControlInv, NEW j \in Jobs, NextEntry(j)
  PROVE  ControlInv'
<1>0. job[j].pc = "entries" /\ UNCHANGED <<store, envVars>>
  BY DEF NextEntry
<1>1. CASE job[j].todo = {} /\ Goto(j, "copied")
  <2>1. JobOK([job[j] EXCEPT !.pc = "copied"])
    BY <1>0, <1>1, Parts, GotoOK
  <2> QED BY <1>0, <1>1, <2>1, GotoIs, ControlQuiet
<1>2. CASE Goto(j, "cleanup")
  <2>1. JobOK([job[j] EXCEPT !.pc = "cleanup"])
    BY <1>0, Parts, GotoOK
  <2> QED BY <1>0, <1>2, <2>1, GotoIs, ControlQuiet
<1>3. ASSUME NEW f \in job[j].todo,
             job' = [job EXCEPT ![j].pc = "copy_one", ![j].cur = f, ![j].todo = @ \ {f}]
      PROVE  ControlInv'
  <2>1. JobOK([job[j] EXCEPT !.pc = "copy_one", !.cur = f, !.todo = job[j].todo \ {f}])
    BY <1>0, Parts, NextOK
  <2>2. JobStepped(j, [job[j] EXCEPT !.pc = "copy_one", !.cur = f, !.todo = job[j].todo \ {f}])
    BY <1>3, Parts DEF JobStepped
  <2> QED BY <1>0, <2>1, <2>2, ControlQuiet
<1> QED BY <1>1, <1>2, <1>3 DEF NextEntry

\* What Put writes.
PutEntry(e, f, c) ==
  [kind |-> KindOf(f), at |-> [g \in DOMAIN e.at \cup {f} |-> IF g = f THEN c ELSE e.at[g]]]

LEMMA PutIs ==
  ASSUME StoreOK, NEW p \in Places, NEW f, NEW c, Put(p, f, c)
  PROVE  Written(p, PutEntry(store[p], f, c))
BY DEF Put, Written, PutEntry, StoreOK

LEMMA PutEntryOK ==
  ASSUME NEW e, NEW U, PlaceOK(e, U), NEW f \in Names, e.kind \in {"none", KindOf(f)},
         NEW c \in Contents, c.of \notin U, c.len = 0 => c = Blank
  PROVE  /\ PlaceOK(PutEntry(e, f, c), U)
         /\ PutEntry(e, f, c).kind = KindOf(f)
         /\ DOMAIN PutEntry(e, f, c).at = DOMAIN e.at \cup {f}
         /\ PutEntry(e, f, c).at[f] = c
         /\ \A g \in DOMAIN e.at \ {f} : PutEntry(e, f, c).at[g] = e.at[g]
BY PutOK DEF PutEntry

\* What is stored somewhere is data already uploaded, or none.
LEMMA StoredOK ==
  ASSUME ControlInv, NEW p \in Places, NEW f \in DOMAIN store[p].at
  PROVE  /\ f \in Names /\ store[p].at[f] \in Contents /\ store[p].at[f].of \notin unused
         /\ store[p].at[f].len = 0 => store[p].at[f] = Blank
         /\ KindOf(f) = store[p].kind
<1>1. PlaceOK(store[p], unused)
  BY DEF ControlInv
<1> QED BY <1>1, PlaceTypes DEF PlaceOK

LEMMA BlankOK == ASSUME ControlInv PROVE Blank \in Contents /\ Blank.of \notin unused
BY BlankIs, TransferAssumption DEF ControlInv

LEMMA CleanupOK ==
  ASSUME ControlInv, NEW j \in Jobs, job[j].pc \in {"create_dir", "entries", "copy_one", "stream"}
  PROVE  JobOK([job[j] EXCEPT !.pc = "cleanup"])
BY Parts, GotoOK

LEMMA ControlCopyOne ==
  ASSUME ControlInv, NEW j \in Jobs, CopyOne(j)
  PROVE  ControlInv'
<1> DEFINE s == job[j].src
           d == job[j].dst
           f == job[j].cur
<1>0. job[j].pc = "copy_one" /\ UNCHANGED envVars
  BY DEF CopyOne
<1>a. /\ s \in Places /\ d \in Places /\ PlaceOK(store[d], unused) /\ JobOK(job[j]) /\ StoreOK
      /\ f \in Names /\ job = [k \in Jobs |-> job[k]]
  BY <1>0, Parts DEF Transfers
<1>1. CASE /\ Has(s, f) /\ Fits(d, f) /\ Put(d, f, store[s].at[f])
           /\ job' = [job EXCEPT ![j].pc = AfterFile(j), ![j].done = @ + job[j].plan[f].len]
  <2> DEFINE c == [job[j] EXCEPT !.pc = IF job[j].kind = "file" THEN "copied" ELSE "entries",
                                 !.done = job[j].done + job[j].plan[job[j].cur].len]
             e == PutEntry(store[d], f, store[s].at[f])
  <2>1. JobOK(c)
    BY <1>0, <1>a, CopiedOK
  <2>2. JobStepped(j, c)
    BY <1>1, <1>a DEF JobStepped, AfterFile
  <2>3. PlaceOK(e, unused)
    BY <1>1, <1>a, StoredOK, PutEntryOK DEF Has, Fits
  <2>4. Written(d, e)
    BY <1>1, <1>a, PutIs
  <2> QED BY <1>0, <1>a, <2>1, <2>2, <2>3, <2>4, ControlWrite
<1>2. CASE /\ Fits(d, f) /\ Put(d, f, Blank)
           /\ job' = [job EXCEPT ![j].pc = "stream", ![j].offset = 0]
  <2> DEFINE c == [job[j] EXCEPT !.pc = "stream", !.offset = 0]
             e == PutEntry(store[d], f, Blank)
  <2>1. JobOK(c)
    BY <1>0, <1>a, OpenOK
  <2>2. JobStepped(j, c)
    BY <1>2, <1>a DEF JobStepped
  <2>3. PlaceOK(e, unused)
    BY <1>2, <1>a, BlankOK, PutEntryOK DEF Fits
  <2>4. Written(d, e)
    BY <1>2, <1>a, PutIs
  <2> QED BY <1>0, <1>a, <2>1, <2>2, <2>3, <2>4, ControlWrite
<1>3. CASE Goto(j, "cleanup") /\ UNCHANGED store
  BY <1>0, <1>3, CleanupOK, GotoIs, ControlQuiet
<1> QED BY <1>1, <1>2, <1>3 DEF CopyOne

LEMMA ControlStream ==
  ASSUME ControlInv, NEW j \in Jobs, Stream(j)
  PROVE  ControlInv'
<1> DEFINE s == job[j].src
           d == job[j].dst
           f == job[j].cur
           from == store[s].at[f]
<1>0. job[j].pc = "stream" /\ job[j].offset < job[j].plan[f].len /\ UNCHANGED envVars
  BY DEF Stream, Streaming
<1>a. /\ s \in Places /\ d \in Places /\ PlaceOK(store[d], unused) /\ JobOK(job[j]) /\ StoreOK
      /\ f \in Names /\ job = [k \in Jobs |-> job[k]]
  BY <1>0, Parts DEF Transfers
<1>1. CASE Goto(j, "cleanup") /\ UNCHANGED store
  BY <1>0, <1>1, CleanupOK, GotoIs, ControlQuiet
<1>2. CASE ~Short(j) /\ WriteChunk(j, from)
  <2> DEFINE c == [job[j] EXCEPT !.offset = job[j].offset + 1, !.done = job[j].done + 1]
             of == IF job[j].offset = 0 \/ store[d].at[f].of = from.of THEN from.of ELSE NoDatum
             x == [of |-> of, len |-> job[j].offset + 1]
             e == [store[d] EXCEPT !.at[f] = x]
  <2>1. JobOK(c)
    BY <1>0, <1>a, ChunkOK
  <2>2. JobStepped(j, c)
    BY <1>2, <1>a DEF JobStepped, WriteChunk
  <2>3. CASE ~ Has(d, f)
    BY <1>0, <1>2, <2>1, <2>2, <2>3, ControlQuiet DEF WriteChunk
  <2>4. CASE Has(d, f)
    <3>1. f \in DOMAIN store[s].at
      BY <1>2 DEF Short, Has
    <3>2. from.of \in Data \cup {NoDatum} /\ from.of \notin unused
      BY <1>a, <3>1, StoredOK DEF Contents
    <3>3. of \in Data \cup {NoDatum} /\ of \notin unused
      BY <3>2, TransferAssumption DEF ControlInv
    <3>4. job[j].offset + 1 \in 0 .. Chunks /\ job[j].offset + 1 # 0
      <4>1. /\ job[j].offset \in Nat /\ job[j].plan[f].len \in Nat /\ job[j].plan[f].len <= Chunks
        BY <1>0, <1>a, JobTypes
      <4> QED BY <1>0, <4>1, TransferAssumption
    <3>5. x \in Contents /\ x.of \notin unused /\ x.len # 0
      <4> HIDE DEF of
      <4> QED BY <3>3, <3>4 DEF Contents
    <3> HIDE DEF x
    <3>6. PlaceOK(e, unused)
      BY <1>a, <2>4, <3>5, EditOK DEF Has
    <3>7. Written(d, e)
      BY <1>2, <1>a, <2>4 DEF WriteChunk, Written, StoreOK, x
    <3> QED BY <1>0, <1>a, <2>1, <2>2, <3>6, <3>7, ControlWrite
  <2> QED BY <2>3, <2>4
<1> QED BY <1>1, <1>2 DEF Stream

LEMMA ControlClose ==
  ASSUME ControlInv, NEW j \in Jobs, Close(j)
  PROVE  ControlInv'
<1> DEFINE d == job[j].dst
           f == job[j].cur
<1>0. job[j].pc = "stream" /\ ~ (job[j].offset < job[j].plan[f].len) /\ UNCHANGED envVars
  BY DEF Close, Streaming
<1>a. /\ d \in Places /\ PlaceOK(store[d], unused) /\ JobOK(job[j]) /\ StoreOK
      /\ f \in Names /\ job[j].kind \in {"file", "dir"}
  BY <1>0, Parts DEF Transfers
<1>1. CASE Goto(j, AfterFile(j)) /\ UNCHANGED store
  <2>1. JobOK([job[j] EXCEPT !.pc = AfterFile(j)])
    BY <1>0, <1>a, GotoOK DEF AfterFile
  <2> QED BY <1>0, <1>1, <2>1, GotoIs, ControlQuiet
<1>2. CASE Goto(j, "cleanup") /\ LoseFile(j)
  <2> DEFINE e == [store[d] EXCEPT !.at[f] = Blank]
  <2>1. PlaceOK(e, unused)
    BY <1>2, <1>a, BlankOK, EditOK DEF LoseFile, Has
  <2>2. Written(d, e)
    BY <1>2, <1>a DEF LoseFile, Written, StoreOK
  <2> QED BY <1>0, <1>2, <1>a, <2>1, <2>2, CleanupOK, GotoIs, ControlWrite
<1> QED BY <1>1, <1>2 DEF Close

LEMMA ControlCleanup ==
  ASSUME ControlInv, NEW j \in Jobs, Cleanup(j)
  PROVE  ControlInv'
<1> DEFINE d == job[j].dst
<1>0. job[j].pc = "cleanup" /\ UNCHANGED envVars /\ Ends(j)
  BY DEF Cleanup
<1>1. PICK rest \in Remains(d) : Written(d, rest)
  BY DEF Cleanup, Written
<1>2. d \in Places /\ PlaceOK(rest, unused)
  BY <1>0, Parts, RemainsOK
<1> QED BY <1>0, <1>1, <1>2, EndsIs, ControlWrite

LEMMA SucceedsIs ==
  ASSUME ControlInv, NEW j \in Jobs, job[j].pc = "copied", Succeeds(j)
  PROVE  /\ JobOK([job[j] EXCEPT !.pc = "ok", !.done = Promised(job[j].plan)])
         /\ JobStepped(j, [job[j] EXCEPT !.pc = "ok", !.done = Promised(job[j].plan)])
<1>1. JobOK(job[j]) /\ job = [k \in Jobs |-> job[k]]
  BY Parts
<1>2. job[j].done = AllBytes(job[j].plan)
  BY <1>1 DEF JobOK, Progress
<1>3. (IF TotalBytes(j) = 0 THEN job[j].done + 1 ELSE job[j].done) = Promised(job[j].plan)
  BY <1>2, TotalIs DEF Promised
<1>4. JobStepped(j, [job[j] EXCEPT !.pc = "ok", !.done = Promised(job[j].plan)])
  BY <1>1, <1>3 DEF Succeeds, JobStepped
<1> QED BY <1>1, <1>4, DoneOK

LEMMA ControlDeleteSource ==
  ASSUME ControlInv, NEW j \in Jobs, DeleteSource(j)
  PROVE  ControlInv'
<1> DEFINE s == job[j].src
<1>0. job[j].pc = "copied" /\ UNCHANGED envVars
  BY DEF DeleteSource
<1>a. s \in Places /\ PlaceOK(store[s], unused)
  BY <1>0, Parts
<1>1. CASE Succeeds(j) /\ UNCHANGED store
  BY <1>0, <1>1, SucceedsIs, ControlQuiet
<1>2. CASE Ends(j) /\ UNCHANGED store
  BY <1>0, <1>2, EndsIs, ControlQuiet
<1>3. CASE Succeeds(j) /\ Written(s, Gone)
  BY <1>0, <1>3, <1>a, GoneOK, SucceedsIs, ControlWrite
<1>4. CASE Ends(j) /\ \E rest \in Remains(s) : Written(s, rest)
  BY <1>0, <1>4, <1>a, RemainsOK, EndsIs, ControlWrite
<1> QED BY <1>1, <1>2, <1>3, <1>4 DEF DeleteSource, Written

LEMMA ControlCancel ==
  ASSUME ControlInv, NEW j \in Jobs, Cancel(j)
  PROVE  ControlInv'
<1> DEFINE b == job[j]
           c == [b EXCEPT !.cancelled = TRUE, !.clean = b.clean]
<1>1. JobOK(b) /\ b \in Transfers /\ b.clean \in BOOLEAN /\ b.pc # "idle"
  BY Parts DEF Transfers, Cancel, Running
<1>2. JobOK(c)
  <2> HIDE DEF b
  <2> QED BY <1>1, FlagsOK
<1>3. c = [b EXCEPT !.cancelled = TRUE]
  <2> HIDE DEF b
  <2> QED BY <1>1 DEF Transfers
<1>4. JobStepped(j, c)
  <2>1. job' = [job EXCEPT ![j] = [b EXCEPT !.cancelled = TRUE]]
    BY Parts DEF Cancel
  <2> QED BY <1>3, <2>1 DEF JobStepped
<1> QED BY <1>2, <1>4, ControlQuiet DEF Cancel

\* A job that names a place is not idle.
LEMMA Idle ==
  ASSUME ControlInv, NEW k \in Jobs, job[k].pc = "idle"
  PROVE  job[k] = NoJob /\ job[k].src = Nowhere /\ job[k].dst = Nowhere /\ Nowhere \notin Places
<1>1. job[k] = NoJob
  BY Parts DEF JobOK, Shape
<1>2. NoJob.src = Nowhere /\ NoJob.dst = Nowhere
  BY DEF NoJob
<1> QED BY <1>1, <1>2, TransferAssumption

\* The history of the other jobs.
LEMMA CleanOK ==
  ASSUME ControlInv, NEW k \in Jobs, NEW y \in BOOLEAN, job[k].pc = "idle" => y
  PROVE  JobOK([job[k] EXCEPT !.clean = y])
<1> DEFINE b == job[k]
           c == [b EXCEPT !.cancelled = b.cancelled, !.clean = y]
<1>1. JobOK(b) /\ b \in Transfers /\ b.cancelled \in BOOLEAN
  BY Parts DEF Transfers
<1>2. b.pc = "idle" => ~ b.cancelled
  BY Idle DEF NoJob
<1>3. JobOK(c)
  <2>1. b.pc = "idle" => ~ b.cancelled /\ y
    BY <1>2
  <2> HIDE DEF b
  <2> QED BY <1>1, <2>1, FlagsOK
<1>4. c = [b EXCEPT !.clean = y]
  <2> HIDE DEF b
  <2> QED BY <1>1 DEF Transfers
<1> QED BY <1>3, <1>4

LEMMA TouchesOK ==
  ASSUME ControlInv, NEW p \in Places, Touches(p)
  PROVE  JobsOK'
<1>1. ASSUME NEW k \in Jobs PROVE JobOK(job'[k])
  <2> DEFINE y == job[k].clean /\ ~Uses(k, {p})
  <2>1. job'[k] = [job[k] EXCEPT !.clean = y]
    BY DEF Touches
  <2>2. y \in BOOLEAN
    OBVIOUS
  <2>3. job[k].pc = "idle" => y
    BY Idle DEF Uses, NoJob
  <2> HIDE DEF y
  <2> QED BY <2>1, <2>2, <2>3, CleanOK
<1>2. job' = [k \in Jobs |-> job'[k]]
  BY DEF Touches
<1> QED BY <1>1, <1>2 DEF JobsOK

LEMMA ControlBegin ==
  ASSUME ControlInv, NEW j \in Jobs, NEW s \in Places, NEW d \in Places, NEW c \in BOOLEAN,
         Begin(j, s, d, c)
  PROVE  ControlInv'
<1> DEFINE rivals == {k \in Jobs \ {j} : Uses(k, {d}) \/ job[k].dst = s}
           shares(k) == k \in rivals \/ (job[k].src = s /\ ~(c /\ job[k].copy))
           here == store[s]
           a == IF here.kind = "file" THEN here.at ELSE NoFiles
           y == \A o \in Jobs \ {j} : ~shares(o)
<1>1. /\ s # d /\ d \in Near \cup Far /\ here # Gone /\ UNCHANGED <<store, unused>>
      /\ kept' \subseteq kept /\ requests < MaxRequests /\ requests' = requests + 1
  BY DEF Begin, Places, Request
<1>2. PlaceOK(here, unused)
  BY DEF ControlInv
<1>3. here.kind \in {"file", "dir"}
  <2>1. ASSUME here.kind = "none" PROVE FALSE
    <3>1. here \in [kind : {"none", "file", "dir"}, at : Listings] /\ DOMAIN here.at = {}
      BY <1>2, <2>1, PlaceTypes DEF PlaceOK
    <3>2. here.at = NoFiles
      BY <3>1, ListingFacts DEF NoFiles
    <3>3. here = [kind |-> here.kind, at |-> here.at]
      BY <3>1
    <3> QED BY <1>1, <2>1, <3>2, <3>3 DEF Gone
  <2> QED BY <1>2, <2>1 DEF PlaceOK
<1>4. a \in Listings /\ DOMAIN a = IF here.kind = "file" THEN {Root} ELSE {}
  BY <1>2, PlaceTypes, NoFilesListed
<1>5. ASSUME NEW k \in Jobs PROVE JobOK(job'[k])
  <2>1. CASE k = j
    <3>1. job'[j] = [NoJob EXCEPT !.pc = "stat_dst", !.src = s, !.dst = d, !.copy = c,
                         !.kind = here.kind, !.plan = a, !.clean = y]
      BY DEF Begin
    <3>2. y \in BOOLEAN
      OBVIOUS
    <3> HIDE DEF y, a, here
    <3>3. s # d /\ d \in Near \cup Far
      BY <1>1
    <3>4. JobOK([NoJob EXCEPT !.pc = "stat_dst", !.src = s, !.dst = d, !.copy = c,
                         !.kind = here.kind, !.plan = a, !.clean = y])
      BY ONLY BeginOK, s \in Places, c \in BOOLEAN, <1>3, <1>4, <3>2, <3>3
    <3> QED BY <2>1, <3>1, <3>4
  <2>2. CASE k # j
    <3> DEFINE z == job[k].clean /\ ~shares(k)
    <3>1. job'[k] = [job[k] EXCEPT !.clean = z]
      BY <2>2 DEF Begin
    <3>2. z \in BOOLEAN
      OBVIOUS
    <3>3. job[k].pc = "idle" => z
      BY Idle DEF Uses, NoJob
    <3> HIDE DEF z
    <3> QED BY <3>1, <3>2, <3>3, CleanOK
  <2> QED BY <2>1, <2>2
<1>6. job' = [k \in Jobs |-> job'[k]]
  BY DEF Begin
<1>7. requests' \in 0 .. MaxRequests
  BY <1>1, TransferAssumption DEF ControlInv
<1> QED BY <1>1, <1>5, <1>6, <1>7 DEF ControlInv

LEMMA LessOK ==
  ASSUME NEW e, NEW U, NEW V \in SUBSET U, PlaceOK(e, U)
  PROVE  PlaceOK(e, V)
BY DEF PlaceOK

LEMMA ControlUpload ==
  ASSUME ControlInv, NEW p \in Places, NEW f \in Names, Upload(p, f)
  PROVE  ControlInv'
<1> DEFINE x == CHOOSE d \in unused : TRUE
           e == PutEntry(store[p], f, Whole(x))
           V == unused \ {x}
<1>1. /\ x \in unused /\ Fits(p, f) /\ unused' = V /\ Touches(p) /\ Put(p, f, Whole(x))
      /\ kept' \subseteq kept \cup {x} /\ requests < MaxRequests /\ requests' = requests + 1
  BY DEF Upload, Request
<1> HIDE DEF x
<1>2. /\ Whole(x) \in Contents /\ Whole(x).of \notin V /\ Whole(x).len # 0 /\ x \in Data
  BY <1>1, TransferAssumption DEF Whole, Contents, ControlInv
<1>3. \A q \in Places : PlaceOK(store[q], V)
  BY LessOK DEF ControlInv
<1>4. PlaceOK(e, V)
  BY <1>1, <1>2, <1>3, PutEntryOK DEF Fits
<1>5. Written(p, e) /\ StoreOK
  BY <1>1, PutIs DEF ControlInv, StoreOK
<1>6. StoreOK'
  BY <1>1, <1>3, <1>4, <1>5 DEF StoreOK, Written
<1>7. requests' \in 0 .. MaxRequests
  BY <1>1, TransferAssumption DEF ControlInv
<1>8. unused' \subseteq Data /\ kept' \subseteq Data \ unused'
  BY <1>1, <1>2 DEF ControlInv
<1> QED BY <1>1, <1>6, <1>7, <1>8, TouchesOK DEF ControlInv, JobsOK, StoreOK

LEMMA ControlTruncate ==
  ASSUME ControlInv, NEW p \in Places, NEW f \in Names, Truncate(p, f)
  PROVE  ControlInv'
<1> DEFINE b == store[p].at[f]
           c(n) == IF n = 0 THEN Blank ELSE [b EXCEPT !.len = n]
<1>1. /\ f \in DOMAIN store[p].at /\ unused' = unused /\ Touches(p)
      /\ kept' \subseteq kept /\ requests < MaxRequests /\ requests' = requests + 1
  BY DEF Truncate, Has, Request
<1>2. PICK n \in 0 .. store[p].at[f].len - 1 : store' = [store EXCEPT ![p].at[f] = c(n)]
  BY DEF Truncate
<1>3. PlaceOK(store[p], unused) /\ StoreOK
  BY DEF ControlInv, StoreOK
<1>4. b \in Contents /\ b.of \notin unused /\ b.len \in 0 .. Chunks
  BY <1>1, StoredOK DEF Contents
<1>5. c(n) \in Contents /\ c(n).of \notin unused /\ (c(n).len = 0 => c(n) = Blank)
  <2>1. CASE n = 0
    BY <2>1, BlankOK
  <2>2. CASE n # 0
    <3>1. n \in 0 .. Chunks
      BY <1>2, <1>4, TransferAssumption
    <3> HIDE DEF b
    <3>2. [b EXCEPT !.len = n] \in Contents /\ [b EXCEPT !.len = n].of = b.of
          /\ [b EXCEPT !.len = n].len = n
      BY <1>4, <3>1 DEF Contents
    <3> QED BY <1>4, <2>2, <3>2
  <2> QED BY <2>1, <2>2
<1> HIDE DEF c
<1>6. PlaceOK([store[p] EXCEPT !.at[f] = c(n)], unused)
  BY <1>1, <1>3, <1>5, EditOK
<1>7. Written(p, [store[p] EXCEPT !.at[f] = c(n)])
  BY <1>2, <1>3 DEF Written, StoreOK
<1>8. StoreOK'
  BY <1>1, <1>3, <1>6, <1>7, StoreStep
<1>9. requests' \in 0 .. MaxRequests
  BY <1>1, TransferAssumption DEF ControlInv
<1> QED BY <1>1, <1>8, <1>9, TouchesOK DEF ControlInv, JobsOK, StoreOK

LEMMA ControlCrash == ASSUME ControlInv, Crash PROVE ControlInv'
BY NoJobOK DEF ControlInv, Crash, envVars

LEMMA ControlInit == Init => ControlInv
BY NoJobOK, GoneOK, TransferAssumption DEF Init, ControlInv

LEMMA ControlStep == ControlInv /\ [Next]_vars => ControlInv'
<1> SUFFICES ASSUME ControlInv, [Next]_vars PROVE ControlInv'
  OBVIOUS
<1>1. CASE UNCHANGED vars
  BY <1>1 DEF ControlInv, vars, envVars
<1>2. ASSUME NEW j \in Jobs, NEW s \in Places, NEW d \in Places, NEW c \in BOOLEAN, Begin(j, s, d, c)
      PROVE  ControlInv'
  BY <1>2, ControlBegin
<1>3. ASSUME NEW j \in Jobs, JobStep(j) PROVE ControlInv'
  BY <1>3, ControlCheckQuota, ControlRename, ControlCreateDir, ControlNextEntry, ControlCopyOne,
     ControlStream, ControlClose, ControlCleanup, ControlDeleteSource, ControlRefuse DEF JobStep
<1>4. ASSUME NEW j \in Jobs, Refuse(j) \/ StatDest(j) \/ List(j) \/ Cancel(j) PROVE ControlInv'
  BY <1>4, ControlRefuse, ControlStatDest, ControlList, ControlCancel
<1>5. ASSUME NEW p \in Places, NEW f \in Names, Truncate(p, f) \/ Upload(p, f) PROVE ControlInv'
  BY <1>5, ControlTruncate, ControlUpload
<1> QED BY <1>1, <1>2, <1>3, <1>4, <1>5, ControlCrash DEF Next

LEMMA ControlAlways == Spec => []ControlInv
BY ControlInit, ControlStep, PTL DEF Spec

\* Through every interleaving of transfers, cancellations, failures, users and crashes,
\* a transfer's entries left are entries of its plan, its progress never exceeds the
\* total it promised, and what a place holds is a lone file or files of a directory.
THEOREM TransferTypeCorrect == Spec => []TypeOK
<1>1. ControlInv => TypeOK
  <2> SUFFICES ASSUME ControlInv PROVE TypeOK
    OBVIOUS
  <2>1. job \in [Jobs -> Transfers]
    BY DEF ControlInv, JobOK
  <2>2. \A j \in Jobs : job[j].todo \subseteq DOMAIN job[j].plan /\ job[j].done <= Total(j)
    BY TotalIs DEF ControlInv, JobOK
  <2>3. store \in [Places -> [kind : {"none", "file", "dir"}, at : Listings]]
    BY DEF ControlInv, PlaceOK
  <2>4. \A p \in Places : /\ \A f \in DOMAIN store[p].at : KindOf(f) = store[p].kind
                          /\ store[p].kind = "file" => Root \in DOMAIN store[p].at
    BY DEF ControlInv, PlaceOK
  <2> QED BY <2>1, <2>2, <2>3, <2>4 DEF TypeOK, ControlInv
<1> QED BY <1>1, ControlAlways, PTL

-----------------------------------------------------------------------------
(* A step of a job leaves the other jobs alone, adds to its destination only what is *)
(* at its source, and takes from its source only if it moves.                        *)

SameJob(b, c) ==
  c.src = b.src /\ c.dst = b.dst /\ c.copy = b.copy /\ c.kind = b.kind /\ c.clean = b.clean
PartOf(e, d) == \A f \in DOMAIN e.at : f \in DOMAIN d.at /\ e.at[f] = d.at[f]
Among(x, e) == \E g \in DOMAIN e.at : e.at[g].of = x
FromTwo(e, d, s) ==
  \A f \in DOMAIN e.at : e.at[f].of = NoDatum \/ Among(e.at[f].of, d) \/ Among(e.at[f].of, s)

JobMoves(j) ==
  /\ job[j].pc # "idle" /\ kept' = kept
  /\ \A k \in Jobs \ {j} : job'[k] = job[k]
  /\ job'[j] = NoJob \/ (job'[j].pc # "idle" /\ SameJob(job[j], job'[j]))
  /\ \A p \in Places \ {job[j].src, job[j].dst} : store'[p] = store[p]
  /\ PartOf(store'[job[j].src], store[job[j].src])
  /\ job[j].copy => store'[job[j].src] = store[job[j].src]
  /\ FromTwo(store'[job[j].dst], store[job[j].dst], store[job[j].src])

LEMMA MovesQuiet ==
  ASSUME ControlInv, NEW j \in Jobs, job[j].pc # "idle", NEW c, JobStepped(j, c),
         c = NoJob \/ (c.pc # "idle" /\ SameJob(job[j], c)), UNCHANGED <<store, envVars>>
  PROVE  JobMoves(j) /\ job'[j] = c
<1>1. job'[j] = c /\ \A k \in Jobs \ {j} : job'[k] = job[k]
  BY Parts DEF JobStepped
<1>2. PartOf(store'[job[j].src], store[job[j].src])
  BY DEF PartOf
<1>3. FromTwo(store'[job[j].dst], store[job[j].dst], store[job[j].src])
  BY DEF FromTwo, Among
<1> QED BY <1>1, <1>2, <1>3 DEF JobMoves, envVars

LEMMA MovesDest ==
  ASSUME ControlInv, NEW j \in Jobs, job[j].pc # "idle", NEW c, JobStepped(j, c),
         c = NoJob \/ (c.pc # "idle" /\ SameJob(job[j], c)), UNCHANGED envVars,
         NEW e, Written(job[j].dst, e), FromTwo(e, store[job[j].dst], store[job[j].src])
  PROVE  /\ JobMoves(j) /\ job'[j] = c
         /\ store'[job[j].dst] = e /\ store'[job[j].src] = store[job[j].src]
<1>1. job'[j] = c /\ \A k \in Jobs \ {j} : job'[k] = job[k]
  BY Parts DEF JobStepped
<1>2. /\ store'[job[j].dst] = e /\ store'[job[j].src] = store[job[j].src]
      /\ \A p \in Places \ {job[j].src, job[j].dst} : store'[p] = store[p]
  BY Parts DEF Written, StoreOK
<1>3. PartOf(store'[job[j].src], store[job[j].src])
  BY <1>2 DEF PartOf
<1> QED BY <1>1, <1>2, <1>3 DEF JobMoves, envVars

LEMMA MovesSource ==
  ASSUME ControlInv, NEW j \in Jobs, job[j].pc # "idle", ~ job[j].copy, NEW c, JobStepped(j, c),
         c = NoJob \/ (c.pc # "idle" /\ SameJob(job[j], c)), UNCHANGED envVars,
         NEW e, Written(job[j].src, e), PartOf(e, store[job[j].src])
  PROVE  /\ JobMoves(j) /\ job'[j] = c
         /\ store'[job[j].src] = e /\ store'[job[j].dst] = store[job[j].dst]
<1>1. job'[j] = c /\ \A k \in Jobs \ {j} : job'[k] = job[k]
  BY Parts DEF JobStepped
<1>2. /\ store'[job[j].src] = e /\ store'[job[j].dst] = store[job[j].dst]
      /\ \A p \in Places \ {job[j].src, job[j].dst} : store'[p] = store[p]
  BY Parts DEF Written, StoreOK
<1>3. FromTwo(store'[job[j].dst], store[job[j].dst], store[job[j].src])
  BY <1>2 DEF FromTwo, Among
<1> QED BY <1>1, <1>2, <1>3 DEF JobMoves, envVars

\* Kept data is data.
LEMMA KeptData ==
  ASSUME ControlInv
  PROVE  NoDatum \notin kept /\ kept \cap unused = {}
BY TransferAssumption DEF ControlInv

LEMMA NoneAmong ==
  ASSUME NEW e, NEW K, NoneOf(e, K), NEW x \in K
  PROVE  ~ Among(x, e)
BY DEF NoneOf, Among

\* A rival of the moving job still sees no kept data.
LEMMA RivalsQuiet ==
  ASSUME ControlInv, Disputes, NEW j \in Jobs, JobMoves(j), NEW k \in Jobs,
         k = j \/ Rivals(j, k), \E l \in Jobs : Rivals(k, l)
  PROVE  NoneOf(store'[job[k].src], kept') /\ NoneOf(store'[job[k].dst], kept')
<1>1. kept' = kept /\ job[j].pc # "idle" /\ job[k].pc # "idle" /\ NoDatum \notin kept
  BY KeptData DEF JobMoves, Rivals
<1>2. \E l \in Jobs : Rivals(j, l)
  BY DEF Rivals
<1>3. /\ NoneOf(store[job[j].src], kept) /\ NoneOf(store[job[j].dst], kept)
      /\ NoneOf(store[job[k].src], kept) /\ NoneOf(store[job[k].dst], kept)
  BY <1>2 DEF Disputes
<1>4. ASSUME NEW p \in Places, NoneOf(store[p], kept) PROVE NoneOf(store'[p], kept)
  <2>1. CASE p \notin {job[j].src, job[j].dst}
    BY <1>4, <2>1 DEF JobMoves
  <2>2. CASE p = job[j].src
    BY <1>4, <2>2 DEF JobMoves, PartOf, NoneOf
  <2>3. CASE p = job[j].dst
    <3>1. FromTwo(store'[p], store[p], store[job[j].src])
      BY <2>3 DEF JobMoves
    <3>2. \A x \in kept : ~ Among(x, store[p]) /\ ~ Among(x, store[job[j].src])
      BY <1>3, <1>4, NoneAmong
    <3> QED BY <1>1, <3>1, <3>2 DEF FromTwo, NoneOf
  <2> QED BY <2>1, <2>2, <2>3
<1>5. job[k].src \in Places /\ job[k].dst \in Places
  BY <1>1, Parts
<1> QED BY <1>1, <1>3, <1>4, <1>5

\* A place none of the moving job's rivals has is as it was.
LEMMA StrangerSees ==
  ASSUME ControlInv, NEW j \in Jobs, JobMoves(j), NEW k \in Jobs \ {j}, job[k].pc # "idle",
         ~ Rivals(j, k)
  PROVE  /\ store'[job[k].dst] = store[job[k].dst]
         /\ PartOf(store'[job[k].src], store[job[k].src])
         /\ job[k].src # job[j].src \/ job[j].copy => store'[job[k].src] = store[job[k].src]
<1>1. job[j].pc # "idle" /\ job[k].src \in Places /\ job[k].dst \in Places
  BY Parts DEF JobMoves
<1>2. job[k].dst \notin {job[j].src, job[j].dst} /\ job[j].dst # job[k].src
  BY <1>1 DEF Rivals
<1> QED BY <1>1, <1>2 DEF JobMoves, PartOf

LEMMA MovedRivals ==
  ASSUME NEW j \in Jobs, JobMoves(j), NEW k \in Jobs, NEW l \in Jobs, Rivals(k, l)'
  PROVE  Rivals(k, l) /\ job'[k].src = job[k].src /\ job'[k].dst = job[k].dst
<1>1. NoJob.pc = "idle"
  BY DEF NoJob
<1>2. job'[j].pc # "idle" => SameJob(job[j], job'[j]) /\ job[j].pc # "idle"
  BY <1>1 DEF JobMoves
<1> QED BY <1>2 DEF Rivals, JobMoves, SameJob

LEMMA MovesDisputes ==
  ASSUME ControlInv, Disputes, NEW j \in Jobs, JobMoves(j)
  PROVE  Disputes'
<1> SUFFICES ASSUME NEW k \in Jobs, NEW l \in Jobs, Rivals(k, l)'
             PROVE  NoneOf(store'[job'[k].src], kept') /\ NoneOf(store'[job'[k].dst], kept')
  BY DEF Disputes
<1>1. Rivals(k, l) /\ job'[k].src = job[k].src /\ job'[k].dst = job[k].dst
  BY MovedRivals
<1>2. CASE k = j \/ Rivals(j, k)
  BY <1>1, <1>2, RivalsQuiet
<1>3. CASE k # j /\ ~ Rivals(j, k)
  <2>1. job[k].pc # "idle"
    BY <1>1 DEF Rivals
  <2>2. NoneOf(store[job[k].src], kept) /\ NoneOf(store[job[k].dst], kept)
    BY <1>1 DEF Disputes
  <2>3. k \in Jobs \ {j}
    BY <1>3
  <2>4. store'[job[k].dst] = store[job[k].dst] /\ PartOf(store'[job[k].src], store[job[k].src])
    BY <1>3, <2>1, <2>3, StrangerSees
  <2>5. kept' = kept
    BY DEF JobMoves
  <2>6. NoneOf(store'[job[k].src], kept)
    BY <2>2, <2>4 DEF PartOf, NoneOf
  <2> QED BY <1>1, <2>2, <2>4, <2>5, <2>6
<1> QED BY <1>2, <1>3

LEMMA MovesCopied ==
  ASSUME ControlInv, Disputes, NEW j \in Jobs, JobMoves(j), NEW k \in Jobs \ {j}, Copied(k)
  PROVE  Copied(k)'
<1>0. job'[k] = job[k] /\ kept' = kept
  BY DEF JobMoves
<1> SUFFICES ASSUME job[k].pc # "idle", NEW f \in Names, WholeIn(store'[job[k].src], f, kept)
             PROVE  FileCopied(job[k], f, store'[job[k].src], store'[job[k].dst])
  BY <1>0 DEF Copied
<1>1. ~ Rivals(j, k)
  <2>1. ASSUME Rivals(j, k) PROVE FALSE
    <3>1. Rivals(k, j)
      BY <2>1 DEF Rivals
    <3>2. NoneOf(store'[job[k].src], kept)
      BY <1>0, <2>1, <3>1, RivalsQuiet
    <3> QED BY <3>2 DEF NoneOf, WholeIn, Whole
  <2> QED BY <2>1
<1>2. store'[job[k].dst] = store[job[k].dst] /\ PartOf(store'[job[k].src], store[job[k].src])
  BY <1>1, StrangerSees
<1>3. WholeIn(store[job[k].src], f, kept) /\ store'[job[k].src].at[f] = store[job[k].src].at[f]
  BY <1>2 DEF WholeIn, PartOf
<1>4. FileCopied(job[k], f, store[job[k].src], store[job[k].dst])
  BY <1>3 DEF Copied
<1> QED BY <1>2, <1>3, <1>4 DEF FileCopied

LEMMA MovesClean ==
  ASSUME ControlInv, NEW j \in Jobs, JobMoves(j), NEW k \in Jobs \ {j}, Undisturbed(k)
  PROVE  Undisturbed(k)'
<1>0. job'[k] = job[k]
  BY DEF JobMoves
<1> SUFFICES ASSUME job[k].clean, job[k].pc # "idle"
             PROVE  Alone(k)' /\ DestOK(job[k], store'[job[k].dst])
                              /\ SourceOK(job[k], store'[job[k].src])
  BY <1>0 DEF Undisturbed
<1>1. Alone(k) /\ DestOK(job[k], store[job[k].dst]) /\ SourceOK(job[k], store[job[k].src])
  BY DEF Undisturbed
<1>2. ~ Rivals(j, k) /\ (job[k].src # job[j].src \/ job[j].copy)
  BY <1>1 DEF Alone, Rivals
<1>3. store'[job[k].dst] = store[job[k].dst] /\ store'[job[k].src] = store[job[k].src]
  BY <1>2, StrangerSees
<1>4. Alone(k)'
  <2> SUFFICES ASSUME NEW l \in Jobs \ {k}
               PROVE  ~ Rivals(k, l)' /\ (job'[l].src = job'[k].src => job'[k].copy /\ job'[l].copy)
    BY DEF Alone
  <2>1. ~ Rivals(k, l) /\ (job[l].src = job[k].src => job[k].copy /\ job[l].copy)
    BY <1>1 DEF Alone
  <2>2. ~ Rivals(k, l)'
    BY <2>1, MovedRivals
  <2>3. CASE l # j
    BY <1>0, <2>1, <2>2, <2>3 DEF JobMoves
  <2>4. CASE l = j /\ job'[j] = NoJob
    <3>1. job'[l].src = Nowhere /\ Nowhere \notin Places /\ job[k].src \in Places
      BY <2>4, TransferAssumption, Parts DEF NoJob
    <3> QED BY <1>0, <2>2, <3>1
  <2>5. CASE l = j /\ SameJob(job[j], job'[j])
    BY <1>0, <2>1, <2>2, <2>5 DEF SameJob
  <2> QED BY <2>3, <2>4, <2>5 DEF JobMoves
<1> QED BY <1>1, <1>3, <1>4

\* No other job has the destination of a job that has kept data at its source.
LEMMA SoleWriter ==
  ASSUME ControlInv, Disputes, NEW j \in Jobs, job[j].pc # "idle", NEW f, WholeIn(store[job[j].src], f, kept),
         NEW k \in Jobs \ {j}
  PROVE  job[k].dst # job[j].dst
<1>1. ASSUME job[k].dst = job[j].dst PROVE FALSE
  <2>1. job[k].pc # "idle"
    BY <1>1, Idle, Parts
  <2>2. Rivals(j, k)
    BY <1>1, <2>1 DEF Rivals
  <2>3. NoneOf(store[job[j].src], kept)
    BY <2>2 DEF Disputes
  <2> QED BY <2>3 DEF NoneOf, WholeIn, Whole
<1> QED BY <1>1

\* A copy is safe while the job at work changes its own destination only.
LEMMA MovesSafe ==
  ASSUME ControlInv, Safe, NEW j \in Jobs, JobMoves(j),
         job[j].pc \notin {"stat_dst", "ok"}, store'[job[j].src] = store[job[j].src]
  PROVE  Safe'
<1> SUFFICES ASSUME NEW x \in kept PROVE \E p \in Places : \E f \in Names : SafeAt(x, p, f)'
  BY DEF Safe, JobMoves
<1>1. PICK p \in Places, f \in Names : SafeAt(x, p, f)
  BY DEF Safe
<1>2. job[j].dst # p
  BY <1>1 DEF SafeAt
<1>3. store'[p] = store[p]
  BY <1>2 DEF JobMoves
<1>4. job'[j].dst # p
  <2>1. NoJob.dst # p
    BY TransferAssumption DEF NoJob
  <2> QED BY <1>2, <2>1 DEF JobMoves, SameJob
<1>5. SafeAt(x, p, f)'
  BY <1>1, <1>3, <1>4 DEF SafeAt, JobMoves
<1> QED BY <1>5

\* Or while it only ends.
LEMMA EndsSafe ==
  ASSUME ControlInv, Safe, NEW j \in Jobs, JobMoves(j), job'[j] = NoJob, store' = store
  PROVE  Safe'
<1> SUFFICES ASSUME NEW x \in kept PROVE \E p \in Places : \E f \in Names : SafeAt(x, p, f)'
  BY DEF Safe, JobMoves
<1>1. PICK p \in Places, f \in Names : SafeAt(x, p, f)
  BY DEF Safe
<1>2. job'[j].dst # p
  BY TransferAssumption DEF NoJob
<1>3. SafeAt(x, p, f)'
  BY <1>1, <1>2 DEF SafeAt, JobMoves
<1> QED BY <1>3

\* Or while it takes away its source, when the destination has every kept file of it.
LEMMA SourceSafe ==
  ASSUME ControlInv, Disputes, Safe, NEW j \in Jobs, JobMoves(j),
         job[j].pc \notin {"stat_dst", "ok"}, job'[j] = NoJob \/ job'[j].pc = "ok",
         \A f \in Names : WholeIn(store[job[j].src], f, kept) =>
           f \in DOMAIN store'[job[j].dst].at /\ store'[job[j].dst].at[f] = store[job[j].src].at[f]
  PROVE  Safe'
<1> SUFFICES ASSUME NEW x \in kept PROVE \E p \in Places : \E f \in Names : SafeAt(x, p, f)'
  BY DEF Safe, JobMoves
<1>1. PICK p \in Places, f \in Names : SafeAt(x, p, f)
  BY DEF Safe
<1>2. job[j].dst # p /\ job[j].pc # "idle"
  BY <1>1 DEF SafeAt, JobMoves
<1>3. job'[j].dst \in {job[j].dst, Nowhere} /\ Nowhere \notin Places
  BY TransferAssumption DEF JobMoves, SameJob, NoJob
<1>4. CASE p # job[j].src
  <2>1. store'[p] = store[p]
    BY <1>2, <1>4 DEF JobMoves
  <2>2. SafeAt(x, p, f)'
    BY <1>1, <1>2, <1>3, <2>1 DEF SafeAt, JobMoves
  <2> QED BY <2>2
<1>5. CASE p = job[j].src
  <2>1. WholeIn(store[p], f, kept) /\ store[p].at[f] = Whole(x)
    BY <1>1 DEF SafeAt, WholeIn
  <2>2. \A k \in Jobs \ {j} : job[k].dst # job[j].dst
    BY <1>2, <1>5, <2>1, SoleWriter
  <2>3. job'[j].dst = job[j].dst => job'[j].pc = "ok"
    BY <1>2, <1>3, Parts DEF NoJob
  <2>4. PICK q \in Places : q = job[j].dst
    BY <1>2, Parts
  <2>5. SafeAt(x, q, f)'
    BY <1>5, <2>1, <2>2, <2>3, <2>4 DEF SafeAt, JobMoves
  <2> QED BY <2>5
<1> QED BY <1>4, <1>5

LEMMA MovesAlone ==
  ASSUME ControlInv, NEW j \in Jobs, JobMoves(j), Alone(j), job'[j].pc # "idle"
  PROVE  Alone(j)'
<1>1. SameJob(job[j], job'[j])
  BY DEF JobMoves, NoJob
<1> QED BY <1>1, MovedRivals DEF Alone, JobMoves, SameJob

\* What is left to show of a step of one job.
LEMMA MovesKeep ==
  ASSUME Inv, NEW j \in Jobs, JobMoves(j), Safe',
         job'[j].pc # "idle" =>
           \A f \in Names : WholeIn(store'[job[j].src], f, kept) =>
             FileCopied(job'[j], f, store'[job[j].src], store'[job[j].dst]),
         job'[j].pc # "idle" /\ job[j].clean =>
           DestOK(job'[j], store'[job[j].dst]) /\ SourceOK(job'[j], store'[job[j].src])
  PROVE  KeptInv' /\ CleanInv'
<1>1. Disputes'
  BY MovesDisputes DEF Inv, KeptInv
<1>2. job'[j].pc # "idle" => SameJob(job[j], job'[j])
  BY DEF JobMoves, NoJob
<1>3. Copied(j)'
  BY <1>2 DEF Copied, SameJob, JobMoves
<1>4. \A k \in Jobs : Copied(k)'
  BY <1>3, MovesCopied DEF Inv, KeptInv
<1>5. Undisturbed(j)'
  <2> SUFFICES ASSUME job'[j].clean, job'[j].pc # "idle"
               PROVE  Alone(j)' /\ DestOK(job'[j], store'[job'[j].dst])
                                /\ SourceOK(job'[j], store'[job'[j].src])
    BY DEF Undisturbed
  <2>1. job'[j].src = job[j].src /\ job'[j].dst = job[j].dst /\ job'[j].clean = job[j].clean
    BY <1>2 DEF SameJob
  <2>2. Undisturbed(j) /\ job[j].pc # "idle"
    BY DEF Inv, CleanInv, JobMoves
  <2>3. Alone(j)
    BY <2>1, <2>2 DEF Undisturbed
  <2>4. Alone(j)'
    BY <2>3, MovesAlone DEF Inv
  <2> QED BY <2>1, <2>4
<1>6. \A k \in Jobs : Undisturbed(k)'
  BY <1>5, MovesClean DEF Inv, CleanInv
<1> QED BY <1>1, <1>4, <1>6 DEF KeptInv, CleanInv

LEMMA EndsKeep ==
  ASSUME Inv, NEW j \in Jobs, JobMoves(j), Safe', job'[j] = NoJob
  PROVE  KeptInv' /\ CleanInv'
<1>1. job'[j].pc = "idle"
  BY DEF NoJob
<1> QED BY <1>1, MovesKeep

\* A job that ends and leaves the places alone.
LEMMA QuietEnd ==
  ASSUME Inv, NEW j \in Jobs, job[j].pc # "idle", Ends(j), UNCHANGED <<store, envVars>>
  PROVE  KeptInv' /\ CleanInv'
<1>1. JobStepped(j, NoJob)
  BY EndsIs
<1>2. JobMoves(j) /\ job'[j] = NoJob
  BY <1>1, MovesQuiet DEF Inv
<1>3. Safe'
  BY <1>2, EndsSafe DEF Inv, KeptInv
<1> QED BY <1>2, <1>3, EndsKeep

-----------------------------------------------------------------------------
(* What each step makes of the job's own places. *)

\* The two facts about a job b with source s and destination d.
Mine(b, s, d, K) == \A f \in Names : WholeIn(s, f, K) => FileCopied(b, f, s, d)
Tidy(b, s, d) == b.clean => DestOK(b, d) /\ SourceOK(b, s)

LEMMA OwnFacts ==
  ASSUME Inv, NEW j \in Jobs, job[j].pc # "idle"
  PROVE  /\ Mine(job[j], store[job[j].src], store[job[j].dst], kept)
         /\ Tidy(job[j], store[job[j].src], store[job[j].dst])
BY DEF Inv, KeptInv, CleanInv, Copied, Undisturbed, Mine, Tidy

LEMMA OwnKeep ==
  ASSUME Inv, NEW j \in Jobs, JobMoves(j), Safe',
         job'[j].pc # "idle" =>
           /\ Mine(job'[j], store'[job[j].src], store'[job[j].dst], kept)
           /\ Tidy(job'[j], store'[job[j].src], store'[job[j].dst])
  PROVE  KeptInv' /\ CleanInv'
<1>1. job'[j].pc # "idle" => job'[j].clean = job[j].clean
  BY DEF JobMoves, NoJob, SameJob
<1> QED BY <1>1, MovesKeep DEF Mine, Tidy

LEMMA GotoFields ==
  ASSUME NEW b \in Transfers, NEW l
  PROVE  LET c == [b EXCEPT !.pc = l] IN
         /\ c.pc = l /\ SameJob(b, c) /\ c.plan = b.plan /\ c.todo = b.todo
         /\ c.cur = b.cur /\ c.offset = b.offset
BY DEF Transfers, SameJob

\* A step to another place in the code.
LEMMA GotoKeep ==
  ASSUME Inv, NEW j \in Jobs, job[j].pc \notin {"idle", "stat_dst", "ok"}, NEW l, l # "idle",
         Goto(j, l), UNCHANGED <<store, envVars>>,
         LET c == [job[j] EXCEPT !.pc = l] IN
           /\ Mine(c, store[job[j].src], store[job[j].dst], kept)
           /\ Tidy(c, store[job[j].src], store[job[j].dst])
  PROVE  KeptInv' /\ CleanInv'
<1> DEFINE c == [job[j] EXCEPT !.pc = l]
<1>1. JobStepped(j, c) /\ job[j] \in Transfers /\ ControlInv
  BY GotoIs, Parts DEF Inv
<1>2. c.pc = l /\ SameJob(job[j], c)
  BY <1>1, GotoFields
<1>3. JobMoves(j) /\ job'[j] = c
  <2> HIDE DEF c
  <2> QED BY <1>1, <1>2, MovesQuiet
<1>4. Safe'
  BY <1>1, <1>3, MovesSafe DEF Inv, KeptInv
<1> QED BY <1>3, <1>4, OwnKeep

\* The cleanup has nothing to promise.
LEMMA CleanupKeep ==
  ASSUME Inv, NEW j \in Jobs, job[j].pc \in {"create_dir", "entries", "copy_one", "stream"},
         Goto(j, "cleanup"), UNCHANGED <<store, envVars>>
  PROVE  KeptInv' /\ CleanInv'
<1> DEFINE b == job[j]
           c == [b EXCEPT !.pc = "cleanup"]
<1>1. b \in Transfers /\ c.pc = "cleanup" /\ SameJob(b, c) /\ c.plan = b.plan
  BY Parts, GotoFields DEF Inv
<1>2. Mine(b, store[b.src], store[b.dst], kept)
  BY OwnFacts
<1> HIDE DEF c
<1>3. Mine(c, store[b.src], store[b.dst], kept)
  BY <1>1, <1>2 DEF Mine, FileCopied, SameJob, Through, Planned
<1>4. Tidy(c, store[b.src], store[b.dst])
  BY <1>1 DEF Tidy, DestOK, SourceOK, Planned
<1> QED BY <1>3, <1>4, GotoKeep DEF c

LEMMA KeepRefuse ==
  ASSUME Inv, NEW j \in Jobs, Refuse(j) \/ FinishJob(j)
  PROVE  KeptInv' /\ CleanInv'
BY QuietEnd DEF Refuse, FinishJob

LEMMA KeepStatDest ==
  ASSUME Inv, NEW j \in Jobs, StatDest(j)
  PROVE  KeptInv' /\ CleanInv'
<1> DEFINE b == job[j]
           c == [b EXCEPT !.pc = "list"]
<1>0. /\ b.pc = "stat_dst" /\ store[b.dst] = Gone /\ UNCHANGED <<store, envVars>> /\ Goto(j, "list")
  BY DEF StatDest
<1>1. /\ b \in Transfers /\ c.pc = "list" /\ SameJob(b, c) /\ c.plan = b.plan /\ ControlInv
      /\ JobStepped(j, c)
  BY <1>0, Parts, GotoFields, GotoIs DEF Inv
<1>2. Mine(b, store[b.src], store[b.dst], kept) /\ Tidy(b, store[b.src], store[b.dst])
  BY <1>0, OwnFacts
<1> HIDE DEF c
<1>3. Mine(c, store[b.src], store[b.dst], kept)
  BY <1>0, <1>1, <1>2 DEF Mine, FileCopied, SameJob, Through, Planned
<1>4. Tidy(c, store[b.src], store[b.dst])
  BY <1>0, <1>1, <1>2 DEF Tidy, DestOK, SourceOK, Planned, SameJob
<1>5. JobMoves(j) /\ job'[j] = c
  BY <1>0, <1>1, MovesQuiet
<1>6. Safe'
  <2> SUFFICES ASSUME NEW x \in kept PROVE \E p \in Places : \E f \in Names : SafeAt(x, p, f)'
    BY <1>5 DEF Safe, JobMoves
  <2>1. PICK p \in Places, f \in Names : SafeAt(x, p, f)
    BY DEF Safe, Inv, KeptInv
  <2>2. b.dst # p
    <3>1. DOMAIN Gone.at = {}
      BY NoFilesListed DEF Gone
    <3> QED BY <1>0, <2>1, <3>1 DEF SafeAt
  <2>3. SafeAt(x, p, f)'
    BY <1>0, <1>1, <1>5, <2>1, <2>2 DEF SafeAt, JobMoves, SameJob
  <2> QED BY <2>3
<1> QED BY <1>0, <1>3, <1>4, <1>5, <1>6, OwnKeep

LEMMA KeepList ==
  ASSUME Inv, NEW j \in Jobs, List(j)
  PROVE  KeptInv' /\ CleanInv'
<1> DEFINE b == job[j]
           here == store[b.src]
           a == IF b.kind = "file" THEN b.plan ELSE IF here.kind = "dir" THEN here.at ELSE NoFiles
           c == [b EXCEPT !.pc = "quota", !.plan = a]
<1>0. b.pc = "list" /\ UNCHANGED <<store, envVars>> /\ ControlInv
  BY DEF List, Inv
<1>1. /\ b \in Transfers /\ JobOK(b) /\ PlaceOK(here, unused) /\ b.kind \in {"file", "dir"}
      /\ b.src \in Places
  BY <1>0, Parts
<1>2. JobStepped(j, c)
  BY <1>0, Parts DEF List, JobStepped
<1>3. Mine(b, here, store[b.dst], kept) /\ Tidy(b, here, store[b.dst])
  BY <1>0, OwnFacts
<1>4. c.pc = "quota" /\ SameJob(b, c) /\ c.plan = a
  BY <1>1 DEF Transfers, SameJob
<1> HIDE DEF c
<1>5. Mine(c, here, store[b.dst], kept)
  <2> SUFFICES ASSUME NEW f \in Names, WholeIn(here, f, kept) PROVE FileCopied(c, f, here, store[b.dst])
    BY DEF Mine
  <2>1. KindOf(f) = b.kind /\ (b.kind = "file" => f \in DOMAIN b.plan /\ b.plan[f].len = Chunks)
    BY <1>3 DEF Mine, FileCopied
  <2>2. f \in DOMAIN here.at /\ here.at[f].len = Chunks /\ KindOf(f) = here.kind
    BY <1>1 DEF WholeIn, Whole, PlaceOK
  <2>3. f \in DOMAIN a /\ a[f].len = Chunks
    BY <1>1, <2>1, <2>2
  <2> QED BY <1>4, <2>1, <2>3 DEF FileCopied, SameJob, Through
<1>6. Tidy(c, here, store[b.dst])
  BY <1>0, <1>1, <1>3, <1>4 DEF Tidy, DestOK, SourceOK, Planned, SameJob
<1>7. JobMoves(j) /\ job'[j] = c
  BY <1>0, <1>2, <1>4, MovesQuiet
<1>8. Safe'
  BY <1>0, <1>7, MovesSafe DEF Inv, KeptInv
<1> QED BY <1>0, <1>5, <1>6, <1>7, <1>8, OwnKeep

\* To the rename, or to the start of copy_tree.
LEMMA KeepStart ==
  ASSUME Inv, NEW j \in Jobs, job[j].pc \in {"quota", "rename"},
         NEW l \in {"rename", CopyTree(j)}, Goto(j, l), UNCHANGED <<store, envVars>>
  PROVE  KeptInv' /\ CleanInv'
<1> DEFINE b == job[j]
           c == [b EXCEPT !.pc = l]
<1>1. /\ b \in Transfers /\ c.pc = l /\ SameJob(b, c) /\ c.plan = b.plan /\ ControlInv
      /\ c.todo = b.todo /\ c.cur = b.cur /\ JobOK(b) /\ b.kind \in {"file", "dir"}
  BY Parts, GotoFields DEF Inv
<1>2. Mine(b, store[b.src], store[b.dst], kept) /\ Tidy(b, store[b.src], store[b.dst])
  BY OwnFacts
<1>3. l \in {"rename", "create_dir", "copy_one"} /\ (l = "copy_one" => b.kind = "file" /\ b.cur = Root)
  BY <1>1 DEF CopyTree, JobOK, Shape
<1> HIDE DEF c
<1>4. Mine(c, store[b.src], store[b.dst], kept)
  <2>1. \A f \in Names : KindOf(f) = "file" => f = Root
    BY DEF KindOf
  <2> QED BY <1>1, <1>2, <1>3, <2>1 DEF Mine, FileCopied, SameJob, Through, Planned
<1>5. Tidy(c, store[b.src], store[b.dst])
  BY <1>1, <1>2, <1>3 DEF Tidy, DestOK, SourceOK, Planned, SameJob
<1> QED BY <1>3, <1>4, <1>5, GotoKeep DEF c

LEMMA KeepCheckQuota ==
  ASSUME Inv, NEW j \in Jobs, CheckQuota(j)
  PROVE  KeptInv' /\ CleanInv'
<1>1. /\ job[j].pc = "quota" /\ UNCHANGED <<store, envVars>>
      /\ Goto(j, "rename") \/ Goto(j, CopyTree(j)) \/ Ends(j)
  BY DEF CheckQuota
<1> QED BY <1>1, KeepStart, QuietEnd

\* A step that changes the destination.
LEMMA DestKeep ==
  ASSUME Inv, NEW j \in Jobs, job[j].pc \notin {"idle", "stat_dst", "ok"}, NEW c, JobStepped(j, c),
         c = NoJob \/ (c.pc # "idle" /\ SameJob(job[j], c)), UNCHANGED envVars,
         NEW e, Written(job[j].dst, e), FromTwo(e, store[job[j].dst], store[job[j].src]),
         c.pc # "idle" => Mine(c, store[job[j].src], e, kept) /\ Tidy(c, store[job[j].src], e)
  PROVE  KeptInv' /\ CleanInv'
<1>1. /\ JobMoves(j) /\ job'[j] = c /\ ControlInv
      /\ store'[job[j].dst] = e /\ store'[job[j].src] = store[job[j].src]
  BY MovesDest DEF Inv
<1>2. Safe'
  BY <1>1, MovesSafe DEF Inv, KeptInv
<1> QED BY <1>1, <1>2, OwnKeep

\* A step that leaves the places alone.
LEMMA QuietKeep ==
  ASSUME Inv, NEW j \in Jobs, job[j].pc \notin {"idle", "stat_dst", "ok"}, NEW c, JobStepped(j, c),
         c.pc # "idle" /\ SameJob(job[j], c), UNCHANGED <<store, envVars>>,
         Mine(c, store[job[j].src], store[job[j].dst], kept),
         Tidy(c, store[job[j].src], store[job[j].dst])
  PROVE  KeptInv' /\ CleanInv'
<1>1. JobMoves(j) /\ job'[j] = c /\ ControlInv /\ store' = store
  BY MovesQuiet DEF Inv
<1>2. Safe'
  BY <1>1, MovesSafe DEF Inv, KeptInv
<1> QED BY <1>1, <1>2, OwnKeep

LEMMA DoneFields ==
  ASSUME NEW b \in Transfers, NEW n
  PROVE  LET c == [b EXCEPT !.pc = "ok", !.done = n] IN
         c.pc = "ok" /\ SameJob(b, c) /\ c.plan = b.plan
BY DEF Transfers, SameJob

\* Success has nothing more to promise.
LEMMA OkMine ==
  ASSUME NEW b, NEW c, c.pc = "ok", SameJob(b, c), c.plan = b.plan, NEW s, NEW d, NEW K, Mine(b, s, d, K)
  PROVE  Mine(c, s, d, K) /\ Tidy(c, s, d)
BY DEF Mine, FileCopied, SameJob, Through, Planned, Tidy, DestOK, SourceOK

LEMMA NothingAtGone == ASSUME NEW K, NEW f PROVE ~ WholeIn(Gone, f, K)
BY NoFilesListed DEF WholeIn, Gone

LEMMA KeepRename ==
  ASSUME Inv, NEW j \in Jobs, Rename(j)
  PROVE  KeptInv' /\ CleanInv'
<1> DEFINE b == job[j]
           s == b.src
           d == b.dst
<1>0. b.pc = "rename" /\ UNCHANGED envVars /\ ControlInv
  BY DEF Rename, Inv
<1>a. /\ b \in Transfers /\ s \in Places /\ d \in Places /\ s # d /\ ~ b.copy
      /\ job = [k \in Jobs |-> job[k]] /\ StoreOK
  BY <1>0, Parts DEF JobOK, Shape
<1>1. CASE /\ store' = [store EXCEPT ![d] = store[s], ![s] = Gone]
           /\ job' = [job EXCEPT ![j].pc = "ok", ![j].done = Total(j)]
  <2> DEFINE c == [b EXCEPT !.pc = "ok", !.done = Total(j)]
  <2>1. job'[j] = c /\ \A k \in Jobs \ {j} : job'[k] = job[k]
    BY <1>1, <1>a
  <2>2. c.pc = "ok" /\ SameJob(b, c) /\ c.plan = b.plan
    BY <1>a, DoneFields
  <2> HIDE DEF c
  <2>3. /\ store'[d] = store[s] /\ store'[s] = Gone
        /\ \A p \in Places \ {s, d} : store'[p] = store[p]
    BY <1>1, <1>a DEF StoreOK
  <2>4. PartOf(Gone, store[s]) /\ FromTwo(store[s], store[d], store[s])
    BY NoFilesListed DEF Gone, PartOf, FromTwo, Among
  <2>5. JobMoves(j)
    BY <1>0, <1>a, <2>1, <2>2, <2>3, <2>4 DEF JobMoves, envVars
  <2>6. Safe'
    BY <1>0, <2>1, <2>2, <2>3, <2>5, SourceSafe DEF Inv, KeptInv, WholeIn
  <2>7. Mine(c, Gone, store'[d], kept) /\ Tidy(c, Gone, store'[d])
    BY <2>2, NothingAtGone DEF Mine, Tidy, DestOK, SourceOK, Planned
  <2> QED BY <2>1, <2>3, <2>5, <2>6, <2>7, OwnKeep
<1>2. CASE Goto(j, CopyTree(j)) /\ UNCHANGED store
  BY <1>0, <1>2, KeepStart DEF envVars
<1>3. CASE Ends(j) /\ UNCHANGED store
  BY <1>0, <1>3, QuietEnd DEF envVars
<1> QED BY <1>1, <1>2, <1>3 DEF Rename

LEMMA KeepCreateDir ==
  ASSUME Inv, NEW j \in Jobs, CreateDir(j)
  PROVE  KeptInv' /\ CleanInv'
<1> DEFINE b == job[j]
           s == store[b.src]
           d == store[b.dst]
<1>0. b.pc = "create_dir" /\ UNCHANGED envVars /\ ControlInv
  BY DEF CreateDir, Inv
<1>a. /\ b \in Transfers /\ JobOK(b) /\ job = [k \in Jobs |-> job[k]] /\ StoreOK
      /\ b.dst \in Places /\ PlaceOK(d, unused) /\ b.kind = "dir"
  BY <1>0, Parts DEF JobOK, Shape
<1>b. Mine(b, s, d, kept) /\ Tidy(b, s, d)
  BY <1>0, OwnFacts
<1>1. CASE /\ store' = [store EXCEPT ![b.dst].kind = "dir"]
           /\ job' = [job EXCEPT ![j].pc = "entries", ![j].todo = Entries(j)]
  <2> DEFINE c == [b EXCEPT !.pc = "entries", !.todo = DOMAIN b.plan]
             e == [d EXCEPT !.kind = "dir"]
  <2>1. JobStepped(j, c) /\ Written(b.dst, e)
    BY <1>1, <1>a DEF JobStepped, Entries, Written, StoreOK
  <2>2. c.pc = "entries" /\ SameJob(b, c) /\ c.plan = b.plan /\ c.todo = DOMAIN b.plan
    BY <1>a DEF Transfers, SameJob
  <2>3. e.kind = "dir" /\ e.at = d.at
    BY <1>a DEF PlaceOK
  <2> HIDE DEF c, e
  <2>4. FromTwo(e, d, s)
    BY <2>3 DEF FromTwo, Among
  <2>5. Mine(c, s, e, kept)
    BY <1>0, <1>b, <2>2 DEF Mine, FileCopied, SameJob, Through, Planned
  <2>6. Tidy(c, s, e)
    <3>1. d = Gone => DOMAIN d.at = {}
      BY NoFilesListed DEF Gone
    <3> QED BY <1>0, <1>a, <1>b, <2>2, <2>3, <3>1 DEF Tidy, DestOK, SourceOK, Planned, SameJob, Holds
  <2> QED BY <1>0, <2>1, <2>2, <2>4, <2>5, <2>6, DestKeep
<1>2. CASE Goto(j, "cleanup") /\ UNCHANGED store
  BY <1>0, <1>2, CleanupKeep DEF envVars
<1> QED BY <1>1, <1>2 DEF CreateDir

LEMMA KeepNextEntry ==
  ASSUME Inv, NEW j \in Jobs, NextEntry(j)
  PROVE  KeptInv' /\ CleanInv'
<1> DEFINE b == job[j]
           s == store[b.src]
           d == store[b.dst]
<1>0. b.pc = "entries" /\ UNCHANGED <<store, envVars>> /\ ControlInv
  BY DEF NextEntry, Inv
<1>a. b \in Transfers /\ JobOK(b) /\ job = [k \in Jobs |-> job[k]] /\ b.kind = "dir"
  BY <1>0, Parts DEF JobOK, Shape
<1>b. Mine(b, s, d, kept) /\ Tidy(b, s, d)
  BY <1>0, OwnFacts
<1>1. CASE b.todo = {} /\ Goto(j, "copied")
  <2> DEFINE c == [b EXCEPT !.pc = "copied"]
  <2>1. c.pc = "copied" /\ SameJob(b, c) /\ c.plan = b.plan /\ c.todo = b.todo
    BY <1>a, GotoFields
  <2>2. JobStepped(j, c)
    BY <1>0, <1>1, GotoIs
  <2> HIDE DEF c
  <2>3. Mine(c, s, d, kept) /\ Tidy(c, s, d)
    BY <1>0, <1>b, <2>1 DEF Mine, FileCopied, SameJob, Through, Planned, Tidy, DestOK, SourceOK, Holds
  <2> QED BY <1>0, <2>1, <2>2, <2>3, QuietKeep
<1>2. CASE Goto(j, "cleanup")
  BY <1>0, <1>2, CleanupKeep
<1>3. ASSUME NEW f \in b.todo,
             job' = [job EXCEPT ![j].pc = "copy_one", ![j].cur = f, ![j].todo = @ \ {f}]
      PROVE  KeptInv' /\ CleanInv'
  <2> DEFINE c == [b EXCEPT !.pc = "copy_one", !.cur = f, !.todo = b.todo \ {f}]
  <2>1. c.pc = "copy_one" /\ SameJob(b, c) /\ c.plan = b.plan /\ c.todo = b.todo \ {f} /\ c.cur = f
    BY <1>a DEF Transfers, SameJob
  <2>2. JobStepped(j, c)
    BY <1>3, <1>a DEF JobStepped
  <2> HIDE DEF c
  <2>3. c.todo \cup {c.cur} = b.todo
    BY <2>1
  <2>4. Mine(c, s, d, kept)
    BY <1>0, <1>b, <2>1, <2>3 DEF Mine, FileCopied, SameJob, Through, Planned
  <2>5. Tidy(c, s, d)
    BY <1>0, <1>a, <1>b, <2>1, <2>3 DEF SameJob, Planned, Tidy, DestOK, SourceOK, Holds
  <2> QED BY <1>0, <2>1, <2>2, <2>4, <2>5, QuietKeep
<1> QED BY <1>1, <1>2, <1>3 DEF NextEntry

LEMMA KeepCopyOne ==
  ASSUME Inv, NEW j \in Jobs, CopyOne(j)
  PROVE  KeptInv' /\ CleanInv'
<1> DEFINE b == job[j]
           f == b.cur
           s == store[b.src]
           d == store[b.dst]
<1>0. b.pc = "copy_one" /\ UNCHANGED envVars /\ ControlInv
  BY DEF CopyOne, Inv
<1>a. /\ b \in Transfers /\ JobOK(b) /\ job = [k \in Jobs |-> job[k]] /\ StoreOK
      /\ b.src \in Places /\ b.dst \in Places /\ PlaceOK(d, unused) /\ PlaceOK(s, unused)
      /\ b.kind \in {"file", "dir"}
      /\ f \in Names /\ f \in DOMAIN b.plan \ b.todo
  BY <1>0, Parts DEF JobOK, Shape, Transfers
<1>b. Mine(b, s, d, kept) /\ Tidy(b, s, d)
  BY <1>0, OwnFacts
<1>c. KindOf(f) = b.kind /\ (b.kind = "file" => DOMAIN b.plan = {f} /\ b.todo = {})
  BY <1>a DEF JobOK, Shape, KindOf
<1>d. d = Gone => DOMAIN d.at = {}
  BY NoFilesListed DEF Gone
\* What an undisturbed job finds at its destination.
<1>e. b.clean => /\ DOMAIN d.at = DOMAIN b.plan \ (b.todo \cup {f})
                 /\ \A g \in DOMAIN d.at : d.at[g] = b.plan[g]
                 /\ s.at = b.plan /\ s.kind = b.kind
  BY <1>0, <1>b, <1>c, <1>d DEF Tidy, DestOK, SourceOK, Planned, Holds
<1>1. CASE /\ Has(b.src, f) /\ Fits(b.dst, f) /\ Put(b.dst, f, s.at[f])
           /\ job' = [job EXCEPT ![j].pc = AfterFile(j), ![j].done = @ + job[j].plan[f].len]
  <2> DEFINE l == AfterFile(j)
             c == [b EXCEPT !.pc = l, !.done = b.done + b.plan[f].len]
             e == PutEntry(d, f, s.at[f])
  <2>1. JobStepped(j, c) /\ Written(b.dst, e)
    BY <1>1, <1>a, PutIs DEF JobStepped
  <2>2. /\ e.kind = KindOf(f) /\ DOMAIN e.at = DOMAIN d.at \cup {f} /\ e.at[f] = s.at[f]
        /\ \A g \in DOMAIN d.at \ {f} : e.at[g] = d.at[g]
    BY DEF PutEntry
  <2>3. /\ c.pc = l /\ l \in {"entries", "copied"} /\ SameJob(b, c) /\ c.plan = b.plan
        /\ c.todo = b.todo
    BY <1>a DEF Transfers, SameJob, AfterFile
  <2> HIDE DEF c, e, l
  <2>4. FromTwo(e, d, s)
    BY <1>1, <2>2 DEF FromTwo, Among, Has
  <2>5. Mine(c, s, e, kept)
    BY <1>0, <1>b, <2>2, <2>3 DEF Mine, FileCopied, SameJob, Through, Planned
  <2>6. Tidy(c, s, e)
    <3> SUFFICES ASSUME c.clean PROVE DestOK(c, e) /\ SourceOK(c, s)
      BY DEF Tidy
    <3>1. b.clean
      BY <2>3 DEF SameJob
    <3>2. SourceOK(c, s)
      BY <1>e, <2>3, <3>1 DEF SourceOK, Planned, SameJob
    <3>3. Holds(e, c, DOMAIN c.plan \ c.todo)
      BY <1>a, <1>c, <1>e, <2>2, <2>3, <3>1 DEF SameJob, Holds
    <3> QED BY <2>3, <3>2, <3>3 DEF DestOK
  <2> QED BY <1>0, <2>1, <2>3, <2>4, <2>5, <2>6, DestKeep
<1>2. CASE /\ Fits(b.dst, f) /\ Put(b.dst, f, Blank)
           /\ job' = [job EXCEPT ![j].pc = "stream", ![j].offset = 0]
  <2> DEFINE c == [b EXCEPT !.pc = "stream", !.offset = 0]
             e == PutEntry(d, f, Blank)
  <2>1. JobStepped(j, c) /\ Written(b.dst, e)
    BY <1>2, <1>a, PutIs DEF JobStepped
  <2>2. /\ e.kind = KindOf(f) /\ DOMAIN e.at = DOMAIN d.at \cup {f} /\ e.at[f] = Blank
        /\ \A g \in DOMAIN d.at \ {f} : e.at[g] = d.at[g]
    BY DEF PutEntry
  <2>3. /\ c.pc = "stream" /\ SameJob(b, c) /\ c.plan = b.plan /\ c.todo = b.todo /\ c.cur = f
        /\ c.offset = 0
    BY <1>a DEF Transfers, SameJob
  <2> HIDE DEF c, e
  <2>4. FromTwo(e, d, s)
    BY <2>2, BlankIs DEF FromTwo, Among
  <2>5. Mine(c, s, e, kept)
    BY <1>0, <1>b, <2>2, <2>3 DEF Mine, FileCopied, SameJob, Through, Planned
  <2>6. Tidy(c, s, e)
    BY <1>a, <1>c, <1>e, <2>2, <2>3 DEF Tidy, DestOK, SourceOK, Planned, SameJob, Holds
  <2> QED BY <1>0, <2>1, <2>3, <2>4, <2>5, <2>6, DestKeep
<1>3. CASE Goto(j, "cleanup") /\ UNCHANGED store
  BY <1>0, <1>3, CleanupKeep DEF envVars
<1> QED BY <1>1, <1>2, <1>3 DEF CopyOne

LEMMA EditEntry ==
  ASSUME NEW e, NEW U, PlaceOK(e, U), NEW f \in DOMAIN e.at, NEW x
  PROVE  LET d == [e EXCEPT !.at[f] = x] IN
         /\ d.kind = e.kind /\ DOMAIN d.at = DOMAIN e.at /\ d.at[f] = x
         /\ \A g \in DOMAIN e.at \ {f} : d.at[g] = e.at[g]
<1>1. e.at = [g \in DOMAIN e.at |-> e.at[g]]
  BY PlaceTypes, ListingFacts
<1> QED BY <1>1 DEF PlaceOK

LEMMA KeepStream ==
  ASSUME Inv, NEW j \in Jobs, Stream(j)
  PROVE  KeptInv' /\ CleanInv'
<1> DEFINE b == job[j]
           f == b.cur
           s == store[b.src]
           d == store[b.dst]
           from == s.at[f]
<1>0. b.pc = "stream" /\ b.offset < b.plan[f].len /\ UNCHANGED envVars /\ ControlInv
  BY DEF Stream, Streaming, Inv
<1>a. /\ b \in Transfers /\ JobOK(b) /\ job = [k \in Jobs |-> job[k]] /\ StoreOK
      /\ b.src \in Places /\ b.dst \in Places /\ PlaceOK(d, unused) /\ PlaceOK(s, unused)
      /\ f \in Names /\ f \in DOMAIN b.plan \ b.todo /\ b.offset \in Nat
  BY <1>0, Parts, JobTypes DEF JobOK, Shape, Transfers
<1>b. Mine(b, s, d, kept) /\ Tidy(b, s, d)
  BY <1>0, OwnFacts
<1>1. CASE Goto(j, "cleanup") /\ UNCHANGED store
  BY <1>0, <1>1, CleanupKeep DEF envVars
<1>2. CASE ~Short(j) /\ WriteChunk(j, from)
  <2> DEFINE c == [b EXCEPT !.offset = b.offset + 1, !.done = b.done + 1]
             of == IF b.offset = 0 \/ d.at[f].of = from.of THEN from.of ELSE NoDatum
             x == [of |-> of, len |-> b.offset + 1]
             e == [d EXCEPT !.at[f] = x]
  <2>1. JobStepped(j, c)
    BY <1>2, <1>a DEF JobStepped, WriteChunk
  <2>2. /\ c.pc = "stream" /\ SameJob(b, c) /\ c.plan = b.plan /\ c.todo = b.todo /\ c.cur = f
        /\ c.offset = b.offset + 1
    BY <1>0, <1>a DEF Transfers, SameJob
  <2> HIDE DEF c
  <2>3. CASE f \notin DOMAIN d.at
    <3>1. UNCHANGED <<store, envVars>>
      BY <1>0, <1>2, <2>3 DEF WriteChunk, Has
    <3>2. Mine(c, s, d, kept)
      BY <1>0, <1>b, <2>2, <2>3 DEF Mine, FileCopied, SameJob, Through, Planned
    <3>3. Tidy(c, s, d)
      BY <1>0, <1>a, <1>b, <2>2, <2>3 DEF Tidy, DestOK, SourceOK, Planned, SameJob
    <3> QED BY <1>0, <2>1, <2>2, <3>1, <3>2, <3>3, QuietKeep
  <2>4. CASE f \in DOMAIN d.at
    <3>1. Written(b.dst, e)
      BY <1>2, <1>a, <2>4 DEF WriteChunk, Written, StoreOK, Has
    <3>2. /\ e.kind = d.kind /\ DOMAIN e.at = DOMAIN d.at /\ e.at[f] = x
          /\ \A g \in DOMAIN d.at \ {f} : e.at[g] = d.at[g]
      <4> HIDE DEF x
      <4> QED BY <1>a, <2>4, EditEntry
    <3>3. x.of = of /\ x.len = b.offset + 1 /\ of \in {from.of, NoDatum}
      OBVIOUS
    <3> HIDE DEF e
    <3>4. FromTwo(e, d, s)
      <4>1. f \in DOMAIN s.at
        BY <1>2 DEF Short, Has
      <4> QED BY <3>2, <3>3, <4>1 DEF FromTwo, Among
    <3>5. b.offset > 0 /\ d.at[f].of = from.of => of = from.of
      OBVIOUS
    <3>6. b.offset = 0 => of = from.of
      OBVIOUS
    <3>7. b.offset + 1 > 0 /\ b.offset + 1 # 0 /\ (b.offset = 0 \/ b.offset > 0)
      BY <1>a
    <3>8. Mine(c, s, e, kept)
      <4> SUFFICES ASSUME NEW g \in Names, WholeIn(s, g, kept) PROVE FileCopied(c, g, s, e)
        BY DEF Mine
      <4>1. FileCopied(b, g, s, d)
        BY <1>b DEF Mine
      <4>2. CASE g # f
        BY <1>0, <2>2, <3>2, <4>1, <4>2 DEF FileCopied, SameJob, Through, Planned
      <4>3. CASE g = f
        <5>1. of = from.of
          <6>1. CASE b.offset > 0
            <7>1. d.at[f] = [of |-> from.of, len |-> b.offset]
              BY <1>0, <4>1, <4>3, <6>1 DEF FileCopied
            <7>2. d.at[f].of = from.of
              BY <7>1
            <7> QED BY <3>5, <6>1, <7>2
          <6> QED BY <3>6, <3>7, <6>1
        <5>2. e.at[f] = [of |-> s.at[f].of, len |-> b.offset + 1]
          BY <3>2, <5>1
        <5>3. ~ Through(c, g)
          BY <2>2, <4>3 DEF Through
        <5> HIDE DEF of, x
        <5> QED BY <1>0, <2>2, <2>4, <3>2, <4>1, <4>3, <5>2, <5>3 DEF FileCopied, SameJob, Planned
      <4> QED BY <4>2, <4>3
    <3>9. Tidy(c, s, e)
      <4> SUFFICES ASSUME b.clean PROVE DestOK(c, e) /\ SourceOK(c, s)
        BY <2>2 DEF Tidy, SameJob
      <4>1. /\ d.kind = b.kind /\ DOMAIN d.at = DOMAIN b.plan \ b.todo
            /\ \A g \in DOMAIN d.at \ {f} : d.at[g] = b.plan[g]
            /\ b.offset > 0 => d.at[f] = [of |-> b.plan[f].of, len |-> b.offset]
            /\ s.kind = b.kind /\ s.at = b.plan
        BY <1>0, <1>b DEF Tidy, DestOK, SourceOK, Planned
      <4>2. of = b.plan[f].of
        <5>1. CASE b.offset > 0
          <6>1. d.at[f].of = from.of
            BY <4>1, <5>1
          <6> QED BY <3>5, <4>1, <5>1, <6>1
        <5> QED BY <3>6, <3>7, <4>1, <5>1
      <4>3. e.at[f] = [of |-> b.plan[f].of, len |-> b.offset + 1]
        BY <3>2, <4>2
      <4> HIDE DEF of, x
      <4> QED BY <2>2, <3>2, <3>7, <4>1, <4>3 DEF DestOK, SourceOK, Planned, SameJob
    <3> HIDE DEF of, x
    <3> QED BY <1>0, <2>1, <2>2, <3>1, <3>4, <3>8, <3>9, DestKeep
  <2> QED BY <2>3, <2>4
<1> QED BY <1>1, <1>2 DEF Stream

LEMMA KeepClose ==
  ASSUME Inv, NEW j \in Jobs, Close(j)
  PROVE  KeptInv' /\ CleanInv'
<1> DEFINE b == job[j]
           f == b.cur
           s == store[b.src]
           d == store[b.dst]
<1>0. b.pc = "stream" /\ ~ (b.offset < b.plan[f].len) /\ UNCHANGED envVars /\ ControlInv
  BY DEF Close, Streaming, Inv
<1>a. /\ b \in Transfers /\ JobOK(b) /\ job = [k \in Jobs |-> job[k]] /\ StoreOK
      /\ b.src \in Places /\ b.dst \in Places /\ PlaceOK(d, unused) /\ PlaceOK(s, unused)
      /\ f \in Names /\ f \in DOMAIN b.plan \ b.todo /\ b.offset \in Nat
      /\ b.kind \in {"file", "dir"}
  BY <1>0, Parts, JobTypes DEF JobOK, Shape, Transfers
<1>b. Mine(b, s, d, kept) /\ Tidy(b, s, d)
  BY <1>0, OwnFacts
<1>c. b.offset = b.plan[f].len /\ b.plan[f] \in Contents
  <2>1. b.offset <= b.plan[f].len /\ b.plan[f].len \in Nat
    BY <1>0, <1>a, JobTypes DEF JobOK, Shape
  <2>2. b.plan[f] \in Contents
    BY <1>a, JobTypes, ListingFacts
  <2> QED BY <1>0, <1>a, <2>1, <2>2
<1>1. CASE Goto(j, AfterFile(j)) /\ UNCHANGED store
  <2> DEFINE l == AfterFile(j)
             c == [b EXCEPT !.pc = l]
  <2>1. JobStepped(j, c)
    BY <1>0, <1>1, GotoIs
  <2>2. /\ c.pc = l /\ l \in {"entries", "copied"} /\ SameJob(b, c) /\ c.plan = b.plan
        /\ c.todo = b.todo
    BY <1>a, GotoFields DEF AfterFile
  <2> HIDE DEF c, l
  <2>3. Mine(c, s, d, kept)
    <3> SUFFICES ASSUME NEW g \in Names, WholeIn(s, g, kept) PROVE FileCopied(c, g, s, d)
      BY DEF Mine
    <3>1. FileCopied(b, g, s, d)
      BY <1>b DEF Mine
    <3>2. CASE g # f
      BY <1>0, <2>2, <3>1, <3>2 DEF FileCopied, SameJob, Through, Planned
    <3>3. CASE g = f
      <4>1. b.plan[f].len = Chunks /\ Chunks > 0
        BY <1>0, <3>1, <3>3, TransferAssumption DEF FileCopied, Planned
      <4>2. f \in DOMAIN d.at /\ d.at[f] = [of |-> s.at[f].of, len |-> b.offset]
        BY <1>0, <1>c, <3>1, <3>3, <4>1 DEF FileCopied
      <4>3. PICK x \in kept : s.at[f] = Whole(x)
        BY <3>3 DEF WholeIn
      <4>4. d.at[f] = s.at[f]
        BY <1>c, <4>1, <4>2, <4>3 DEF Whole
      <4> QED BY <1>0, <2>2, <3>1, <3>3, <4>2, <4>4 DEF FileCopied, SameJob, Planned
    <3> QED BY <3>2, <3>3
  <2>4. Tidy(c, s, d)
    <3> SUFFICES ASSUME b.clean PROVE DestOK(c, d) /\ SourceOK(c, s)
      BY <2>2 DEF Tidy, SameJob
    <3>1. /\ d.kind = b.kind /\ DOMAIN d.at = DOMAIN b.plan \ b.todo
          /\ \A g \in DOMAIN d.at \ {f} : d.at[g] = b.plan[g]
          /\ b.offset = 0 => d.at[f] = Blank
          /\ b.offset > 0 => d.at[f] = [of |-> b.plan[f].of, len |-> b.offset]
          /\ s.kind = b.kind /\ s.at = b.plan
      BY <1>0, <1>b DEF Tidy, DestOK, SourceOK, Planned
    <3>2. d.at[f] = b.plan[f]
      <4>1. CASE b.offset = 0
        BY <1>a, <1>c, <3>1, <4>1 DEF PlaceOK
      <4>2. CASE b.offset > 0
        <5>1. b.plan[f] = [of |-> b.plan[f].of, len |-> b.plan[f].len]
          BY <1>c DEF Contents
        <5> QED BY <1>c, <3>1, <4>2, <5>1
      <4> QED BY <1>a, <4>1, <4>2
    <3> QED BY <2>2, <3>1, <3>2 DEF DestOK, SourceOK, Planned, SameJob, Holds
  <2> QED BY <1>0, <1>1, <2>1, <2>2, <2>3, <2>4, QuietKeep DEF envVars
<1>2. CASE Goto(j, "cleanup") /\ LoseFile(j)
  <2> DEFINE c == [b EXCEPT !.pc = "cleanup"]
             e == [d EXCEPT !.at[f] = Blank]
  <2>1. JobStepped(j, c) /\ Written(b.dst, e) /\ f \in DOMAIN d.at
    BY <1>0, <1>2, <1>a, GotoIs DEF LoseFile, Written, StoreOK, Has
  <2>2. c.pc = "cleanup" /\ SameJob(b, c) /\ c.plan = b.plan
    BY <1>a, GotoFields
  <2>3. /\ DOMAIN e.at = DOMAIN d.at /\ e.at[f] = Blank
        /\ \A g \in DOMAIN d.at \ {f} : e.at[g] = d.at[g]
    BY <1>a, <2>1, EditEntry
  <2> HIDE DEF c, e
  <2>4. FromTwo(e, d, s)
    BY <2>3, BlankIs DEF FromTwo, Among
  <2>5. Mine(c, s, e, kept) /\ Tidy(c, s, e)
    BY <1>b, <2>2 DEF Mine, FileCopied, SameJob, Through, Planned, Tidy, DestOK, SourceOK
  <2> QED BY <1>0, <2>1, <2>2, <2>4, <2>5, DestKeep
<1> QED BY <1>1, <1>2 DEF Close

LEMMA KeepCleanup ==
  ASSUME Inv, NEW j \in Jobs, Cleanup(j)
  PROVE  KeptInv' /\ CleanInv'
<1>0. job[j].pc = "cleanup" /\ UNCHANGED envVars /\ Ends(j) /\ ControlInv
  BY DEF Cleanup, Inv
<1>1. PICK rest \in Remains(job[j].dst) : Written(job[j].dst, rest)
  BY DEF Cleanup, Written
<1>2. PartOf(rest, store[job[j].dst])
  BY <1>0, Parts, RemainsOK DEF PartOf
<1>3. FromTwo(rest, store[job[j].dst], store[job[j].src])
  BY <1>2 DEF PartOf, FromTwo, Among
<1>4. NoJob.pc = "idle" /\ JobStepped(j, NoJob)
  BY <1>0, EndsIs DEF NoJob
<1> QED BY <1>0, <1>1, <1>3, <1>4, DestKeep

LEMMA KeepDeleteSource ==
  ASSUME Inv, NEW j \in Jobs, DeleteSource(j)
  PROVE  KeptInv' /\ CleanInv'
<1> DEFINE b == job[j]
           s == store[b.src]
           d == store[b.dst]
           c == [b EXCEPT !.pc = "ok", !.done = Promised(b.plan)]
<1>0. b.pc = "copied" /\ UNCHANGED envVars /\ ControlInv
  BY DEF DeleteSource, Inv
<1>a. b \in Transfers /\ JobOK(b) /\ b.src \in Places /\ PlaceOK(s, unused) /\ b.todo = {}
  BY <1>0, Parts DEF JobOK, Shape
<1>b. Mine(b, s, d, kept) /\ Tidy(b, s, d)
  BY <1>0, OwnFacts
<1>c. c.pc = "ok" /\ SameJob(b, c) /\ c.plan = b.plan
  BY <1>a, DoneFields
<1>d. Succeeds(j) => JobStepped(j, c)
  BY <1>0, SucceedsIs
<1> HIDE DEF c
\* The destination has every kept file of the source.
<1>e. \A f \in Names : WholeIn(s, f, kept) => f \in DOMAIN d.at /\ d.at[f] = s.at[f]
  BY <1>0, <1>a, <1>b DEF Mine, FileCopied, Through
<1>1. CASE Succeeds(j) /\ UNCHANGED store
  <2>1. Mine(c, s, d, kept) /\ Tidy(c, s, d)
    BY <1>b, <1>c, OkMine
  <2> QED BY <1>0, <1>1, <1>c, <1>d, <2>1, QuietKeep DEF envVars
<1>2. CASE Ends(j) /\ UNCHANGED store
  BY <1>0, <1>2, QuietEnd DEF envVars
<1>3. CASE ~ b.copy /\ Succeeds(j) /\ Written(b.src, Gone)
  <2>1. PartOf(Gone, s)
    BY NoFilesListed DEF PartOf, Gone
  <2>2. JobMoves(j) /\ job'[j] = c /\ store'[b.src] = Gone /\ store'[b.dst] = d
    BY <1>0, <1>3, <1>c, <1>d, <2>1, MovesSource
  <2>3. Safe'
    BY <1>0, <1>c, <1>e, <2>2, SourceSafe DEF Inv, KeptInv
  <2>4. Mine(c, Gone, d, kept) /\ Tidy(c, Gone, d)
    BY <1>c, NothingAtGone DEF Mine, Tidy, DestOK, SourceOK, Planned
  <2> QED BY <2>2, <2>3, <2>4, OwnKeep
<1>4. CASE ~ b.copy /\ Ends(j) /\ \E rest \in Remains(b.src) : Written(b.src, rest)
  <2>1. PICK rest \in Remains(b.src) : Written(b.src, rest)
    BY <1>4
  <2>2. PartOf(rest, s)
    BY <1>a, RemainsOK DEF PartOf
  <2>3. JobMoves(j) /\ job'[j] = NoJob /\ store'[b.dst] = d
    BY <1>0, <1>4, <2>1, <2>2, EndsIs, MovesSource
  <2>4. Safe'
    BY <1>0, <1>e, <2>3, SourceSafe DEF Inv, KeptInv
  <2> QED BY <2>3, <2>4, EndsKeep
<1> QED BY <1>1, <1>2, <1>3, <1>4 DEF DeleteSource, Written

\* DestOK reads these fields.
LEMMA DestOf ==
  ASSUME NEW b, NEW c, NEW d, c.pc = b.pc, c.kind = b.kind, c.plan = b.plan, c.todo = b.todo,
         c.cur = b.cur, c.offset = b.offset, DestOK(b, d)
  PROVE  DestOK(c, d)
BY DEF DestOK, Holds

LEMMA KeepCancel ==
  ASSUME Inv, NEW j \in Jobs, Cancel(j)
  PROVE  KeptInv' /\ CleanInv'
<1> DEFINE b == job[j]
           c == [b EXCEPT !.cancelled = TRUE]
<1>0. b.pc \in Running /\ UNCHANGED <<store, envVars>> /\ ControlInv
  BY DEF Cancel, Inv
<1>1. b \in Transfers /\ job = [k \in Jobs |-> job[k]]
  BY <1>0, Parts
<1>2. JobStepped(j, c)
  BY <1>1 DEF Cancel, JobStepped
<1>3. /\ c.pc = b.pc /\ SameJob(b, c) /\ c.plan = b.plan /\ c.todo = b.todo /\ c.cur = b.cur
      /\ c.offset = b.offset
  BY <1>1 DEF Transfers, SameJob
<1> HIDE DEF c
<1>4. b.pc \notin {"idle", "stat_dst", "ok"}
  BY <1>0 DEF Running
<1>5. Mine(b, store[b.src], store[b.dst], kept) /\ Tidy(b, store[b.src], store[b.dst])
  BY <1>4, OwnFacts
<1>6. Mine(c, store[b.src], store[b.dst], kept)
  BY <1>3, <1>5 DEF Mine, FileCopied, SameJob, Through
<1>7. Tidy(c, store[b.src], store[b.dst])
  <2> SUFFICES ASSUME c.clean PROVE DestOK(c, store[b.dst]) /\ SourceOK(c, store[b.src])
    BY DEF Tidy
  <2>1. DestOK(b, store[b.dst]) /\ SourceOK(b, store[b.src])
    BY <1>3, <1>5 DEF Tidy, SameJob
  <2>2. DestOK(c, store[b.dst])
    <3>1. c.pc = b.pc /\ c.kind = b.kind /\ c.plan = b.plan /\ c.todo = b.todo
          /\ c.cur = b.cur /\ c.offset = b.offset
      BY <1>3 DEF SameJob
    <3> QED BY <2>1, <3>1, DestOf
  <2>3. SourceOK(c, store[b.src])
    BY <1>3, <2>1 DEF SourceOK, SameJob
  <2> QED BY <2>2, <2>3
<1> QED BY <1>0, <1>2, <1>3, <1>4, <1>6, <1>7, QuietKeep

-----------------------------------------------------------------------------
(* The other actors. *)

\* The history of a job changes, and nothing else of it.
StillOne(b, c) ==
  /\ c.pc = b.pc /\ c.src = b.src /\ c.dst = b.dst /\ c.copy = b.copy /\ c.kind = b.kind
  /\ c.plan = b.plan /\ c.todo = b.todo /\ c.cur = b.cur /\ c.offset = b.offset

LEMMA StillFields ==
  ASSUME NEW b \in Transfers, NEW y
  PROVE  StillOne(b, [b EXCEPT !.clean = y]) /\ [b EXCEPT !.clean = y].clean = y
BY DEF Transfers, StillOne

LEMMA StillFacts ==
  ASSUME NEW b, NEW c, StillOne(b, c), NEW f, NEW s, NEW d
  PROVE  /\ FileCopied(b, f, s, d) => FileCopied(c, f, s, d)
         /\ DestOK(b, d) => DestOK(c, d)
         /\ SourceOK(b, s) => SourceOK(c, s)
BY DEF StillOne, FileCopied, Through, DestOK, SourceOK, Holds

LEMMA TouchesIs ==
  ASSUME ControlInv, NEW p, Touches(p), NEW k \in Jobs
  PROVE  StillOne(job[k], job'[k]) /\ (job'[k].clean => job[k].clean /\ ~ Uses(k, {p}))
<1> DEFINE y == job[k].clean /\ ~ Uses(k, {p})
<1>1. job'[k] = [job[k] EXCEPT !.clean = y] /\ job[k] \in Transfers
  BY Parts DEF Touches
<1>2. StillOne(job[k], job'[k]) /\ job'[k].clean = y
  <2> HIDE DEF y
  <2> QED BY <1>1, StillFields
<1> QED BY <1>2

LEMMA UsesIs == ASSUME NEW k, NEW p PROVE Uses(k, {p}) <=> job[k].src = p \/ job[k].dst = p
BY DEF Uses

LEMMA UserKeep ==
  ASSUME Inv, NEW p \in Places, Touches(p),
         \A q \in Places \ {p} : store'[q] = store[q],
         \A q \in Places, g \in Names :
           WholeIn(store'[q], g, kept') =>
             \/ WholeIn(store[q], g, kept) /\ store'[q].at[g] = store[q].at[g]
             \/ q = p /\ \A k \in Jobs : ~ Uses(k, {p}),
         \A q \in Places :
           NoneOf(store[q], kept) /\ (q = p => \E k \in Jobs : Uses(k, {p})) => NoneOf(store'[q], kept'),
         \A g \in DOMAIN store[p].at :
           /\ g \in DOMAIN store'[p].at
           /\ store[p].at[g].of \in kept' => store'[p].at[g] = store[p].at[g],
         \A x \in kept' \ kept : \E f \in Names :
           f \in DOMAIN store'[p].at /\ store'[p].at[f] = Whole(x) /\ \A k \in Jobs : ~ Uses(k, {p})
  PROVE  KeptInv' /\ CleanInv'
<1>0. ControlInv /\ Disputes /\ Safe /\ (\A k \in Jobs : Copied(k) /\ Undisturbed(k))
  BY DEF Inv, KeptInv, CleanInv
<1>1. \A k \in Jobs : StillOne(job[k], job'[k]) /\ (job'[k].clean => job[k].clean /\ ~ Uses(k, {p}))
  BY <1>0, TouchesIs
<1>2. \A k, l \in Jobs : Rivals(k, l)' => Rivals(k, l)
  BY <1>1 DEF StillOne, Rivals
<1>3. Disputes'
  <2> SUFFICES ASSUME NEW k \in Jobs, NEW l \in Jobs, Rivals(k, l)'
               PROVE  NoneOf(store'[job'[k].src], kept') /\ NoneOf(store'[job'[k].dst], kept')
    BY DEF Disputes
  <2>1. Rivals(k, l) /\ job'[k].src = job[k].src /\ job'[k].dst = job[k].dst
    BY <1>1, <1>2 DEF StillOne
  <2>2. job[k].src \in Places /\ job[k].dst \in Places
    BY <1>0, <2>1, Parts DEF Rivals
  <2>3. NoneOf(store[job[k].src], kept) /\ NoneOf(store[job[k].dst], kept)
    BY <1>0, <2>1 DEF Disputes
  <2> QED BY <2>1, <2>2, <2>3, UsesIs
<1>4. Safe'
  <2> SUFFICES ASSUME NEW x \in kept' PROVE \E q \in Places : \E f \in Names : SafeAt(x, q, f)'
    BY DEF Safe
  <2>1. CASE x \in kept
    <3>1. PICK q \in Places, f \in Names : SafeAt(x, q, f)
      BY <1>0, <2>1 DEF Safe
    <3>2. store[q].at[f].of = x /\ f \in DOMAIN store[q].at /\ store[q].at[f] = Whole(x)
      BY <3>1 DEF SafeAt, Whole
    <3>3. f \in DOMAIN store'[q].at /\ store'[q].at[f] = Whole(x)
      <4>1. CASE q = p
        BY <3>2, <4>1
      <4>2. CASE q # p
        BY <3>2, <4>2
      <4> QED BY <4>1, <4>2
    <3>4. SafeAt(x, q, f)'
      BY <1>1, <3>1, <3>3 DEF SafeAt, StillOne
    <3> QED BY <3>4
  <2>2. CASE x \notin kept
    <3>1. PICK f \in Names : /\ f \in DOMAIN store'[p].at /\ store'[p].at[f] = Whole(x)
                             /\ \A k \in Jobs : ~ Uses(k, {p})
      BY <2>2
    <3>2. SafeAt(x, p, f)'
      BY <1>1, <3>1, UsesIs DEF SafeAt, StillOne
    <3> QED BY <3>2
  <2> QED BY <2>1, <2>2
<1>5. ASSUME NEW k \in Jobs PROVE Copied(k)'
  <2> DEFINE b == job[k]
  <2>1. StillOne(b, job'[k])
    BY <1>1
  <2> SUFFICES ASSUME b.pc # "idle", NEW g \in Names, WholeIn(store'[b.src], g, kept')
               PROVE  FileCopied(job'[k], g, store'[b.src], store'[b.dst])
    BY <2>1 DEF Copied, StillOne
  <2>2. b.src \in Places /\ b.dst \in Places
    BY <1>0, Parts
  <2>3. WholeIn(store[b.src], g, kept) /\ store'[b.src].at[g] = store[b.src].at[g]
    BY <2>2, UsesIs
  <2>4. FileCopied(b, g, store[b.src], store[b.dst])
    BY <1>0, <2>3 DEF Copied
  <2>5. PICK x \in kept' : store[b.src].at[g] = Whole(x)
    BY <2>3 DEF WholeIn
  <2>6. store[b.src].at[g].of \in kept'
    BY <2>5 DEF Whole
  <2>7. ASSUME g \in DOMAIN store[b.dst].at, store[b.dst].at[g].of \in kept'
        PROVE  g \in DOMAIN store'[b.dst].at /\ store'[b.dst].at[g] = store[b.dst].at[g]
    BY <2>2, <2>7
  <2>8. g \in DOMAIN store[b.dst].at => g \in DOMAIN store'[b.dst].at
    BY <2>2
  <2>9. FileCopied(b, g, store'[b.src], store'[b.dst])
    <3>1. \A n : [of |-> store[b.src].at[g].of, len |-> n].of = store[b.src].at[g].of
      OBVIOUS
    <3>2. Through(b, g) => g \in DOMAIN store'[b.dst].at /\ store'[b.dst].at[g] = store'[b.src].at[g]
      BY <2>3, <2>4, <2>6, <2>7 DEF FileCopied
    <3>3. b.pc = "stream" /\ g = b.cur =>
            /\ g \in DOMAIN store'[b.dst].at
            /\ b.offset > 0 => store'[b.dst].at[g] = [of |-> store'[b.src].at[g].of, len |-> b.offset]
      <4> SUFFICES ASSUME b.pc = "stream", g = b.cur
                   PROVE  /\ g \in DOMAIN store'[b.dst].at
                          /\ b.offset > 0 =>
                               store'[b.dst].at[g] = [of |-> store'[b.src].at[g].of, len |-> b.offset]
        OBVIOUS
      <4>1. /\ g \in DOMAIN store[b.dst].at
            /\ b.offset > 0 => store[b.dst].at[g] = [of |-> store[b.src].at[g].of, len |-> b.offset]
        BY <2>4 DEF FileCopied
      <4>2. b.offset > 0 => store[b.dst].at[g].of \in kept'
        BY <2>6, <3>1, <4>1
      <4> QED BY <2>3, <2>7, <2>8, <4>1, <4>2
    <3> QED BY <2>4, <3>2, <3>3 DEF FileCopied
  <2> QED BY <2>1, <2>9, StillFacts
<1>6. ASSUME NEW k \in Jobs PROVE Undisturbed(k)'
  <2> SUFFICES ASSUME job'[k].clean, job'[k].pc # "idle"
               PROVE  Alone(k)' /\ DestOK(job'[k], store'[job'[k].dst])
                                /\ SourceOK(job'[k], store'[job'[k].src])
    BY DEF Undisturbed
  <2>1. StillOne(job[k], job'[k]) /\ job[k].clean /\ ~ Uses(k, {p})
    BY <1>1
  <2>2. job'[k].src = job[k].src /\ job'[k].dst = job[k].dst /\ job[k].pc # "idle"
    BY <2>1 DEF StillOne
  <2>3. Alone(k) /\ DestOK(job[k], store[job[k].dst]) /\ SourceOK(job[k], store[job[k].src])
    BY <1>0, <2>1, <2>2 DEF Undisturbed
  <2>4. store'[job[k].dst] = store[job[k].dst] /\ store'[job[k].src] = store[job[k].src]
    BY <1>0, <2>1, <2>2, UsesIs, Parts
  <2>5. Alone(k)'
    BY <1>1, <1>2, <2>3 DEF Alone, StillOne
  <2> QED BY <2>1, <2>2, <2>3, <2>4, <2>5, StillFacts
<1> QED BY <1>3, <1>4, <1>5, <1>6 DEF KeptInv, CleanInv

LEMMA KeepUpload ==
  ASSUME Inv, NEW p \in Places, NEW f \in Names, Upload(p, f)
  PROVE  KeptInv' /\ CleanInv'
<1> DEFINE x == CHOOSE d \in unused : TRUE
           e == PutEntry(store[p], f, Whole(x))
<1>0. ControlInv /\ StoreOK
  BY ControlParts DEF Inv
<1>1. /\ x \in unused /\ f \notin DOMAIN store[p].at /\ Touches(p) /\ Put(p, f, Whole(x))
      /\ kept' = IF \E k \in Jobs : Uses(k, {p}) THEN kept ELSE kept \cup {x}
  BY DEF Upload, Has
<1> HIDE DEF x
<1>2. store'[p] = e /\ \A q \in Places \ {p} : store'[q] = store[q]
  BY <1>0, <1>1, PutIs DEF Written, StoreOK
<1>3. /\ DOMAIN e.at = DOMAIN store[p].at \cup {f} /\ e.at[f] = Whole(x)
      /\ \A g \in DOMAIN store[p].at : e.at[g] = store[p].at[g]
  BY <1>1 DEF PutEntry
<1> HIDE DEF e
<1>4. x \notin kept /\ Whole(x).of = x /\ \A y : Whole(y).of = y
  BY <1>0, <1>1, KeptData DEF Whole
<1>5. \A q \in Places : \A g \in DOMAIN store[q].at : store[q].at[g].of # x
  BY <1>0, <1>1, StoredOK
<1>6. ASSUME NEW q \in Places, NEW g \in Names, WholeIn(store'[q], g, kept')
      PROVE  \/ WholeIn(store[q], g, kept) /\ store'[q].at[g] = store[q].at[g]
             \/ q = p /\ \A k \in Jobs : ~ Uses(k, {p})
  <2>1. PICK y \in kept' : g \in DOMAIN store'[q].at /\ store'[q].at[g] = Whole(y)
    BY <1>6 DEF WholeIn
  <2>2. CASE g \in DOMAIN store[q].at
    <3>1. store'[q].at[g] = store[q].at[g] /\ y # x
      BY <1>2, <1>3, <1>4, <1>5, <2>1, <2>2
    <3>2. y \in kept
      BY <1>1, <2>1, <3>1
    <3> QED BY <2>1, <2>2, <3>1, <3>2 DEF WholeIn
  <2>3. CASE g \notin DOMAIN store[q].at
    <3>1. q = p /\ y = x
      BY <1>2, <1>3, <1>4, <2>1, <2>3
    <3> QED BY <1>1, <1>4, <2>1, <3>1
  <2> QED BY <2>2, <2>3
<1>7. ASSUME NEW q \in Places, NoneOf(store[q], kept), q = p => \E k \in Jobs : Uses(k, {p})
      PROVE  NoneOf(store'[q], kept')
  <2>1. CASE q = p
    <3>1. kept' = kept
      BY <1>1, <1>7, <2>1
    <3>2. \A g \in DOMAIN e.at : e.at[g].of \notin kept
      BY <1>3, <1>4, <1>7, <2>1 DEF NoneOf
    <3> QED BY <1>2, <2>1, <3>1, <3>2 DEF NoneOf
  <2>2. CASE q # p
    BY <1>1, <1>2, <1>5, <1>7, <2>2 DEF NoneOf
  <2> QED BY <2>1, <2>2
<1>8. ASSUME NEW g \in DOMAIN store[p].at
      PROVE  g \in DOMAIN store'[p].at /\ store'[p].at[g] = store[p].at[g]
  BY <1>2, <1>3
<1>9. ASSUME NEW y \in kept' \ kept
      PROVE  /\ f \in DOMAIN store'[p].at /\ store'[p].at[f] = Whole(y)
             /\ \A k \in Jobs : ~ Uses(k, {p})
  BY <1>1, <1>2, <1>3, <1>9
<1> QED BY <1>1, <1>2, <1>6, <1>7, <1>8, <1>9, UserKeep

LEMMA KeepTruncate ==
  ASSUME Inv, NEW p \in Places, NEW f \in Names, Truncate(p, f)
  PROVE  KeptInv' /\ CleanInv'
<1> DEFINE b == store[p].at[f]
           c(n) == IF n = 0 THEN Blank ELSE [b EXCEPT !.len = n]
<1>0. ControlInv /\ StoreOK /\ PlaceOK(store[p], unused)
  BY ControlParts DEF Inv, StoreOK
<1>1. f \in DOMAIN store[p].at /\ Touches(p) /\ kept' = kept \ {b.of}
  BY DEF Truncate, Has
<1>2. PICK n \in 0 .. b.len - 1 : store' = [store EXCEPT ![p].at[f] = c(n)]
  BY DEF Truncate
<1>3. b \in Contents /\ b.len \in Nat /\ b.len <= Chunks
  BY <1>0, <1>1, PlaceTypes
<1>4. c(n).of \notin kept' /\ c(n).len # Chunks
  <2>1. n \in Nat /\ n < Chunks
    BY <1>2, <1>3, TransferAssumption
  <2>2. CASE n = 0
    BY <1>0, <1>1, <2>1, <2>2, BlankIs, KeptData, TransferAssumption
  <2>3. CASE n # 0
    <3>1. [b EXCEPT !.len = n].of = b.of /\ [b EXCEPT !.len = n].len = n
      BY <1>3 DEF Contents
    <3> QED BY <1>1, <2>1, <2>3, <3>1, TransferAssumption
  <2> QED BY <2>2, <2>3
<1> HIDE DEF c
<1>5. /\ store'[p] = [store[p] EXCEPT !.at[f] = c(n)]
      /\ \A q \in Places \ {p} : store'[q] = store[q]
  BY <1>0, <1>2 DEF StoreOK
<1>6. /\ DOMAIN store'[p].at = DOMAIN store[p].at /\ store'[p].at[f] = c(n)
      /\ \A g \in DOMAIN store[p].at \ {f} : store'[p].at[g] = store[p].at[g]
  BY <1>0, <1>1, <1>5, EditEntry
<1>7. \A y : Whole(y).of = y /\ Whole(y).len = Chunks
  BY DEF Whole
<1>8. ASSUME NEW q \in Places, NEW g \in Names, WholeIn(store'[q], g, kept')
      PROVE  WholeIn(store[q], g, kept) /\ store'[q].at[g] = store[q].at[g]
  <2>1. CASE q # p
    BY <1>1, <1>5, <1>8, <2>1 DEF WholeIn
  <2>2. CASE q = p
    <3>1. g # f
      BY <1>4, <1>6, <1>7, <1>8, <2>2 DEF WholeIn
    <3> QED BY <1>1, <1>6, <1>8, <2>2, <3>1 DEF WholeIn
  <2> QED BY <2>1, <2>2
<1>9. ASSUME NEW q \in Places, NoneOf(store[q], kept) PROVE NoneOf(store'[q], kept')
  <2>1. CASE q # p
    BY <1>1, <1>5, <1>9, <2>1 DEF NoneOf
  <2>2. CASE q = p
    BY <1>1, <1>4, <1>6, <1>9, <2>2 DEF NoneOf
  <2> QED BY <2>1, <2>2
<1>10. ASSUME NEW g \in DOMAIN store[p].at
       PROVE  /\ g \in DOMAIN store'[p].at
              /\ store[p].at[g].of \in kept' => store'[p].at[g] = store[p].at[g]
  BY <1>1, <1>6
<1>11. kept' \ kept = {}
  BY <1>1
<1> QED BY <1>1, <1>5, <1>8, <1>9, <1>10, <1>11, UserKeep

LEMMA DisputedOut ==
  ASSUME NEW P, NEW p \in P, NEW K
  PROVE  NoneOf(store[p], K \ DataAt(P))
BY DEF NoneOf, DataAt

LEMMA KeepBegin ==
  ASSUME Inv, NEW j \in Jobs, NEW s \in Places, NEW d \in Places, NEW c \in BOOLEAN,
         Begin(j, s, d, c)
  PROVE  KeptInv' /\ CleanInv'
<1> DEFINE rivals == {k \in Jobs \ {j} : Uses(k, {d}) \/ job[k].dst = s}
           shares(k) == k \in rivals \/ (job[k].src = s /\ ~(c /\ job[k].copy))
           disputed == {s, d} \cup {job[k].src : k \in rivals} \cup {job[k].dst : k \in rivals}
           here == store[s]
           b == job'[j]
<1>0. ControlInv /\ Disputes /\ Safe /\ (\A k \in Jobs : Copied(k) /\ Undisturbed(k))
  BY DEF Inv, KeptInv, CleanInv
<1>1. /\ store' = store /\ job[j].pc = "idle" /\ s # d
      /\ kept' = IF rivals = {} THEN kept ELSE kept \ DataAt(disputed)
  BY DEF Begin
<1>2. /\ b.pc = "stat_dst" /\ b.src = s /\ b.dst = d /\ b.copy = c /\ b.kind = here.kind
      /\ b.plan = (IF here.kind = "file" THEN here.at ELSE NoFiles)
      /\ b.clean => \A o \in Jobs \ {j} : ~ shares(o)
  BY DEF Begin, NoJob
<1>3. \A k \in Jobs \ {j} : StillOne(job[k], job'[k]) /\ (job'[k].clean => job[k].clean /\ ~ shares(k))
  <2> SUFFICES ASSUME NEW k \in Jobs \ {j}
               PROVE  StillOne(job[k], job'[k]) /\ (job'[k].clean => job[k].clean /\ ~ shares(k))
    OBVIOUS
  <2> DEFINE y == job[k].clean /\ ~ shares(k)
  <2>1. job'[k] = [job[k] EXCEPT !.clean = y] /\ job[k] \in Transfers
    BY <1>0, Parts DEF Begin
  <2>2. StillOne(job[k], job'[k]) /\ job'[k].clean = y
    <3> HIDE DEF y
    <3> QED BY <2>1, StillFields
  <2> QED BY <2>2
<1>4. \A k \in Jobs \ {j} : (Rivals(j, k)' \/ Rivals(k, j)') => k \in rivals
  <2> SUFFICES ASSUME NEW k \in Jobs \ {j}, Rivals(j, k)' \/ Rivals(k, j)' PROVE k \in rivals
    OBVIOUS
  <2>1. job'[k].src = job[k].src /\ job'[k].dst = job[k].dst
    BY <1>3 DEF StillOne
  <2>2. job'[k].dst \in {b.src, b.dst} \/ b.dst \in {job'[k].src, job'[k].dst}
    BY DEF Rivals
  <2>3. job[k].dst = s \/ job[k].src = d \/ job[k].dst = d
    BY <1>2, <2>1, <2>2
  <2> QED BY <2>3, UsesIs
<1>5. \A k, l \in Jobs \ {j} : Rivals(k, l)' => Rivals(k, l)
  BY <1>3 DEF Rivals, StillOne
<1>6. kept' \subseteq kept
  BY <1>1
<1>7. \A p \in disputed : rivals # {} => NoneOf(store[p], kept')
  <2> HIDE DEF disputed, rivals
  <2> QED BY <1>1, DisputedOut
<1>8. Disputes'
  <2> SUFFICES ASSUME NEW k \in Jobs, NEW l \in Jobs, Rivals(k, l)'
               PROVE  NoneOf(store[job'[k].src], kept') /\ NoneOf(store[job'[k].dst], kept')
    BY <1>1 DEF Disputes
  <2>1. CASE k = j
    <3>1. l \in rivals
      BY <1>4, <2>1 DEF Rivals
    <3> QED BY <1>2, <1>7, <2>1, <3>1
  <2>2. CASE l = j /\ k # j
    <3>1. k \in rivals
      BY <1>4, <2>2
    <3> QED BY <1>3, <1>7, <2>2, <3>1 DEF StillOne
  <2>3. CASE k # j /\ l # j
    <3>1. Rivals(k, l)
      BY <1>5, <2>3
    <3>2. NoneOf(store[job[k].src], kept) /\ NoneOf(store[job[k].dst], kept)
      BY <1>0, <3>1 DEF Disputes
    <3> QED BY <1>3, <1>6, <2>3, <3>2 DEF NoneOf, StillOne
  <2> QED BY <2>1, <2>2, <2>3
<1>9. Safe'
  <2> SUFFICES ASSUME NEW x \in kept' PROVE \E p \in Places : \E f \in Names : SafeAt(x, p, f)'
    BY DEF Safe
  <2>1. PICK p \in Places, f \in Names : SafeAt(x, p, f)
    BY <1>0, <1>6 DEF Safe
  <2>2. SafeAt(x, p, f)'
    BY <1>1, <1>2, <1>3, <2>1 DEF SafeAt, StillOne
  <2> QED BY <2>2
<1>10. ASSUME NEW k \in Jobs PROVE Copied(k)'
  <2>1. CASE k = j
    <3> SUFFICES ASSUME NEW f \in Names, WholeIn(here, f, kept') PROVE FileCopied(b, f, here, store[d])
      BY <1>1, <1>2, <2>1 DEF Copied
    <3>1. f \in DOMAIN here.at /\ here.at[f].len = Chunks
      BY DEF WholeIn, Whole
    <3>2. KindOf(f) = here.kind
      BY <1>0, <3>1, StoredOK
    <3> QED BY <1>2, <3>1, <3>2 DEF FileCopied, Through, Planned
  <2>2. CASE k # j
    <3>1. StillOne(job[k], job'[k])
      BY <1>3, <2>2
    <3> SUFFICES ASSUME job[k].pc # "idle", NEW f \in Names, WholeIn(store[job[k].src], f, kept')
                 PROVE  FileCopied(job'[k], f, store[job[k].src], store[job[k].dst])
      BY <1>1, <3>1 DEF Copied, StillOne
    <3>2. WholeIn(store[job[k].src], f, kept)
      BY <1>6 DEF WholeIn
    <3>3. FileCopied(job[k], f, store[job[k].src], store[job[k].dst])
      BY <1>0, <3>2 DEF Copied
    <3> QED BY <3>1, <3>3, StillFacts
  <2> QED BY <2>1, <2>2
<1>11. ASSUME NEW k \in Jobs PROVE Undisturbed(k)'
  <2> SUFFICES ASSUME job'[k].clean, job'[k].pc # "idle"
               PROVE  Alone(k)' /\ DestOK(job'[k], store[job'[k].dst])
                                /\ SourceOK(job'[k], store[job'[k].src])
    BY <1>1 DEF Undisturbed
  <2>1. CASE k = j
    <3>1. \A o \in Jobs \ {j} : ~ shares(o)
      BY <1>2, <2>1
    <3>2. Alone(j)'
      <4>1. \A o \in Jobs \ {j} : ~ Rivals(j, o)'
        BY <1>4, <3>1
      <4> QED BY <1>2, <1>3, <3>1, <4>1 DEF Alone, StillOne
    <3>3. DestOK(b, store[d]) /\ SourceOK(b, here)
      BY <1>2 DEF DestOK, SourceOK, Planned
    <3> QED BY <1>2, <2>1, <3>2, <3>3
  <2>2. CASE k # j
    <3>1. StillOne(job[k], job'[k]) /\ job[k].clean /\ ~ shares(k)
      BY <1>3, <2>2
    <3>2. /\ job[k].pc # "idle" /\ job'[k].src = job[k].src /\ job'[k].dst = job[k].dst
          /\ job'[k].copy = job[k].copy
      BY <3>1 DEF StillOne
    <3>3. Alone(k) /\ DestOK(job[k], store[job[k].dst]) /\ SourceOK(job[k], store[job[k].src])
      BY <1>0, <3>1, <3>2 DEF Undisturbed
    <3>4. Alone(k)'
      <4> SUFFICES ASSUME NEW l \in Jobs \ {k}
                   PROVE  ~ Rivals(k, l)' /\ (job'[l].src = job'[k].src => job'[k].copy /\ job'[l].copy)
        BY DEF Alone
      <4>1. CASE l = j
        BY <1>2, <1>4, <2>2, <3>1, <3>2, <4>1
      <4>2. CASE l # j
        BY <1>3, <1>5, <2>2, <3>2, <3>3, <4>2 DEF Alone, StillOne
      <4> QED BY <4>1, <4>2
    <3> QED BY <3>1, <3>2, <3>3, <3>4, StillFacts
  <2> QED BY <2>1, <2>2
<1> QED BY <1>8, <1>9, <1>10, <1>11 DEF KeptInv, CleanInv

LEMMA KeepCrash == ASSUME Inv, Crash PROVE KeptInv' /\ CleanInv'
<1>1. /\ \A k \in Jobs : job'[k] = NoJob
      /\ store' = store /\ kept' = kept
  BY DEF Crash, envVars
<1>2. NoJob.pc = "idle" /\ NoJob.dst = Nowhere /\ Nowhere \notin Places
  BY TransferAssumption DEF NoJob
<1>3. Safe'
  BY <1>1, <1>2 DEF Inv, KeptInv, Safe, SafeAt
<1>4. Disputes' /\ \A k \in Jobs : Copied(k)' /\ Undisturbed(k)'
  BY <1>1, <1>2 DEF Disputes, Rivals, Copied, Undisturbed
<1> QED BY <1>3, <1>4 DEF KeptInv, CleanInv

-----------------------------------------------------------------------------
LEMMA InvInit == Init => Inv
<1> SUFFICES ASSUME Init PROVE Inv
  OBVIOUS
<1>1. \A k \in Jobs : job[k].pc = "idle"
  BY DEF Init, NoJob
<1>2. kept = {}
  BY DEF Init
<1> QED BY <1>1, <1>2, ControlInit DEF Inv, KeptInv, CleanInv, Disputes, Rivals, Safe, Copied, Undisturbed

LEMMA InvStep == Inv /\ [Next]_vars => Inv'
<1> SUFFICES ASSUME Inv, [Next]_vars PROVE KeptInv' /\ CleanInv'
  BY ControlStep DEF Inv
<1>1. CASE UNCHANGED vars
  BY <1>1 DEF vars, envVars, Inv, KeptInv, CleanInv, Disputes, Rivals, Safe, SafeAt, Copied,
              Undisturbed, Alone
<1>2. ASSUME NEW j \in Jobs, NEW s \in Places, NEW d \in Places, NEW c \in BOOLEAN, Begin(j, s, d, c)
      PROVE  KeptInv' /\ CleanInv'
  BY <1>2, KeepBegin
<1>3. ASSUME NEW j \in Jobs, JobStep(j) PROVE KeptInv' /\ CleanInv'
  BY <1>3, KeepCheckQuota, KeepRename, KeepCreateDir, KeepNextEntry, KeepCopyOne,
     KeepStream, KeepClose, KeepCleanup, KeepDeleteSource, KeepRefuse DEF JobStep
<1>4. ASSUME NEW j \in Jobs, Refuse(j) \/ StatDest(j) \/ List(j) \/ Cancel(j)
      PROVE  KeptInv' /\ CleanInv'
  BY <1>4, KeepRefuse, KeepStatDest, KeepList, KeepCancel
<1>5. ASSUME NEW p \in Places, NEW f \in Names, Truncate(p, f) \/ Upload(p, f)
      PROVE  KeptInv' /\ CleanInv'
  BY <1>5, KeepTruncate, KeepUpload
<1> QED BY <1>1, <1>2, <1>3, <1>4, <1>5, KeepCrash DEF Next

LEMMA InvAlways == Spec => []Inv
BY InvInit, InvStep, PTL DEF Spec

\* Whatever is cancelled, fails or crashes, and however many transfers run at once: a
\* file no user changed or uploaded to a place a job uses, and no two jobs disputed,
\* is whole at some place, so DeleteSource and Cleanup never take its last copy.
THEOREM NothingEverLost == Spec => []NothingLost
<1>1. Inv => NothingLost
  BY DEF Inv, KeptInv, Safe, SafeAt, NothingLost
<1> QED BY <1>1, InvAlways, PTL

\* The step to success is the rename or the end of the copy.
LEMMA SucceedsOnly ==
  ASSUME ControlInv, Next, NEW j \in Jobs, job[j].pc # "ok", job'[j].pc = "ok"
  PROVE  Rename(j) \/ DeleteSource(j)
<1>0. NoJob.pc # "ok"
  BY DEF NoJob
<1>1. ASSUME NEW k \in Jobs, NEW l, l # "ok", Goto(k, l) PROVE FALSE
  <2>1. job' = [job EXCEPT ![k] = [job[k] EXCEPT !.pc = l]] /\ job[k] \in Transfers
        /\ job = [i \in Jobs |-> job[i]]
    BY <1>1, GotoIs, Parts DEF JobStepped
  <2>2. [job[k] EXCEPT !.pc = l].pc = l
    BY <2>1, GotoFields
  <2> QED BY <1>1, <2>1, <2>2
<1>2. ASSUME NEW k \in Jobs, Ends(k) PROVE FALSE
  BY <1>0, <1>2, Parts DEF Ends
<1>3. ASSUME NEW k \in Jobs, k # j, \E c : JobStepped(k, c) PROVE FALSE
  BY <1>3, Parts DEF JobStepped
<1>4. ASSUME NEW k \in Jobs, NEW s \in Places, NEW d \in Places, NEW c \in BOOLEAN, Begin(k, s, d, c)
      PROVE  FALSE
  <2>1. CASE k = j
    BY <1>4, <2>1 DEF Begin, NoJob
  <2>2. CASE k # j
    <3>1. \E y : job'[j] = [job[j] EXCEPT !.clean = y]
      BY <1>4, <2>2 DEF Begin
    <3> QED BY <3>1, Parts, StillFields DEF StillOne
  <2> QED BY <2>1, <2>2
<1>5. ASSUME NEW p, Touches(p) PROVE FALSE
  BY <1>5, TouchesIs DEF StillOne
<1>6. ASSUME NEW k \in Jobs, Rename(k) \/ DeleteSource(k) PROVE Rename(j) \/ DeleteSource(j)
  <2>1. CASE k = j
    BY <1>6, <2>1
  <2>2. CASE k # j
    <3>1. \E c : JobStepped(k, c)
      <4>1. Goto(k, CopyTree(k)) => JobStepped(k, [job[k] EXCEPT !.pc = CopyTree(k)])
        BY GotoIs
      <4>2. Ends(k) => JobStepped(k, NoJob)
        BY EndsIs
      <4>3. job[k].pc = "copied" /\ Succeeds(k) =>
              JobStepped(k, [job[k] EXCEPT !.pc = "ok", !.done = Promised(job[k].plan)])
        BY SucceedsIs
      <4>4. job' = [job EXCEPT ![k].pc = "ok", ![k].done = Total(k)] =>
              JobStepped(k, [job[k] EXCEPT !.pc = "ok", !.done = Total(k)])
        BY Parts DEF JobStepped
      <4> QED BY <1>6, <4>1, <4>2, <4>3, <4>4 DEF Rename, DeleteSource
    <3> QED BY <1>3, <2>2, <3>1
  <2> QED BY <2>1, <2>2
<1>7. ASSUME NEW k \in Jobs, Refuse(k) \/ FinishJob(k) \/ Cleanup(k) PROVE FALSE
  BY <1>2, <1>7 DEF Refuse, FinishJob, Cleanup
<1>8. ASSUME NEW k \in Jobs, StatDest(k) \/ CheckQuota(k) \/ Close(k) PROVE FALSE
  BY <1>1, <1>2, <1>8 DEF StatDest, CheckQuota, Close, CopyTree, AfterFile
<1>9. ASSUME NEW k \in Jobs, NEW c, JobStepped(k, c), c.pc # "ok" PROVE FALSE
  BY <1>9, Parts DEF JobStepped
<1>10. ASSUME NEW k \in Jobs, List(k) PROVE FALSE
  <2> DEFINE a == IF job[k].kind = "file" THEN job[k].plan
                  ELSE IF store[job[k].src].kind = "dir" THEN store[job[k].src].at ELSE NoFiles
             c == [job[k] EXCEPT !.pc = "quota", !.plan = a]
  <2>1. JobStepped(k, c) /\ c.pc = "quota"
    BY <1>10, Parts DEF List, JobStepped, Transfers
  <2> QED BY <1>9, <2>1
<1>11. ASSUME NEW k \in Jobs, CreateDir(k) PROVE FALSE
  <2> DEFINE c == [job[k] EXCEPT !.pc = "entries", !.todo = Entries(k)]
  <2>1. c.pc = "entries" /\ (job' = [job EXCEPT ![k].pc = "entries", ![k].todo = Entries(k)] => JobStepped(k, c))
    BY Parts DEF JobStepped, Transfers
  <2> QED BY <1>1, <1>9, <1>11, <2>1 DEF CreateDir
<1>12. ASSUME NEW k \in Jobs, NextEntry(k) PROVE FALSE
  <2>1. ASSUME NEW f, job' = [job EXCEPT ![k].pc = "copy_one", ![k].cur = f, ![k].todo = @ \ {f}]
        PROVE  FALSE
    <3> DEFINE c == [job[k] EXCEPT !.pc = "copy_one", !.cur = f, !.todo = job[k].todo \ {f}]
    <3>1. c.pc = "copy_one" /\ JobStepped(k, c)
      BY <2>1, Parts DEF JobStepped, Transfers
    <3> QED BY <1>9, <3>1
  <2> QED BY <1>1, <1>12, <2>1 DEF NextEntry
<1>13. ASSUME NEW k \in Jobs, CopyOne(k) PROVE FALSE
  <2> DEFINE n == job[k].done + job[k].plan[job[k].cur].len
             c1 == [job[k] EXCEPT !.pc = AfterFile(k), !.done = n]
             c2 == [job[k] EXCEPT !.pc = "stream", !.offset = 0]
  <2>1. c1.pc = AfterFile(k) /\ c2.pc = "stream" /\ AfterFile(k) # "ok"
    BY Parts DEF Transfers, AfterFile
  <2>2. \/ JobStepped(k, c1) \/ JobStepped(k, c2) \/ Goto(k, "cleanup")
    BY <1>13, Parts DEF CopyOne, JobStepped
  <2> QED BY <1>1, <1>9, <2>1, <2>2
<1>14. ASSUME NEW k \in Jobs, Stream(k) PROVE FALSE
  <2> DEFINE c == [job[k] EXCEPT !.offset = job[k].offset + 1, !.done = job[k].done + 1]
  <2>1. c.pc = job[k].pc /\ job[k].pc = "stream"
    BY <1>14, Parts DEF Transfers, Stream, Streaming
  <2>2. JobStepped(k, c) \/ Goto(k, "cleanup")
    BY <1>14, Parts DEF Stream, WriteChunk, JobStepped
  <2> QED BY <1>1, <1>9, <2>1, <2>2
<1>15. ASSUME NEW k \in Jobs, Cancel(k) PROVE FALSE
  <2> DEFINE c == [job[k] EXCEPT !.cancelled = TRUE]
  <2>1. c.pc = job[k].pc /\ job[k].pc # "ok" /\ JobStepped(k, c)
    BY <1>15, Parts DEF Transfers, Cancel, Running, JobStepped
  <2> QED BY <1>9, <2>1
<1>16. ASSUME NEW k \in Jobs, JobStep(k) PROVE Rename(j) \/ DeleteSource(j)
  BY <1>6, <1>7, <1>8, <1>11, <1>12, <1>13, <1>14, <1>16 DEF JobStep
<1>17. ASSUME Crash PROVE FALSE
  BY <1>0, <1>17 DEF Crash
<1>18. ASSUME NEW p \in Places, NEW f \in Names, Truncate(p, f) \/ Upload(p, f) PROVE FALSE
  BY <1>5, <1>18 DEF Truncate, Upload
<1> QED BY <1>4, <1>7, <1>8, <1>10, <1>15, <1>16, <1>17, <1>18 DEF Next

\* What a place of two fields holds.
LEMMA PlaceIs ==
  ASSUME NEW e, NEW U, PlaceOK(e, U)
  PROVE  e = [kind |-> e.kind, at |-> e.at] /\ e.at = [f \in DOMAIN e.at |-> e.at[f]]
<1>1. e \in [kind : {"none", "file", "dir"}, at : Listings]
  BY DEF PlaceOK
<1> QED BY <1>1, ListingFacts

LEMMA SuccessStep ==
  ASSUME Inv, NEW j \in Jobs, Rename(j) \/ DeleteSource(j), job'[j].pc = "ok"
  PROVE  /\ job'[j].done = Total(j)
         /\ job[j].clean =>
              /\ store'[job[j].dst] = [kind |-> job[j].kind, at |-> job[j].plan]
              /\ ~job[j].copy => store'[job[j].src] = Gone
<1> DEFINE b == job[j]
           s == store[b.src]
           d == store[b.dst]
<1>0. ControlInv /\ b.pc \in {"rename", "copied"} /\ NoJob.pc # "ok"
  BY DEF Inv, Rename, DeleteSource, NoJob
<1>a. /\ b \in Transfers /\ JobOK(b) /\ b.src \in Places /\ b.dst \in Places /\ b.src # b.dst
      /\ PlaceOK(s, unused) /\ PlaceOK(d, unused) /\ StoreOK
      /\ job = [k \in Jobs |-> job[k]] /\ b.plan \in Listings
  BY <1>0, Parts DEF Transfers
<1>b. b.clean => DestOK(b, d) /\ SourceOK(b, s)
  BY <1>0, OwnFacts DEF Tidy
<1>c. ~ Ends(j)
  BY <1>0, <1>a DEF Ends
<1>1. CASE Rename(j)
  <2>1. ~ Goto(j, CopyTree(j))
    <3>1. [b EXCEPT !.pc = CopyTree(j)].pc = CopyTree(j) /\ CopyTree(j) # "ok"
      BY <1>a, GotoFields DEF CopyTree
    <3> QED BY <1>a, <3>1 DEF Goto
  <2>2. /\ store' = [store EXCEPT ![b.dst] = s, ![b.src] = Gone]
        /\ job' = [job EXCEPT ![j].pc = "ok", ![j].done = Total(j)] /\ b.pc = "rename"
    BY <1>1, <1>c, <2>1 DEF Rename
  <2>3. job'[j].done = Total(j)
    BY <1>a, <2>2 DEF Transfers
  <2>4. store'[b.dst] = s /\ store'[b.src] = Gone
    BY <1>a, <2>2 DEF StoreOK
  <2>5. b.clean => s.kind = b.kind /\ s.at = b.plan
    BY <1>b, <2>2 DEF SourceOK, Planned
  <2>6. s = [kind |-> s.kind, at |-> s.at]
    BY <1>a, PlaceIs
  <2>7. b.clean => s = [kind |-> b.kind, at |-> b.plan]
    BY <2>5, <2>6
  <2> HIDE DEF s
  <2> QED BY <2>3, <2>4, <2>7
<1>2. CASE DeleteSource(j)
  <2>1. /\ Succeeds(j) /\ b.pc = "copied"
        /\ \/ b.copy /\ store' = store
           \/ ~ b.copy /\ store' = [store EXCEPT ![b.src] = Gone]
    BY <1>2, <1>c DEF DeleteSource
  <2>2. JobStepped(j, [b EXCEPT !.pc = "ok", !.done = Promised(b.plan)])
    BY <1>0, <2>1, SucceedsIs
  <2>3. job'[j].done = Total(j)
    <3>1. [b EXCEPT !.pc = "ok", !.done = Promised(b.plan)].done = Promised(b.plan)
      BY <1>a DEF Transfers
    <3> QED BY <1>a, <2>2, <3>1, TotalIs DEF JobStepped
  <2>4. store'[b.dst] = d /\ (~ b.copy => store'[b.src] = Gone)
    BY <1>a, <2>1 DEF StoreOK
  <2>5. ASSUME b.clean PROVE d = [kind |-> b.kind, at |-> b.plan]
    <3>1. b.todo = {}
      BY <1>a, <2>1 DEF JobOK, Shape
    <3>2. d.kind = b.kind /\ DOMAIN d.at = DOMAIN b.plan /\ \A f \in DOMAIN b.plan : d.at[f] = b.plan[f]
      BY <1>b, <2>1, <2>5, <3>1 DEF DestOK, Holds
    <3>3. d = [kind |-> d.kind, at |-> d.at] /\ d.at = [f \in DOMAIN d.at |-> d.at[f]]
      BY <1>a, PlaceIs
    <3>4. b.plan = [f \in DOMAIN b.plan |-> b.plan[f]]
      BY <1>a, ListingFacts
    <3>5. d.at = b.plan
      <4> HIDE DEF d
      <4> QED BY <3>2, <3>3, <3>4
    <3> QED BY <3>2, <3>3, <3>5
  <2> QED BY <2>3, <2>4, <2>5
<1> QED BY <1>1, <1>2

\* A transfer that reports success has reported all the bytes it promised; if no other
\* job and no user touched its places, the destination is exactly what was listed, and
\* the source of a move is gone.
THEOREM SuccessIsComplete == Spec => SuccessComplete
<1>1. Inv /\ [Next]_vars =>
        [\A j \in Jobs :
           job[j].pc # "ok" /\ job'[j].pc = "ok" =>
             /\ job'[j].done = Total(j)
             /\ job[j].clean =>
                  /\ store'[job[j].dst] = [kind |-> job[j].kind, at |-> job[j].plan]
                  /\ ~job[j].copy => store'[job[j].src] = Gone]_vars
  <2> SUFFICES ASSUME Inv, Next, NEW j \in Jobs, job[j].pc # "ok", job'[j].pc = "ok"
               PROVE  /\ job'[j].done = Total(j)
                      /\ job[j].clean =>
                           /\ store'[job[j].dst] = [kind |-> job[j].kind, at |-> job[j].plan]
                           /\ ~job[j].copy => store'[job[j].src] = Gone
    OBVIOUS
  <2>1. Rename(j) \/ DeleteSource(j)
    BY SucceedsOnly DEF Inv
  <2> QED BY <2>1, SuccessStep
<1> QED BY <1>1, InvAlways, PTL DEF Spec, SuccessComplete
=============================================================================
