----------------------------- MODULE TreeProofs ------------------------------
(***************************************************************************)
(* Proofs about the tree a user sees.                                      *)
(*                                                                         *)
(* MountTable, for any number of points, any names and any files: type     *)
(* correctness, that an accepted configuration always builds, that what    *)
(* users may not write is never changed through the tree, that an emulated *)
(* rename never loses the file, that the tree can be walked, and that the  *)
(* resolvers agree on every path.                                          *)
(*                                                                         *)
(* VfsCache, which keeps the operators of built trees, for any number of   *)
(* points, requests, configurations and invalidations: type correctness,   *)
(* that the background refresh is a single flight, and that at most one    *)
(* operator is cached.                                                     *)
(***************************************************************************)
EXTENDS MountTable, VfsCache, FoldTheorems

-----------------------------------------------------------------------------
(* MountTable *)

\* Names: a text and the suffixes appended to it.
Words == Texts \cup Range(Ids) \cup {"", "..", "twin"}
Tags == [id : Words, k : Nat]
AllNames == [text : Words, sfx : Seq(Tags)]
PointRecords == [id : Range(Ids), name : AllNames, kind : Kinds]
Contents == Range(Ids) \cup {None, "new", "torn"}
Ops == [kind : {"write", "delete", "copy", "rename"}, from : Range(Ids) \X Files,
        to : Range(Ids) \X Files, old : Contents,
        pc : {"native", "read", "write", "delete", "done"}]

Typed ==
  /\ points \in Seq(PointRecords) /\ Len(points) <= Len(Ids)
  /\ \A i \in DOMAIN points : points[i].id = Ids[i]
  /\ op = NoOp \/ op \in Ops

\* `names` holds the name of every point in its namespace, and no more names than
\* there are points: among more suffixes than that, one is free.
Key(p) == <<IsRepo(p), p.name>>
Recorded ==
  /\ \A i \in DOMAIN points : Key(points[i]) \in names
  /\ IsFiniteSet(names) /\ Cardinality(names) <= Len(points)
\* No two points have one name in one namespace.
Distinct == \A i, j \in DOMAIN points : Key(points[i]) = Key(points[j]) => i = j

\* Files and operations come after the configuration.
Phases ==
  /\ phase # "serving" => store = InitStore /\ op = NoOp
  /\ phase \in {"draft", "accepted"} => DOMAIN mounts = {}

\* An operation is between mounts; a native one within one.
Between ==
  op # NoOp =>
    /\ op.from[1] \in CanMount /\ op.to[1] \in CanMount
    /\ op.pc = "native" => op.from[1] = op.to[1]

Content(at) == store[at[1]][at[2]]
\* Where the file of a rename is.
Renaming ==
  op.kind = "rename" =>
    /\ op.from # op.to
    /\ op.pc \in {"native", "read", "write"} => Content(op.from) = op.old
    /\ op.pc = "delete" => Content(op.to) = op.old
    /\ op.pc = "done" => op.old \in {Content(op.from), Content(op.to)}

ConfigInv == TypeOK /\ Typed /\ Recorded /\ Distinct /\ Phases
OpInv == Between /\ ReadOnlyKept /\ Renaming
Inv == ConfigInv /\ BuildNeverFails /\ OpInv

-----------------------------------------------------------------------------
(* Names *)

LEMMA SegType == ASSUME NEW t \in Words PROVE Seg(t) \in AllNames
BY DEF Seg, AllNames

LEMMA SuffixedType ==
  ASSUME NEW n \in AllNames, NEW id \in Range(Ids), NEW k \in Nat
  PROVE  /\ Suffixed(n, id, k) \in AllNames
         /\ Suffixed(n, id, k).sfx
              = Append(n.sfx, [id |-> IF k < PrefixLens /\ id \in Twins THEN "twin" ELSE id,
                               k |-> k])
<1> DEFINE tag == [id |-> IF k < PrefixLens /\ id \in Twins THEN "twin" ELSE id, k |-> k]
<1>1. id \in Words /\ "twin" \in Words
  BY DEF Words
<1>2. tag \in Tags
  BY <1>1 DEF Tags
<1>3. n = [text |-> n.text, sfx |-> n.sfx] /\ n.text \in Words /\ n.sfx \in Seq(Tags)
  BY DEF AllNames
<1>4. Suffixed(n, id, k) = [n EXCEPT !.sfx = Append(n.sfx, tag)]
  BY DEF Suffixed
<1> HIDE DEF tag
<1>5. Append(n.sfx, tag) \in Seq(Tags)
  BY <1>2, <1>3
<1> QED BY <1>3, <1>4, <1>5 DEF AllNames, tag

\* The suffixes a name is offered are different.
LEMMA SuffixedInjective ==
  ASSUME NEW n \in AllNames, NEW id \in Range(Ids), NEW k \in Nat, NEW l \in Nat,
         Suffixed(n, id, k) = Suffixed(n, id, l)
  PROVE  k = l
<1> DEFINE tag(i) == [id |-> IF i < PrefixLens /\ id \in Twins THEN "twin" ELSE id, k |-> i]
<1>1. Append(n.sfx, tag(k)) = Append(n.sfx, tag(l))
  BY SuffixedType
<1>2. n.sfx \in Seq(Tags)
  BY DEF AllNames
<1>3. tag(k).k = k /\ tag(l).k = l
  OBVIOUS
<1> HIDE DEF tag
<1>4. tag(k) = tag(l)
  BY <1>1, <1>2
<1> QED BY <1>3, <1>4

LEMMA SentType == SentNames \subseteq AllNames
<1>1. "" \in Words /\ ".." \in Words /\ Texts \subseteq Words /\ 1 \in Nat
  BY DEF Words
<1>2. Empty \in AllNames /\ Up \in AllNames /\ \A t \in Texts : Seg(t) \in AllNames
  BY <1>1, SegType DEF Empty, Up
<1>3. \A t \in Texts, id \in Range(Ids) : Suffixed(Seg(t), id, 1) \in AllNames
  BY <1>1, <1>2, SuffixedType
<1> QED BY <1>2, <1>3 DEF SentNames

\* Of more suffixes than there are names, the first free one exists.
Free(repo, n, id, k) == <<repo, Suffixed(n, id, k)>> \notin names
FirstFree(repo, n, id, k) ==
  Free(repo, n, id, k) /\ \A j \in 1 .. k - 1 : ~ Free(repo, n, id, j)

LEMMA SomeFree ==
  ASSUME points \in Seq(PointRecords), IsFiniteSet(names), Cardinality(names) <= Len(points),
         NEW repo \in BOOLEAN, NEW n \in AllNames, NEW id \in Range(Ids)
  PROVE  \E k \in 1 .. PrefixLens + Len(points) : FirstFree(repo, n, id, k)
<1> DEFINE N == PrefixLens + Len(points)
           T == {k \in 1 .. N : Free(repo, n, id, k)}
           f == [k \in 1 .. N |-> <<repo, Suffixed(n, id, k)>>]
<1>1. PrefixLens \in Nat \ {0} /\ Len(points) \in Nat /\ Cardinality(names) \in Nat
  BY MountAssumption, FS_CardinalityType
<1>2. N \in Nat /\ N > Cardinality(names) /\ 1 \in Int /\ N \in Int
  BY <1>1
<1>3. \A k, l \in 1 .. N : f[k] = f[l] => k = l
  BY <1>2, SuffixedInjective
<1> HIDE DEF N
<1>4. IsFiniteSet(1 .. N) /\ Cardinality(1 .. N) = N
  BY <1>1, <1>2, FS_Interval
<1>5. T # {}
  <2> SUFFICES ASSUME T = {} PROVE FALSE
    OBVIOUS
  <2>1. f \in [1 .. N -> names]
    BY DEF Free
  <2> HIDE DEF f
  <2>2. \E x, y \in 1 .. N : x # y /\ f[x] = f[y]
    BY <1>2, <1>4, <2>1, FS_PigeonHole
  <2> QED BY <1>3, <2>2
<1>6. T \in SUBSET Nat
  BY <1>2
<1>7. PICK k \in T : \A y \in T : k <= y
  BY <1>5, <1>6, LeastNatural
<1>8. \A j \in 1 .. k - 1 : j \in 1 .. N /\ j \notin T
  BY <1>2, <1>7
<1> QED BY <1>7, <1>8 DEF FirstFree, N

-----------------------------------------------------------------------------
(* The configuration *)

LEMMA InvInit == Init => Inv
<1> SUFFICES ASSUME Init PROVE Inv
  OBVIOUS
<1>1. /\ phase = "draft" /\ points = <<>> /\ names = {} /\ DOMAIN mounts = {}
      /\ store = InitStore /\ op = NoOp
  BY DEF Init
<1>2. points \in Seq(PointRecords) /\ Len(points) = 0 /\ DOMAIN points = {}
  BY <1>1
<1>3. op.kind = None
  BY <1>1 DEF NoOp
<1>4. TypeOK
  BY <1>1, <1>2, <1>3 DEF TypeOK, InitStore, None
<1>5. Len(Ids) \in Nat
  BY MountAssumption
<1>6. Typed
  BY <1>1, <1>2, <1>5 DEF Typed
<1>7. Recorded
  BY <1>1, <1>2, FS_EmptySet DEF Recorded
<1>8. Distinct /\ Phases /\ BuildNeverFails
  BY <1>1, <1>2 DEF Distinct, Phases, BuildNeverFails
<1>9. OpInv
  BY <1>1, <1>2, <1>3 DEF OpInv, Between, ReadOnlyKept, Renaming, None
<1> QED BY <1>4, <1>6, <1>7, <1>8, <1>9 DEF Inv, ConfigInv

\* Before operations are served, the invariants about them hold.
LEMMA NothingYet ==
  ASSUME op' = NoOp, store' = InitStore
  PROVE  OpInv'
<1>1. op'.kind = None
  BY DEF NoOp
<1> QED BY <1>1 DEF OpInv, Between, ReadOnlyKept, Renaming, None

LEMMA PointsType ==
  ASSUME Typed
  PROVE  /\ DOMAIN points = 1 .. Len(points) /\ Len(points) \in Nat /\ Len(Ids) \in Nat
         /\ DOMAIN Ids = 1 .. Len(Ids)
         /\ \A i \in DOMAIN points :
              points[i] \in PointRecords /\ i \in DOMAIN Ids /\ points[i].id = Ids[i]
<1>1. points \in Seq(PointRecords) /\ Ids \in Seq(STRING) /\ Len(points) <= Len(Ids)
  BY MountAssumption DEF Typed
<1>2. /\ DOMAIN points = 1 .. Len(points) /\ Len(points) \in Nat /\ Len(Ids) \in Nat
      /\ DOMAIN Ids = 1 .. Len(Ids)
  BY <1>1
<1>3. \A i \in DOMAIN points : points[i] \in PointRecords
  BY <1>1
<1> QED BY <1>1, <1>2, <1>3 DEF Typed

LEMMA RejectKeeps ==
  ASSUME Inv, NEW n, Reject(n)
  PROVE  Inv'
<1>1. /\ phase = "draft" /\ phase' = "draft" /\ points' = <<>> /\ names' = {}
      /\ UNCHANGED <<mounts, store, op>>
  BY DEF Reject
<1>2. store' = InitStore /\ op' = NoOp /\ DOMAIN mounts' = {}
  BY <1>1 DEF Inv, ConfigInv, Phases
<1>3. points' \in Seq(PointRecords) /\ Len(points') = 0 /\ DOMAIN points' = {}
  BY <1>1
<1>4. TypeOK'
  BY <1>1, <1>2, <1>3 DEF Inv, ConfigInv, TypeOK
<1>5. Typed'
  BY <1>2, <1>3, MountAssumption DEF Typed
<1>6. Recorded'
  BY <1>1, <1>3, FS_EmptySet DEF Recorded
<1>7. Distinct' /\ Phases' /\ BuildNeverFails'
  BY <1>1, <1>2, <1>3 DEF Distinct, Phases, BuildNeverFails
<1> QED BY <1>2, <1>4, <1>5, <1>6, <1>7, NothingYet DEF Inv, ConfigInv

\* The name normalize_vfs_users gives to the next point.
AssignedName(name, kind) ==
  LET id == Ids[Len(points) + 1]
      repo == kind = "repo"
      free(k) == <<repo, Suffixed(name, id, k)>> \notin names
      k == CHOOSE i \in 1 .. PrefixLens + Len(points) :
             free(i) /\ \A j \in 1 .. i - 1 : ~free(j)
  IN IF <<repo, name>> \notin names THEN name ELSE Suffixed(name, id, k)

LEMMA AssignedIsFree ==
  ASSUME Typed, Recorded, Len(points) < Len(Ids), NEW n \in AllNames, NEW kind \in Kinds
  PROVE  /\ AssignedName(n, kind) \in AllNames
         /\ <<kind = "repo", AssignedName(n, kind)>> \notin names
<1> DEFINE id == Ids[Len(points) + 1]
           repo == kind = "repo"
           N == PrefixLens + Len(points)
           k == CHOOSE i \in 1 .. N : FirstFree(repo, n, id, i)
<1>1. id \in Range(Ids)
  BY PointsType DEF Range
<1>2. repo \in BOOLEAN
  OBVIOUS
<1>3. AssignedName(n, kind) = IF <<repo, n>> \notin names THEN n ELSE Suffixed(n, id, k)
  BY DEF AssignedName, FirstFree, Free
<1> HIDE DEF id, repo
<1>4. \E i \in 1 .. N : FirstFree(repo, n, id, i)
  BY <1>1, <1>2, SomeFree DEF Typed, Recorded
<1>5. k \in 1 .. N /\ FirstFree(repo, n, id, k)
  BY <1>4
<1>6. k \in Nat
  BY <1>5, MountAssumption
<1> HIDE DEF k
<1>7. Suffixed(n, id, k) \in AllNames
  BY <1>1, <1>6, SuffixedType
<1>8. <<repo, Suffixed(n, id, k)>> \notin names
  BY <1>5 DEF FirstFree, Free
<1>9. AssignedName(n, kind) \in AllNames /\ <<repo, AssignedName(n, kind)>> \notin names
  BY <1>3, <1>7, <1>8
<1> QED BY <1>9 DEF repo

LEMMA AcceptKeeps ==
  ASSUME Inv, NEW n \in SentNames, NEW kind \in Kinds, Accept(n, kind)
  PROVE  Inv'
<1> DEFINE new == AssignedName(n, kind)
           p == [id |-> Ids[Len(points) + 1], name |-> new, kind |-> kind]
           L == Len(points)
<1>0. TypeOK /\ Typed /\ Recorded /\ Distinct /\ Phases
  BY DEF Inv, ConfigInv
<1>1. /\ phase = "draft" /\ phase' = "draft" /\ L < Len(Ids)
      /\ points' = Append(points, p)
      /\ names' = names \cup {<<kind = "repo", new>>}
      /\ UNCHANGED <<mounts, store, op>>
  BY DEF Accept, AssignedName
<1>2. store' = InitStore /\ op' = NoOp /\ DOMAIN mounts' = {}
  BY <1>0, <1>1 DEF Phases
<1>3. new \in AllNames /\ <<kind = "repo", new>> \notin names
  BY <1>0, <1>1, SentType, AssignedIsFree
<1> HIDE DEF new
<1>4. Ids[L + 1] \in Range(Ids) /\ L \in Nat /\ points \in Seq(PointRecords)
      /\ DOMAIN points = 1 .. L /\ Len(Ids) \in Nat
  BY <1>0, <1>1, PointsType DEF Range, Typed
<1>5. p \in PointRecords /\ p.id = Ids[L + 1] /\ p.kind = kind /\ p.name = new
      /\ Key(p) = <<kind = "repo", new>>
  BY <1>3, <1>4 DEF PointRecords, Key, IsRepo
<1> HIDE DEF p
<1>6. /\ points' \in Seq(PointRecords) /\ Len(points') = L + 1 /\ DOMAIN points' = 1 .. L + 1
      /\ points'[L + 1] = p /\ \A i \in 1 .. L : points'[i] = points[i]
  BY <1>1, <1>4, <1>5
<1> HIDE DEF L
<1>7. \A i \in DOMAIN points' : points'[i].id = Ids[i] /\ points'[i].kind \in Kinds
  <2> SUFFICES ASSUME NEW i \in DOMAIN points'
               PROVE  points'[i].id = Ids[i] /\ points'[i].kind \in Kinds
    OBVIOUS
  <2>1. CASE i = L + 1
    BY <1>5, <1>6, <2>1
  <2>2. CASE i \in 1 .. L
    BY <1>0, <1>4, <1>6, <2>2 DEF TypeOK
  <2> QED BY <1>4, <1>6, <2>1, <2>2
<1>8. TypeOK'
  <2>1. points' # <<>>
    BY <1>4, <1>6
  <2>2. \A x \in names' : x[1] \in BOOLEAN
    <3>1. (kind = "repo") \in BOOLEAN
      OBVIOUS
    <3>2. <<kind = "repo", new>>[1] \in BOOLEAN
      BY <3>1
    <3> QED BY <1>0, <1>1, <3>2 DEF TypeOK
  <2> QED BY <1>0, <1>1, <1>2, <1>7, <2>1, <2>2 DEF TypeOK
<1>9. Typed'
  BY <1>1, <1>2, <1>4, <1>6, <1>7 DEF Typed, L
<1>10. Recorded'
  <2>1. IsFiniteSet(names') /\ Cardinality(names') <= L + 1
    <3>1. IsFiniteSet(names) /\ Cardinality(names) \in Nat /\ Cardinality(names) <= L
      BY <1>0, FS_CardinalityType DEF Recorded, L
    <3>2. /\ IsFiniteSet(names \cup {<<kind = "repo", new>>})
          /\ Cardinality(names \cup {<<kind = "repo", new>>}) = Cardinality(names) + 1
      BY <1>3, <3>1, FS_AddElement
    <3> QED BY <1>1, <1>4, <3>1, <3>2 DEF L
  <2>2. \A i \in DOMAIN points' : Key(points'[i]) \in names'
    <3> SUFFICES ASSUME NEW i \in DOMAIN points' PROVE Key(points'[i]) \in names'
      OBVIOUS
    <3>1. CASE i = L + 1
      BY <1>1, <1>5, <1>6, <3>1
    <3>2. CASE i \in 1 .. L
      <4>1. points'[i] = points[i] /\ Key(points[i]) \in names
        BY <1>0, <1>4, <1>6, <3>2 DEF Recorded
      <4> QED BY <1>1, <4>1
    <3> QED BY <1>4, <1>6, <3>1, <3>2
  <2> QED BY <1>6, <2>1, <2>2 DEF Recorded, Key
<1>11. Distinct'
  <2> SUFFICES ASSUME NEW i \in DOMAIN points', NEW j \in DOMAIN points',
                      Key(points'[i]) = Key(points'[j])
               PROVE  i = j
    BY DEF Distinct, Key
  <2>1. Key(points'[L + 1]) \notin names
    BY <1>3, <1>5, <1>6
  <2>2. \A x \in 1 .. L : Key(points'[x]) = Key(points[x]) /\ Key(points[x]) \in names
    BY <1>0, <1>4, <1>6 DEF Recorded
  <2>3. CASE i \in 1 .. L /\ j \in 1 .. L
    BY <1>0, <1>4, <2>2, <2>3 DEF Distinct
  <2>4. CASE i = L + 1 /\ j \in 1 .. L
    BY <2>1, <2>2, <2>4
  <2>5. CASE i \in 1 .. L /\ j = L + 1
    BY <2>1, <2>2, <2>5
  <2>6. i \in 1 .. L \/ i = L + 1
    BY <1>4, <1>6
  <2>7. j \in 1 .. L \/ j = L + 1
    BY <1>4, <1>6
  <2> QED BY <2>3, <2>4, <2>5, <2>6, <2>7
<1>12. Phases' /\ BuildNeverFails'
  BY <1>1, <1>2 DEF Phases, BuildNeverFails
<1> QED BY <1>2, <1>8, <1>9, <1>10, <1>11, <1>12, NothingYet DEF Inv, ConfigInv

LEMMA CommitKeeps == ASSUME Inv, Commit PROVE Inv'
<1>1. phase = "draft" /\ phase' = "accepted" /\ UNCHANGED <<points, names, mounts, store, op>>
  BY DEF Commit, configVars
<1>2. store' = InitStore /\ op' = NoOp /\ DOMAIN mounts' = {}
  BY <1>1 DEF Inv, ConfigInv, Phases
<1>3. TypeOK' /\ Typed' /\ Recorded' /\ Distinct'
  BY <1>1 DEF Inv, ConfigInv, TypeOK, Typed, Recorded, Distinct, Key
<1>4. Phases' /\ BuildNeverFails'
  BY <1>1, <1>2 DEF Phases, BuildNeverFails
<1> QED BY <1>2, <1>3, <1>4, NothingYet DEF Inv, ConfigInv

\* Different points are mounted at different paths.
LEMMA SamePath ==
  ASSUME Distinct, NEW i \in DOMAIN points, NEW j \in DOMAIN points,
         PointMountPath(points[i]) = PointMountPath(points[j])
  PROVE  i = j
<1>1. RootOf(points[i]) = RootOf(points[j]) /\ points[i].name = points[j].name
  BY DEF PointMountPath
<1>2. IsRepo(points[i]) <=> IsRepo(points[j])
  <2>1. "repos" # "points"
    OBVIOUS
  <2>2. RootOf(points[i]).text = RootOf(points[j]).text
    BY <1>1
  <2>3. \A q : RootOf(q).text = IF IsRepo(q) THEN "repos" ELSE "points"
    BY DEF RootOf, Seg
  <2> QED BY <2>1, <2>2, <2>3
<1>3. IsRepo(points[i]) \in BOOLEAN /\ IsRepo(points[j]) \in BOOLEAN
  BY DEF IsRepo
<1>4. Key(points[i]) = Key(points[j])
  BY <1>1, <1>2, <1>3 DEF Key
<1> QED BY <1>4 DEF Distinct

LEMMA BuildKeeps ==
  ASSUME Inv, NEW loaded, Build(loaded)
  PROVE  Inv'
<1> DEFINE at(m) == {q \in Pending(loaded) : PointMountPath(q) = m}
           paths == {PointMountPath(q) : q \in Pending(loaded)}
<1>0. TypeOK /\ Typed /\ Recorded /\ Distinct /\ Phases
  BY DEF Inv, ConfigInv
<1>1. \A q \in Pending(loaded) : \E i \in DOMAIN points : q = points[i]
  BY DEF Pending
<1>2. \A m : \A q, r \in at(m) : q = r
  <2> SUFFICES ASSUME NEW q \in Pending(loaded), NEW r \in Pending(loaded),
                      PointMountPath(q) = PointMountPath(r)
               PROVE  q = r
    OBVIOUS
  <2>1. PICK i \in DOMAIN points : q = points[i]
    BY <1>1
  <2>2. PICK j \in DOMAIN points : r = points[j]
    BY <1>1
  <2> QED BY <1>0, <2>1, <2>2, SamePath
<1>3. ~ \E m \in paths : \E q, r \in at(m) : q # r
  BY <1>2
<1>4. /\ phase = "accepted" /\ UNCHANGED <<points, names, store, op>>
      /\ IF \E m \in paths : \E q, r \in at(m) : q # r
         THEN phase' = "build_failed" /\ UNCHANGED mounts
         ELSE phase' = "built" /\ mounts' = [m \in paths |-> Mount(CHOOSE q \in at(m) : TRUE)]
  BY DEF Build
<1>5. phase' = "built" /\ mounts' = [m \in paths |-> Mount(CHOOSE q \in at(m) : TRUE)]
  BY <1>3, <1>4
<1>6. store' = InitStore /\ op' = NoOp
  BY <1>0, <1>4 DEF Phases
<1>7. \A m \in DOMAIN mounts' :
        \E i \in DOMAIN points : PointMountPath(points[i]) = m /\ mounts'[m] = Mount(points[i])
  <2> SUFFICES ASSUME NEW m \in paths
               PROVE  \E i \in DOMAIN points :
                        PointMountPath(points[i]) = m /\ mounts'[m] = Mount(points[i])
    BY <1>5
  <2> DEFINE q == CHOOSE q \in at(m) : TRUE
  <2>1. at(m) # {}
    OBVIOUS
  <2>2. q \in at(m)
    BY <2>1
  <2>3. mounts'[m] = Mount(q)
    BY <1>5
  <2> HIDE DEF q
  <2>4. q \in Pending(loaded) /\ PointMountPath(q) = m
    BY <2>2
  <2> QED BY <1>1, <2>3, <2>4
<1>8. TypeOK'
  <2>1. phase' = "built" /\ UNCHANGED <<points, names, store, op>>
    BY <1>4, <1>5
  <2>2. (\A m \in DOMAIN mounts : \E i \in DOMAIN points :
           PointMountPath(points[i]) = m /\ mounts[m] = Mount(points[i]))'
    BY <1>7, <2>1 DEF PointMountPath, RootOf, IsRepo, Mount, IsUserWritable
  <2> QED BY <1>0, <2>1, <2>2 DEF TypeOK
<1>9. Typed' /\ Recorded' /\ Distinct'
  BY <1>0, <1>4 DEF Typed, Recorded, Distinct, Key
<1>10. Phases' /\ BuildNeverFails'
  BY <1>5, <1>6 DEF Phases, BuildNeverFails
<1> QED BY <1>6, <1>8, <1>9, <1>10, NothingYet DEF Inv, ConfigInv

LEMMA ServeKeeps == ASSUME Inv, Serve PROVE Inv'
<1>1. phase = "built" /\ phase' = "serving" /\ UNCHANGED <<points, names, mounts, store, op>>
  BY DEF Serve, configVars
<1>2. store' = InitStore /\ op' = NoOp
  BY <1>1 DEF Inv, ConfigInv, Phases
<1>3. TypeOK' /\ Typed' /\ Recorded' /\ Distinct'
  BY <1>1 DEF Inv, ConfigInv, TypeOK, Typed, Recorded, Distinct, Key
<1>4. Phases' /\ BuildNeverFails'
  BY <1>1, <1>2 DEF Phases, BuildNeverFails
<1> QED BY <1>2, <1>3, <1>4, NothingYet DEF Inv, ConfigInv

-----------------------------------------------------------------------------
(* Operations on the tree *)

\* The mount of an id is the mount of its point.
LEMMA MountOfPoint ==
  ASSUME TypeOK, Typed, NEW id \in CanMount
  PROVE  \E i \in DOMAIN points : id = points[i].id /\ Mounted(id) = Mount(points[i])
<1>1. PICK m \in DOMAIN mounts : mounts[m].id = id
  BY DEF CanMount
<1>2. PICK i \in DOMAIN points : PointMountPath(points[i]) = m /\ mounts[m] = Mount(points[i])
  BY DEF TypeOK
<1>3. id = points[i].id
  BY <1>1, <1>2 DEF Mount
<1>4. \A j \in DOMAIN points : points[j].id = id => j = i
  BY <1>3, PointsType, MountAssumption
<1>5. PointById(id) = points[i]
  BY <1>3, <1>4 DEF PointById
<1> QED BY <1>2, <1>3, <1>5 DEF Mounted

\* Behind a mount without the read-only layer is a point users may write, and no
\* other point has its files.
LEMMA WritableMount ==
  ASSUME TypeOK, Typed, NEW id \in CanMount, ~ Mounted(id).layer, NEW i \in DOMAIN points,
         ~ IsUserWritable(points[i])
  PROVE  points[i].id # id
<1>1. PICK j \in DOMAIN points : id = points[j].id /\ Mounted(id) = Mount(points[j])
  BY MountOfPoint
<1>2. IsUserWritable(points[j])
  <2>1. Mount(points[j]).layer = ~ IsUserWritable(points[j])
    BY DEF Mount
  <2> QED BY <1>1, <2>1
<1>3. points[i].id = id => i = j
  BY <1>1, PointsType, MountAssumption
<1> QED BY <1>2, <1>3

\* A step of an operation leaves the configuration alone.
LEMMA ConfigKept ==
  ASSUME Inv, op # NoOp \/ phase = "serving", UNCHANGED <<phase, configVars>>,
         store' \in [Range(Ids) -> [Files -> Contents]], op' = NoOp \/ op' \in Ops
  PROVE  ConfigInv' /\ BuildNeverFails' /\ CanMount' = CanMount
<1>1. phase = "serving" /\ UNCHANGED <<phase, points, names, mounts>>
  BY DEF Inv, ConfigInv, Phases, configVars
<1>2. op'.kind \in {None, "write", "delete", "copy", "rename"}
  BY DEF Ops, NoOp
<1>3. TypeOK'
  BY <1>1, <1>2 DEF Inv, ConfigInv, TypeOK, Contents, PointMountPath, RootOf, Mount
<1>4. Typed' /\ Recorded' /\ Distinct'
  BY <1>1 DEF Inv, ConfigInv, Typed, Recorded, Distinct, Key
<1>5. Phases' /\ BuildNeverFails' /\ CanMount' = CanMount
  BY <1>1 DEF Phases, BuildNeverFails, CanMount
<1> QED BY <1>3, <1>4, <1>5 DEF ConfigInv

Stores == [Range(Ids) -> [Files -> Contents]]
Ats == Range(Ids) \X Files

LEMMA PutType ==
  ASSUME store \in Stores, NEW at \in Ats, NEW c \in Contents, Put(at, c)
  PROVE  /\ store' \in Stores /\ store'[at[1]][at[2]] = c
         /\ \A b \in Ats : b # at => store'[b[1]][b[2]] = store[b[1]][b[2]]
         /\ \A x \in Range(Ids) : x # at[1] => store'[x] = store[x]
<1>1. at[1] \in Range(Ids) /\ at[2] \in Files /\ at = <<at[1], at[2]>>
  BY DEF Ats
<1>2. store' = [store EXCEPT ![at[1]] = [store[at[1]] EXCEPT ![at[2]] = c]]
  BY DEF Put
<1>3. store' \in Stores /\ store'[at[1]][at[2]] = c
      /\ \A x \in Range(Ids) : x # at[1] => store'[x] = store[x]
  BY <1>1, <1>2 DEF Stores
<1>4. \A x \in Range(Ids), f \in Files :
        x # at[1] \/ f # at[2] => store'[x][f] = store[x][f]
  BY <1>1, <1>2 DEF Stores
<1>5. \A b \in Ats : /\ b[1] \in Range(Ids) /\ b[2] \in Files
                     /\ b # at => b[1] # at[1] \/ b[2] # at[2]
  BY <1>1 DEF Ats
<1> QED BY <1>3, <1>4, <1>5

\* What an operation under way looks like.
LEMMA Active ==
  ASSUME Inv, op.pc # "idle"
  PROVE  /\ op \in Ops /\ op # NoOp /\ phase = "serving"
         /\ op.from \in Ats /\ op.to \in Ats /\ op.old \in Contents
         /\ op.from[1] \in CanMount /\ op.to[1] \in CanMount /\ store \in Stores
<1>1. op # NoOp
  BY DEF NoOp
<1>2. op \in Ops /\ phase = "serving"
  BY <1>1 DEF Inv, ConfigInv, Typed, Phases
<1>3. op.from \in Ats /\ op.to \in Ats /\ op.old \in Contents
  BY <1>2 DEF Ops, Ats
<1> QED BY <1>1, <1>2, <1>3 DEF Inv, ConfigInv, TypeOK, OpInv, Between, Stores, Contents

\* A step to another place in the same operation.
LEMMA OpStep ==
  ASSUME op \in Ops, NEW label \in {"native", "read", "write", "delete", "done"}, OpGoto(label)
  PROVE  /\ op' \in Ops /\ op'.pc = label /\ op'.kind = op.kind /\ op'.from = op.from
         /\ op'.to = op.to /\ op'.old = op.old /\ op' # NoOp
<1>1. /\ op' \in Ops /\ op'.pc = label /\ op'.kind = op.kind /\ op'.from = op.from
      /\ op'.to = op.to /\ op'.old = op.old
  BY DEF OpGoto, Ops
<1>2. op' # NoOp
  BY <1>1 DEF NoOp
<1> QED BY <1>1, <1>2

\* Files of points users may write change, and no others.
LEMMA ReadOnlyStays ==
  ASSUME TypeOK, Typed, ReadOnlyKept, NEW id \in CanMount, ~ Mounted(id).layer, points' = points,
         \A x \in Range(Ids) : x # id => store'[x] = store[x]
  PROVE  ReadOnlyKept'
<1> SUFFICES ASSUME NEW i \in DOMAIN points, ~ IsUserWritable(points[i])
             PROVE  store'[points[i].id] = InitStore[points[i].id]
  BY DEF ReadOnlyKept, IsUserWritable
<1>1. points[i].id # id
  BY WritableMount
<1>2. points[i].id \in Range(Ids)
  BY PointsType DEF PointRecords
<1> QED BY <1>1, <1>2 DEF ReadOnlyKept

\* The end of the proof for a step within an operation.
LEMMA StepKeeps ==
  ASSUME Inv, op.pc # "idle", NEW label \in {"read", "write", "delete", "done"}, OpGoto(label),
         UNCHANGED <<phase, configVars>>, store' \in Stores, ReadOnlyKept',
         op.kind = "rename" =>
           /\ label \in {"read", "write"} => store'[op.from[1]][op.from[2]] = op.old
           /\ label = "delete" => store'[op.to[1]][op.to[2]] = op.old
           /\ label = "done" =>
                op.old \in {store'[op.from[1]][op.from[2]], store'[op.to[1]][op.to[2]]}
  PROVE  Inv'
<1>1. /\ op \in Ops /\ op # NoOp /\ op.from[1] \in CanMount /\ op.to[1] \in CanMount
  BY Active
<1>2. /\ op' \in Ops /\ op'.pc = label /\ op'.kind = op.kind /\ op'.from = op.from
      /\ op'.to = op.to /\ op'.old = op.old /\ op' # NoOp
  BY <1>1, OpStep
<1>3. ConfigInv' /\ BuildNeverFails' /\ CanMount' = CanMount
  BY <1>1, <1>2, ConfigKept DEF Stores
<1>4. Between'
  BY <1>1, <1>2, <1>3 DEF Between
<1>5. Renaming'
  BY <1>2 DEF Inv, OpInv, Renaming, Content
<1> QED BY <1>3, <1>4, <1>5 DEF Inv, OpInv

LEMMA ReadOnlySame == ASSUME Inv, UNCHANGED <<points, store>> PROVE ReadOnlyKept'
BY DEF Inv, OpInv, ReadOnlyKept, IsUserWritable

LEMMA FailKeeps == ASSUME Inv, Fail PROVE Inv'
<1>1. /\ op.pc \notin {"idle", "done"} /\ OpGoto("done") /\ UNCHANGED <<phase, configVars, store>>
  BY DEF Fail
<1>2. op \in Ops /\ store' \in Stores
  BY <1>1, Active
<1>3. ReadOnlyKept'
  BY <1>1, ReadOnlySame DEF configVars
<1>4. op.kind = "rename" =>
        op.old \in {store'[op.from[1]][op.from[2]], store'[op.to[1]][op.to[2]]}
  BY <1>1, <1>2 DEF Inv, OpInv, Renaming, Content, Ops
<1> QED BY <1>1, <1>2, <1>3, <1>4, StepKeeps

LEMMA ReadKeeps == ASSUME Inv, Read PROVE Inv'
<1>1. op.pc = "read" /\ OpGoto("write") /\ UNCHANGED <<phase, configVars, store>>
  BY DEF Read
<1>2. store' \in Stores
  BY <1>1, Active
<1>3. ReadOnlyKept'
  BY <1>1, ReadOnlySame DEF configVars
<1>4. op.kind = "rename" => store'[op.from[1]][op.from[2]] = op.old
  BY <1>1 DEF Inv, OpInv, Renaming, Content
<1> QED BY <1>1, <1>2, <1>3, <1>4, StepKeeps

LEMMA DeleteKeeps == ASSUME Inv, Delete PROVE Inv'
<1>0. TypeOK /\ Typed /\ ReadOnlyKept
  BY DEF Inv, ConfigInv, OpInv
<1>1. /\ op.pc = "delete" /\ ~ Mounted(op.from[1]).layer /\ Put(op.from, None) /\ OpGoto("done")
      /\ UNCHANGED <<phase, configVars>>
  BY DEF Delete, Denied
<1>2. /\ op.from \in Ats /\ op.to \in Ats /\ op.from[1] \in CanMount /\ store \in Stores
      /\ op.from[1] \in Range(Ids)
  BY <1>1, Active DEF CanMount
<1>3. None \in Contents
  BY DEF Contents
<1>4. /\ store' \in Stores
      /\ \A b \in Ats : b # op.from => store'[b[1]][b[2]] = store[b[1]][b[2]]
      /\ \A x \in Range(Ids) : x # op.from[1] => store'[x] = store[x]
  BY <1>1, <1>2, <1>3, PutType
<1>5. ReadOnlyKept'
  BY <1>0, <1>1, <1>2, <1>4, ReadOnlyStays DEF configVars
<1>6. op.kind = "rename" => store'[op.to[1]][op.to[2]] = op.old
  BY <1>1, <1>2, <1>4 DEF Inv, OpInv, Renaming, Content
<1> QED BY <1>1, <1>4, <1>5, <1>6, StepKeeps

LEMMA WriteKeeps == ASSUME Inv, Write PROVE Inv'
<1>0. TypeOK /\ Typed /\ ReadOnlyKept
  BY DEF Inv, ConfigInv, OpInv
<1>1. op.pc = "write" /\ ~ Mounted(op.to[1]).layer /\ UNCHANGED <<phase, configVars>>
  BY DEF Write, Denied
<1>2. /\ op.from \in Ats /\ op.to \in Ats /\ op.to[1] \in CanMount /\ store \in Stores
      /\ op.old \in Contents
  BY <1>1, Active
<1>3. "new" \in Contents /\ "torn" \in Contents
  BY DEF Contents
<1>4. ASSUME NEW c \in Contents, Put(op.to, c)
      PROVE  /\ store' \in Stores /\ ReadOnlyKept' /\ store'[op.to[1]][op.to[2]] = c
             /\ op.kind = "rename" => store'[op.from[1]][op.from[2]] = op.old
  <2>1. /\ store' \in Stores /\ store'[op.to[1]][op.to[2]] = c
        /\ \A b \in Ats : b # op.to => store'[b[1]][b[2]] = store[b[1]][b[2]]
        /\ \A x \in Range(Ids) : x # op.to[1] => store'[x] = store[x]
    BY <1>2, <1>4, PutType
  <2>2. ReadOnlyKept'
    BY <1>0, <1>1, <1>2, <2>1, ReadOnlyStays DEF configVars
  <2>3. op.kind = "rename" => store'[op.from[1]][op.from[2]] = op.old
    BY <1>1, <1>2, <2>1 DEF Inv, OpInv, Renaming, Content
  <2> QED BY <2>1, <2>2, <2>3
<1>5. CASE Put(op.to, "torn") /\ OpGoto("done")
  BY <1>1, <1>3, <1>4, <1>5, StepKeeps
<1>6. CASE op.kind = "rename" /\ Put(op.to, op.old) /\ OpGoto("delete")
  BY <1>1, <1>2, <1>4, <1>6, StepKeeps
<1>7. CASE op.kind # "rename" /\ OpGoto("done")
           /\ \E c \in Contents : Put(op.to, c)
  <2>1. PICK c \in Contents : Put(op.to, c)
    BY <1>7
  <2> QED BY <1>1, <1>4, <1>7, <2>1, StepKeeps
<1>8. \/ Put(op.to, "torn") /\ OpGoto("done")
      \/ op.kind = "rename" /\ Put(op.to, op.old) /\ OpGoto("delete")
      \/ op.kind # "rename" /\ OpGoto("done") /\ \E c \in Contents : Put(op.to, c)
  <2>1. CASE Put(op.to, "torn") /\ OpGoto("done")
    BY <2>1
  <2>2. CASE /\ Put(op.to, IF op.kind = "write" THEN "new" ELSE op.old)
             /\ OpGoto(IF op.kind = "rename" THEN "delete" ELSE "done")
    <3>1. CASE op.kind = "rename"
      BY <2>2, <3>1
    <3>2. CASE op.kind = "write"
      BY <1>3, <2>2, <3>2
    <3>3. CASE op.kind \notin {"rename", "write"}
      BY <1>2, <2>2, <3>3
    <3> QED BY <3>1, <3>2, <3>3
  <2> QED BY <2>1, <2>2 DEF Write
<1> QED BY <1>5, <1>6, <1>7, <1>8

LEMMA NativeKeeps == ASSUME Inv, Native PROVE Inv'
<1> DEFINE s == [store EXCEPT ![op.to[1]][op.to[2]] = op.old]
<1>0. TypeOK /\ Typed /\ ReadOnlyKept
  BY DEF Inv, ConfigInv, OpInv
<1>1. /\ op.pc = "native" /\ ~ Mounted(op.from[1]).layer /\ OpGoto("done")
      /\ UNCHANGED <<phase, configVars>>
      /\ store' = IF op.kind = "rename" THEN [s EXCEPT ![op.from[1]][op.from[2]] = None] ELSE s
  BY DEF Native, Denied
<1>2. /\ op.from \in Ats /\ op.to \in Ats /\ op.from[1] \in CanMount /\ store \in Stores
      /\ op.old \in Contents /\ op # NoOp
  BY <1>1, Active
<1>3. op.from[1] = op.to[1]
  BY <1>1, <1>2 DEF Inv, OpInv, Between
<1>4. /\ op.from[1] \in Range(Ids) /\ op.from[2] \in Files /\ op.to[2] \in Files
      /\ op.from = <<op.from[1], op.from[2]>> /\ op.to = <<op.to[1], op.to[2]>>
      /\ None \in Contents
  BY <1>2 DEF Ats, Contents
<1>5. /\ s \in Stores /\ s[op.to[1]][op.to[2]] = op.old
      /\ \A x \in Range(Ids) : x # op.from[1] => s[x] = store[x]
  BY <1>2, <1>3, <1>4 DEF Stores
<1> HIDE DEF s
<1>7. /\ store' \in Stores
      /\ \A x \in Range(Ids) : x # op.from[1] => store'[x] = store[x]
      /\ op.from[2] # op.to[2] => store'[op.to[1]][op.to[2]] = op.old
  BY <1>1, <1>3, <1>4, <1>5 DEF Stores
<1>8. ReadOnlyKept'
  BY <1>0, <1>1, <1>2, <1>7, ReadOnlyStays DEF configVars
<1>9. op.kind = "rename" => store'[op.to[1]][op.to[2]] = op.old
  BY <1>3, <1>4, <1>7 DEF Inv, OpInv, Renaming
<1> QED BY <1>1, <1>7, <1>8, <1>9, StepKeeps

LEMMA StartOpKeeps ==
  ASSUME Inv, NEW kind \in {"write", "delete", "copy", "rename"}, NEW from \in Locations,
         NEW to \in Locations, StartOp(kind, from, to)
  PROVE  Inv'
<1>1. PICK native \in BOOLEAN :
        /\ native => from[1] = to[1] /\ kind \in {"copy", "rename"}
        /\ op' = [kind |-> kind, from |-> from, to |-> to, old |-> store[from[1]][from[2]],
                  pc |-> CASE native -> "native"
                           [] ~native /\ kind \in {"copy", "rename"} -> "read"
                           [] OTHER -> kind]
  BY DEF StartOp
<1>2. /\ phase = "serving" /\ UNCHANGED <<phase, configVars, store>>
      /\ from = to <=> kind \in {"write", "delete"}
  BY DEF StartOp
<1>3. /\ from \in Ats /\ to \in Ats /\ from[1] \in CanMount /\ to[1] \in CanMount
      /\ from[1] \in Range(Ids) /\ from[2] \in Files
  BY DEF Locations, Ats, CanMount
<1>4. store \in Stores
  BY DEF Inv, ConfigInv, TypeOK, Stores, Contents
<1> DEFINE step == CASE native -> "native"
                   [] ~native /\ kind \in {"copy", "rename"} -> "read"
                   [] OTHER -> kind
<1>5. /\ step \in {"native", "read", "write", "delete"}
      /\ step = "native" => native
      /\ kind = "rename" => step \in {"native", "read"}
  <2>1. CASE native
    BY <1>1, <2>1
  <2>2. CASE ~native /\ kind \in {"copy", "rename"}
    BY <2>2
  <2>3. CASE ~native /\ kind \in {"write", "delete"}
    BY <2>3
  <2> QED BY <2>1, <2>2, <2>3
<1> HIDE DEF step
<1>6. /\ op' = [kind |-> kind, from |-> from, to |-> to, old |-> store[from[1]][from[2]], pc |-> step]
      /\ store[from[1]][from[2]] \in Contents
  BY <1>1, <1>3, <1>4 DEF step, Stores
<1>7. /\ op'.kind = kind /\ op'.from = from /\ op'.to = to /\ op'.pc = step
      /\ op'.old = store[from[1]][from[2]] /\ op' \in Ops
  BY <1>3, <1>5, <1>6 DEF Ops, Ats
<1>8. ConfigInv' /\ BuildNeverFails' /\ CanMount' = CanMount
  BY <1>2, <1>4, <1>7, ConfigKept DEF Stores
<1>9. ReadOnlyKept'
  BY <1>2, ReadOnlySame DEF configVars
<1>10. Between'
  BY <1>1, <1>3, <1>5, <1>7, <1>8 DEF Between
<1>11. Renaming'
  <2>1. kind = "rename" => from # to /\ step \in {"native", "read"}
    BY <1>2, <1>5
  <2> QED BY <1>2, <1>7, <2>1 DEF Renaming, Content
<1> QED BY <1>8, <1>9, <1>10, <1>11 DEF Inv, OpInv

LEMMA EndOpKeeps == ASSUME Inv, EndOp PROVE Inv'
<1>1. op.pc = "done" /\ op' = NoOp /\ UNCHANGED <<phase, configVars, store>>
  BY DEF EndOp
<1>2. op # NoOp /\ store \in Stores
  BY <1>1, Active
<1>3. ConfigInv' /\ BuildNeverFails'
  BY <1>1, <1>2, ConfigKept DEF Stores
<1>4. ReadOnlyKept'
  BY <1>1, ReadOnlySame DEF configVars
<1>5. Between' /\ Renaming'
  BY <1>1 DEF Between, Renaming, NoOp, None
<1> QED BY <1>3, <1>4, <1>5 DEF Inv, OpInv

LEMMA StutterKeeps == ASSUME Inv, UNCHANGED vars PROVE Inv'
<1>1. UNCHANGED <<phase, points, names, mounts, store, op>>
  BY DEF vars, configVars
<1>2. ConfigInv' /\ BuildNeverFails'
  BY <1>1 DEF Inv, ConfigInv, BuildNeverFails, TypeOK, Typed, Recorded, Distinct, Key, Phases,
              PointMountPath, RootOf, Mount
<1>3. OpInv'
  BY <1>1 DEF Inv, OpInv, Between, ReadOnlyKept, Renaming, Content, CanMount, IsUserWritable
<1> QED BY <1>2, <1>3 DEF Inv

LEMMA InvStep == Inv /\ [Next]_vars => Inv'
<1> SUFFICES ASSUME Inv, [Next]_vars PROVE Inv'
  OBVIOUS
<1>1. CASE \E name \in SentNames : Reject(name) \/ \E kind \in Kinds : Accept(name, kind)
  BY <1>1, RejectKeeps, AcceptKeeps
<1>2. CASE Commit \/ Serve \/ \E loaded \in SUBSET Range(Ids) : Build(loaded)
  BY <1>2, CommitKeeps, ServeKeeps, BuildKeeps
<1>3. CASE \E kind \in {"write", "delete", "copy", "rename"}, from, to \in Locations :
             StartOp(kind, from, to)
  BY <1>3, StartOpKeeps
<1>4. CASE Fail \/ Native \/ Read \/ Write \/ Delete \/ EndOp
  BY <1>4, FailKeeps, NativeKeeps, ReadKeeps, WriteKeeps, DeleteKeeps, EndOpKeeps
<1>5. CASE UNCHANGED vars
  BY <1>5, StutterKeeps
<1> QED BY <1>1, <1>2, <1>3, <1>4, <1>5 DEF Next

LEMMA RenameIsKept == Inv => RenameKeepsData
<1> SUFFICES ASSUME Inv, op.kind = "rename" PROVE RenameKeepsData
  BY DEF RenameKeepsData
<1>1. op \in Ops
  BY DEF Inv, ConfigInv, Typed, NoOp, None
<1>2. op.pc \in {"native", "read", "write", "delete", "done"}
  BY <1>1 DEF Ops
<1> QED BY <1>2 DEF Inv, OpInv, Renaming, Content, RenameKeepsData

-----------------------------------------------------------------------------
(* The tree *)

\* What the segments of a path are taken from.
Segs == AllNames \cup Roots \cup {Seg(f) : f \in Files}

LEMMA PrefixElements ==
  ASSUME NEW X, NEW s \in Seq(X), NEW t \in Seq(X)
  PROVE  IsPrefix(s, t) <=> Len(s) <= Len(t) /\ \A i \in 1 .. Len(s) : s[i] = t[i]
<1>1. Len(s) \in Nat /\ Len(t) \in Nat
  OBVIOUS
<1>2. SubSeq(s, 1, Len(s)) = [i \in 1 .. Len(s) |-> s[i]]
  BY <1>1
<1>3. Len(s) <= Len(t) => SubSeq(t, 1, Len(s)) = [i \in 1 .. Len(s) |-> t[i]]
  BY <1>1
<1> QED BY <1>1, <1>2, <1>3 DEF IsPrefix

\* Every mount is two segments deep, and its id is one of the configuration's.
LEMMA MountShape ==
  ASSUME TypeOK, Typed, NEW m \in DOMAIN mounts
  PROVE  /\ m \in Seq(Segs) /\ Len(m) = 2 /\ m = <<m[1], m[2]>> /\ m # <<>>
         /\ m[1] \in Roots /\ m[2] \in PointNames /\ m[1] \in Segs /\ m[2] \in Segs
         /\ mounts[m].id # None
<1>1. PICK i \in DOMAIN points : PointMountPath(points[i]) = m /\ mounts[m] = Mount(points[i])
  BY DEF TypeOK
<1>2. points[i].name \in AllNames /\ points[i].id \in Range(Ids) /\ points[i].name \in PointNames
  BY PointsType DEF PointRecords, PointNames
<1>3. RootOf(points[i]) \in Roots
  BY DEF RootOf, Roots
<1>4. m = <<RootOf(points[i]), points[i].name>>
  BY <1>1 DEF PointMountPath
<1>5. RootOf(points[i]) \in Segs /\ points[i].name \in Segs
  BY <1>2, <1>3 DEF Segs
<1>6. mounts[m].id \in Range(Ids)
  BY <1>1, <1>2 DEF Mount
<1>7. mounts[m].id # None
  BY <1>6, MountAssumption DEF None
<1> QED BY <1>2, <1>3, <1>4, <1>5, <1>7

LEMMA OwnsTwo ==
  ASSUME TypeOK, Typed, NEW m \in DOMAIN mounts, NEW path \in Seq(Segs)
  PROVE  Owns(m, path) <=> Len(path) >= 2 /\ path[1] = m[1] /\ path[2] = m[2]
<1>1. m \in Seq(Segs) /\ Len(m) = 2
  BY MountShape
<1>2. Owns(m, path) <=> 2 <= Len(path) /\ \A i \in 1 .. 2 : m[i] = path[i]
  <2>1. Owns(m, path) <=> Len(m) <= Len(path) /\ \A i \in 1 .. Len(m) : m[i] = path[i]
    <3>1. IsPrefix(m, path) <=> Len(m) <= Len(path) /\ \A i \in 1 .. Len(m) : m[i] = path[i]
      <4>1. \A s, t \in Seq(Segs) :
              IsPrefix(s, t) <=> Len(s) <= Len(t) /\ \A i \in 1 .. Len(s) : s[i] = t[i]
        BY PrefixElements
      <4> QED BY <1>1, <4>1
    <3> QED BY <3>1 DEF Owns
  <2> QED BY <1>1, <2>1
<1>3. (\A i \in 1 .. 2 : m[i] = path[i]) <=> m[1] = path[1] /\ m[2] = path[2]
  OBVIOUS
<1>4. 2 <= Len(path) <=> Len(path) >= 2
  OBVIOUS
<1> QED BY <1>2, <1>3, <1>4

\* Two mounts never own one path.
LEMMA OwnerOf ==
  ASSUME TypeOK, Typed, NEW m \in DOMAIN mounts, NEW path \in Seq(Segs), Len(path) >= 2,
         path[1] = m[1], path[2] = m[2]
  PROVE  /\ Owner(path) = m /\ ResolvePath(path) # NoRoute
         /\ ResolvePath(path) = [id |-> mounts[m].id, rest |-> SubSeq(path, 3, Len(path))]
<1> DEFINE owners == {n \in DOMAIN mounts : Owns(n, path)}
<1>1. m \in owners
  BY OwnsTwo
<1>2. \A n \in owners : n = m
  BY OwnsTwo, MountShape
<1>3. owners = {m} /\ Len(m) \in Nat /\ Len(m) = 2 /\ m # <<>> /\ mounts[m].id # None
  BY <1>1, <1>2, MountShape
<1>4. Owner(path) = IF owners = {} THEN <<>>
                    ELSE CHOOSE x \in owners : \A n \in owners : Len(n) <= Len(x)
  BY DEF Owner
<1> HIDE DEF owners
<1>5. Owner(path) = m
  BY <1>3, <1>4
<1>6. ResolvePath(path) = [id |-> mounts[m].id, rest |-> SubSeq(path, 3, Len(path))]
  <2>1. Len(Owner(path)) + 1 = 3 /\ Owner(path) # <<>>
    <3>1. Len(m) + 1 = 3 /\ m # <<>>
      BY <1>3
    <3> QED BY <1>5, <3>1
  <2>2. ResolvePath(path) = [id |-> mounts[Owner(path)].id,
                             rest |-> SubSeq(path, Len(Owner(path)) + 1, Len(path))]
    BY <2>1 DEF ResolvePath
  <2> QED BY <1>5, <2>1, <2>2
<1>7. ResolvePath(path).id # NoRoute.id
  BY <1>3, <1>6 DEF NoRoute
<1> QED BY <1>5, <1>6, <1>7

LEMMA NoOwner ==
  ASSUME TypeOK, Typed, NEW path \in Seq(Segs),
         \A m \in DOMAIN mounts : ~ (Len(path) >= 2 /\ path[1] = m[1] /\ path[2] = m[2])
  PROVE  ResolvePath(path) = NoRoute
<1>1. {m \in DOMAIN mounts : Owns(m, path)} = {}
  BY OwnsTwo
<1> QED BY <1>1 DEF Owner, ResolvePath

LEMMA Children ==
  ASSUME TypeOK, Typed
  PROVE  /\ VirtualChildren(<<>>) = {m[1] : m \in DOMAIN mounts}
         /\ \A r \in Segs : VirtualChildren(<<r>>) = {m[2] : m \in {n \in DOMAIN mounts : n[1] = r}}
         /\ \A r, n \in Segs : VirtualChildren(<<r, n>>) = {}
<1>1. \A m \in DOMAIN mounts : IsStrictPrefix(<<>>, m)
  <2> TAKE m \in DOMAIN mounts
  <2>1. m \in Seq(Segs) /\ Len(m) = 2 /\ <<>> \in Seq(Segs) /\ Len(<<>>) = 0 /\ m # <<>>
    BY MountShape
  <2>2. IsPrefix(<<>>, m)
    <3> DEFINE s == <<>>
    <3> HIDE DEF s
    <3>1. s \in Seq(Segs) /\ Len(s) = 0
      BY DEF s
    <3>a. \A x, y \in Seq(Segs) :
            IsPrefix(x, y) <=> Len(x) <= Len(y) /\ \A i \in 1 .. Len(x) : x[i] = y[i]
      BY PrefixElements
    <3>2. IsPrefix(s, m) <=> Len(s) <= Len(m) /\ \A i \in 1 .. Len(s) : s[i] = m[i]
      BY <2>1, <3>1, <3>a
    <3>3. IsPrefix(s, m)
      BY <2>1, <3>1, <3>2
    <3> QED BY <3>3 DEF s
  <2> QED BY <2>1, <2>2 DEF IsStrictPrefix
<1>2. \A r \in Segs : \A m \in DOMAIN mounts : IsStrictPrefix(<<r>>, m) <=> m[1] = r
  <2> TAKE r \in Segs
  <2> TAKE m \in DOMAIN mounts
  <2>1. m \in Seq(Segs) /\ Len(m) = 2 /\ <<r>> \in Seq(Segs) /\ Len(<<r>>) = 1 /\ <<r>>[1] = r
    BY MountShape
  <2>2. m # <<r>>
    BY <2>1
  <2>3. IsPrefix(<<r>>, m) <=> 1 <= 2 /\ \A i \in 1 .. 1 : <<r>>[i] = m[i]
    <3> DEFINE s == <<r>>
    <3> HIDE DEF s
    <3>1. s \in Seq(Segs) /\ Len(s) = 1
      BY DEF s
    <3>a. \A x, y \in Seq(Segs) :
            IsPrefix(x, y) <=> Len(x) <= Len(y) /\ \A i \in 1 .. Len(x) : x[i] = y[i]
      BY PrefixElements
    <3>2. IsPrefix(s, m) <=> Len(s) <= Len(m) /\ \A i \in 1 .. Len(s) : s[i] = m[i]
      BY <2>1, <3>1, <3>a
    <3>3. IsPrefix(s, m) <=> 1 <= 2 /\ \A i \in 1 .. 1 : s[i] = m[i]
      BY <2>1, <3>1, <3>2
    <3> QED BY <3>3 DEF s
  <2>4. (\A i \in 1 .. 1 : <<r>>[i] = m[i]) <=> r = m[1]
    BY <2>1
  <2> QED BY <2>2, <2>3, <2>4 DEF IsStrictPrefix
<1>3. \A r, n \in Segs : \A m \in DOMAIN mounts : ~ IsStrictPrefix(<<r, n>>, m)
  <2> TAKE r, n \in Segs
  <2> TAKE m \in DOMAIN mounts
  <2> DEFINE s == <<r, n>>
  <2>1. m \in Seq(Segs) /\ Len(m) = 2 /\ m = <<m[1], m[2]>>
    BY MountShape
  <2>2. s \in Seq(Segs) /\ Len(s) = 2 /\ s[1] = r /\ s[2] = n /\ s = <<s[1], s[2]>>
    OBVIOUS
  <2> HIDE DEF s
  <2>3. IsPrefix(s, m) => \A i \in 1 .. 2 : s[i] = m[i]
    BY <2>1, <2>2, PrefixElements
  <2>4. IsPrefix(s, m) => s = m
    BY <2>1, <2>2, <2>3
  <2> QED BY <2>4 DEF IsStrictPrefix, s
<1>4. VirtualChildren(<<>>) = {m[1] : m \in DOMAIN mounts}
  <2>1. {n \in DOMAIN mounts : IsStrictPrefix(<<>>, n)} = DOMAIN mounts
    BY <1>1
  <2>2. Len(<<>>) + 1 = 1
    OBVIOUS
  <2> QED BY <2>1, <2>2 DEF VirtualChildren
<1>5. \A r \in Segs : VirtualChildren(<<r>>) = {m[2] : m \in {n \in DOMAIN mounts : n[1] = r}}
  <2> TAKE r \in Segs
  <2>1. {n \in DOMAIN mounts : IsStrictPrefix(<<r>>, n)} = {n \in DOMAIN mounts : n[1] = r}
        /\ Len(<<r>>) + 1 = 2
    BY <1>2
  <2> QED BY <2>1 DEF VirtualChildren
<1>6. \A r, n \in Segs : VirtualChildren(<<r, n>>) = {}
  BY <1>3 DEF VirtualChildren
<1> QED BY <1>4, <1>5, <1>6

LEMMA ShortPaths ==
  /\ <<>> \in Seq(Segs) /\ Len(<<>>) = 0
  /\ \A r \in Segs : <<r>> \in Seq(Segs) /\ Len(<<r>>) = 1
  /\ \A r, n \in Segs :
       /\ <<r, n>> \in Seq(Segs) /\ Len(<<r, n>>) = 2 /\ <<r, n>>[1] = r /\ <<r, n>>[2] = n
       /\ Front(<<r, n>>) = <<r>>
  /\ \A r \in Segs : Front(<<r>>) = <<>>
<1>1. <<>> \in Seq(Segs) /\ Len(<<>>) = 0
  OBVIOUS
<1>2. \A r \in Segs : <<r>> \in Seq(Segs) /\ Len(<<r>>) = 1
  OBVIOUS
<1>3. \A r, n \in Segs :
        <<r, n>> \in Seq(Segs) /\ Len(<<r, n>>) = 2 /\ <<r, n>>[1] = r /\ <<r, n>>[2] = n
  OBVIOUS
<1>4. \A s \in Seq(Segs) : Len(s) = 2 => SubSeq(s, 1, 1) = <<s[1]>>
  <2> TAKE s \in Seq(Segs)
  <2> HAVE Len(s) = 2
  <2>1. SubSeq(s, 1, 1) = [i \in 1 .. 1 |-> s[i]]
    OBVIOUS
  <2>2. <<s[1]>> = [i \in 1 .. 1 |-> s[i]]
    OBVIOUS
  <2> QED BY <2>1, <2>2
<1>5. \A r, n \in Segs : Front(<<r, n>>) = <<r>>
  <2> TAKE r, n \in Segs
  <2> DEFINE s == <<r, n>>
  <2>1. s \in Seq(Segs) /\ Len(s) = 2 /\ s[1] = r
    BY <1>3
  <2> HIDE DEF s
  <2>2. Front(s) = SubSeq(s, 1, 1)
    BY <2>1 DEF Front
  <2> QED BY <1>4, <2>1, <2>2 DEF s
<1>6. \A r \in Segs : Front(<<r>>) = <<>>
  <2> TAKE r \in Segs
  <2>1. Front(<<r>>) = SubSeq(<<r>>, 1, 0)
    BY <1>2 DEF Front
  <2>2. SubSeq(<<r>>, 1, 0) = <<>>
    OBVIOUS
  <2> QED BY <2>1, <2>2
<1> QED BY <1>1, <1>2, <1>3, <1>5, <1>6

\* The three levels of the tree: what they list...
LEMMA RootList ==
  ASSUME TypeOK, Typed PROVE List(<<>>) = {<<m[1]>> : m \in DOMAIN mounts}
<1>1. ResolvePath(<<>>) = NoRoute
  <2>1. <<>> \in Seq(Segs) /\ ~ (Len(<<>>) >= 2)
    BY ShortPaths
  <2> QED BY <2>1, NoOwner
<1>2. List(<<>>) = {Append(<<>>, c) : c \in VirtualChildren(<<>>)}
  BY <1>1 DEF List
<1>3. \A c : Append(<<>>, c) = <<c>>
  OBVIOUS
<1>4. List(<<>>) = {<<c>> : c \in {m[1] : m \in DOMAIN mounts}}
  BY <1>2, <1>3, Children
<1> QED BY <1>4

LEMMA DirList ==
  ASSUME TypeOK, Typed, NEW r \in Segs
  PROVE  List(<<r>>) = {m \in DOMAIN mounts : m[1] = r}
<1>1. ResolvePath(<<r>>) = NoRoute
  <2>1. <<r>> \in Seq(Segs) /\ ~ (Len(<<r>>) >= 2)
    BY ShortPaths
  <2> QED BY <2>1, NoOwner
<1>2. List(<<r>>) = {Append(<<r>>, c) : c \in VirtualChildren(<<r>>)}
  BY <1>1 DEF List
<1>3. \A c \in Segs : Append(<<r>>, c) = <<r, c>>
  <2> TAKE c \in Segs
  <2>1. Append(<<r>>, c) = [i \in 1 .. 2 |-> IF i = 2 THEN c ELSE <<r>>[i]]
    OBVIOUS
  <2>2. <<r, c>> = [i \in 1 .. 2 |-> IF i = 2 THEN c ELSE <<r>>[i]]
    OBVIOUS
  <2> QED BY <2>1, <2>2
<1>4. List(<<r>>) = {<<r, c>> : c \in {m[2] : m \in {n \in DOMAIN mounts : n[1] = r}}}
  <2>1. VirtualChildren(<<r>>) \subseteq Segs
    BY Children, MountShape
  <2> QED BY <1>2, <1>3, <2>1, Children
<1>5. List(<<r>>) = {<<m[1], m[2]>> : m \in {n \in DOMAIN mounts : n[1] = r}}
  BY <1>4
<1>6. \A m \in DOMAIN mounts : m = <<m[1], m[2]>>
  BY MountShape
<1> QED BY <1>5, <1>6

LEMMA MountList ==
  ASSUME TypeOK, Typed, NEW m \in DOMAIN mounts
  PROVE  List(m) = {Append(m, Seg(f)) : f \in {g \in Files : Exists(mounts[m].id, g)}}
<1>1. m \in Seq(Segs) /\ Len(m) = 2
  BY MountShape
<1>2. /\ Owner(m) = m /\ ResolvePath(m) # NoRoute
      /\ ResolvePath(m) = [id |-> mounts[m].id, rest |-> SubSeq(m, 3, Len(m))]
  <2>1. \A path \in Seq(Segs) :
          Len(path) >= 2 /\ path[1] = m[1] /\ path[2] = m[2] =>
            /\ Owner(path) = m /\ ResolvePath(path) # NoRoute
            /\ ResolvePath(path) = [id |-> mounts[m].id, rest |-> SubSeq(path, 3, Len(path))]
    BY OwnerOf
  <2>2. Len(m) >= 2
    BY <1>1
  <2> QED BY <1>1, <2>1, <2>2
<1>3. SubSeq(m, 3, Len(m)) = <<>>
  BY <1>1
<1>4. ResolvePath(m).rest = <<>>
  BY <1>2, <1>3
<1>5. List(m) = MountLister(m, <<>>)
  BY <1>2, <1>4 DEF List
<1> QED BY <1>5 DEF MountLister

\* ... and what stat says of their entries.
LEMMA RootStat ==
  ASSUME TypeOK, Typed, NEW r \in Segs
  PROVE  Stat(<<r>>) # "not_found" <=> \E m \in DOMAIN mounts : m[1] = r
<1>1. ResolvePath(<<r>>) = NoRoute
  <2>1. <<r>> \in Seq(Segs) /\ ~ (Len(<<r>>) >= 2)
    BY ShortPaths
  <2> QED BY <2>1, NoOwner
<1>2. <<r>> # <<>> /\ "dir" # "not_found"
  OBVIOUS
<1>3. Stat(<<r>>) = IF VirtualChildren(<<r>>) # {} THEN "dir" ELSE "not_found"
  BY <1>1, <1>2 DEF Stat
<1>4. VirtualChildren(<<r>>) # {} <=> \E m \in DOMAIN mounts : m[1] = r
  <2>1. VirtualChildren(<<r>>) = {m[2] : m \in {n \in DOMAIN mounts : n[1] = r}}
    BY Children
  <2> HIDE DEF VirtualChildren
  <2> QED BY <2>1
<1> QED BY <1>2, <1>3, <1>4

LEMMA DirStat ==
  ASSUME TypeOK, Typed, NEW r \in Segs, NEW n \in Segs
  PROVE  Stat(<<r, n>>) # "not_found" <=> <<r, n>> \in DOMAIN mounts
<1> DEFINE e == <<r, n>>
<1>1. e \in Seq(Segs) /\ Len(e) = 2 /\ e[1] = r /\ e[2] = n /\ e # <<>>
  BY ShortPaths
<1>2. "dir" # "not_found"
  OBVIOUS
<1>3. VirtualChildren(e) = {}
  BY Children
<1>4. \A m \in DOMAIN mounts : e[1] = m[1] /\ e[2] = m[2] => e = m
  BY MountShape
<1> HIDE DEF e
<1>5. CASE e \in DOMAIN mounts
  <2>1. /\ ResolvePath(e) # NoRoute
        /\ ResolvePath(e) = [id |-> mounts[e].id, rest |-> SubSeq(e, 3, Len(e))]
    <3>1. \A path \in Seq(Segs) :
            Len(path) >= 2 /\ path[1] = e[1] /\ path[2] = e[2] =>
              /\ ResolvePath(path) # NoRoute
              /\ ResolvePath(path) = [id |-> mounts[e].id, rest |-> SubSeq(path, 3, Len(path))]
      BY <1>5, OwnerOf
    <3>2. Len(e) >= 2
      BY <1>1
    <3> QED BY <1>1, <3>1, <3>2
  <2>2. SubSeq(e, 3, Len(e)) = <<>>
    BY <1>1
  <2>3. ResolvePath(e).rest = <<>>
    BY <2>1, <2>2
  <2>4. Stat(e) = "dir"
    BY <2>1, <2>3 DEF Stat
  <2> QED BY <1>2, <1>5, <2>4 DEF e
<1>6. CASE e \notin DOMAIN mounts
  <2>1. ResolvePath(e) = NoRoute
    BY <1>1, <1>4, <1>6, NoOwner
  <2>2. Stat(e) = "not_found"
    BY <1>1, <1>3, <2>1 DEF Stat
  <2> QED BY <1>6, <2>2 DEF e
<1> QED BY <1>5, <1>6

LEMMA AppendThird ==
  ASSUME NEW X, NEW s \in Seq(X), NEW x \in X, Len(s) = 2
  PROVE  /\ Append(s, x) \in Seq(X) /\ Len(Append(s, x)) = 3
         /\ Append(s, x)[1] = s[1] /\ Append(s, x)[2] = s[2] /\ Append(s, x)[3] = x
<1> DEFINE n == Len(s)
           t == Append(s, x)
<1>1. \A y \in Seq(X) : /\ Append(y, x) \in Seq(X) /\ Len(Append(y, x)) = Len(y) + 1
                        /\ Append(y, x)[Len(y) + 1] = x
                        /\ \A i \in 1 .. Len(y) : Append(y, x)[i] = y[i]
  OBVIOUS
<1>2. /\ t \in Seq(X) /\ Len(t) = n + 1 /\ t[n + 1] = x
      /\ \A i \in 1 .. n : t[i] = s[i]
  BY <1>1
<1>3. n = 2
  OBVIOUS
<1> HIDE DEF n, t
<1>4. Len(t) = 3 /\ t[3] = x /\ t[1] = s[1] /\ t[2] = s[2]
  BY <1>2, <1>3
<1> QED BY <1>2, <1>4 DEF t

LEMMA FileStat ==
  ASSUME TypeOK, Typed, NEW m \in DOMAIN mounts, NEW f \in Files
  PROVE  Stat(Append(m, Seg(f))) # "not_found" <=> Exists(mounts[m].id, f)
<1> DEFINE e == Append(m, Seg(f))
<1>1. m \in Seq(Segs) /\ Len(m) = 2 /\ Seg(f) \in Segs
  BY MountShape DEF Segs
<1>2. /\ e \in Seq(Segs) /\ Len(e) = 3 /\ e[1] = m[1] /\ e[2] = m[2] /\ e[3] = Seg(f)
  BY <1>1, AppendThird
<1> HIDE DEF e
<1>3. /\ ResolvePath(e) # NoRoute
      /\ ResolvePath(e) = [id |-> mounts[m].id, rest |-> SubSeq(e, 3, Len(e))]
  <2>1. \A path \in Seq(Segs) :
          Len(path) >= 2 /\ path[1] = m[1] /\ path[2] = m[2] =>
            /\ ResolvePath(path) # NoRoute
            /\ ResolvePath(path) = [id |-> mounts[m].id, rest |-> SubSeq(path, 3, Len(path))]
    BY OwnerOf
  <2>2. Len(e) >= 2
    BY <1>2
  <2> QED BY <1>2, <2>1, <2>2
<1>4. SubSeq(e, 3, 3) = <<Seg(f)>>
  <2>1. SubSeq(e, 3, 3) = [i \in 1 .. 1 |-> e[i + 2]]
    BY <1>2
  <2>2. [i \in 1 .. 1 |-> e[i + 2]] = <<e[3]>>
    OBVIOUS
  <2> QED BY <1>2, <2>1, <2>2
<1> DEFINE rest == ResolvePath(e).rest
<1>5. rest = SubSeq(e, 3, 3) /\ ResolvePath(e).id = mounts[m].id
  BY <1>2, <1>3
<1>6. rest # <<>> /\ Len(rest) = 1 /\ rest[1] = Seg(f)
  <2>1. \A x : <<x>> # <<>> /\ Len(<<x>>) = 1 /\ <<x>>[1] = x
    OBVIOUS
  <2>2. rest = <<Seg(f)>>
    BY <1>4, <1>5
  <2> HIDE DEF rest
  <2> QED BY <2>1, <2>2
<1>7. FileOf(rest) = f
  BY <1>6 DEF FileOf, Seg
<1> HIDE DEF rest
<1>8. Stat(e) = IF Len(rest) = 1 /\ Exists(ResolvePath(e).id, FileOf(rest))
                THEN "file" ELSE "not_found"
  BY <1>3, <1>6 DEF Stat, rest
<1>9. Stat(e) = IF Exists(mounts[m].id, f) THEN "file" ELSE "not_found"
  BY <1>5, <1>6, <1>7, <1>8
<1>10. "file" # "not_found"
  OBVIOUS
<1> QED BY <1>9, <1>10 DEF e

\* Of the state only the types are needed.
LEMMA Walkable == ASSUME TypeOK, Typed PROVE TreeIsWalkable
<1>1. Roots \subseteq Segs /\ PointNames \subseteq Segs
  BY PointsType DEF Segs, PointNames, PointRecords
<1>2. \A m \in DOMAIN mounts :
        /\ m = <<m[1], m[2]>> /\ m[1] \in Segs /\ m[2] \in Segs /\ m[1] \in Roots
        /\ m \in Seq(Segs) /\ Len(m) = 2
  BY MountShape
<1>3. \A e \in List(<<>>) : Stat(e) # "not_found"
  BY <1>2, RootList, RootStat
<1>4. \A r \in Roots : \A e \in List(<<r>>) : Stat(e) # "not_found"
  <2> TAKE r \in Roots
  <2>1. \A e \in List(<<r>>) : e \in DOMAIN mounts
    BY <1>1, DirList
  <2> QED BY <1>2, <2>1, DirStat
<1>5. \A m \in DOMAIN mounts : \A e \in List(m) : Stat(e) # "not_found"
  <2> TAKE m \in DOMAIN mounts
  <2>1. \A e \in List(m) : \E f \in Files : e = Append(m, Seg(f)) /\ Exists(mounts[m].id, f)
    BY MountList
  <2> QED BY <2>1, FileStat
<1>6. \A r \in Roots : Stat(<<r>>) # "not_found" <=> <<r>> \in List(Front(<<r>>))
  <2> TAKE r \in Roots
  <2>1. r \in Segs /\ Front(<<r>>) = <<>>
    BY <1>1, ShortPaths
  <2>2. <<r>> \in List(<<>>) <=> \E m \in DOMAIN mounts : m[1] = r
    <3>1. \A x : <<r>> = <<x>> <=> r = x
      OBVIOUS
    <3> QED BY <3>1, RootList
  <2> QED BY <2>1, <2>2, RootStat
<1>7. \A r \in Roots, n \in PointNames :
        Stat(<<r, n>>) # "not_found" <=> <<r, n>> \in List(Front(<<r, n>>))
  <2> TAKE r \in Roots, n \in PointNames
  <2>1. r \in Segs /\ n \in Segs
    BY <1>1
  <2>2. Front(<<r, n>>) = <<r>> /\ <<r, n>>[1] = r
    BY <2>1, ShortPaths
  <2>3. <<r, n>> \in List(<<r>>) <=> <<r, n>> \in DOMAIN mounts
    BY <2>1, <2>2, DirList
  <2> QED BY <2>1, <2>2, <2>3, DirStat
<1>8. \A m \in DOMAIN mounts, f \in Files :
        Stat(Append(m, Seg(f))) # "not_found" <=> Append(m, Seg(f)) \in List(Front(Append(m, Seg(f))))
  <2> TAKE m \in DOMAIN mounts, f \in Files
  <2>1. m \in Seq(Segs) /\ Seg(f) \in Segs
    BY <1>2 DEF Segs
  <2>2. Front(Append(m, Seg(f))) = m
    BY <2>1 DEF Front
  <2>3. \A g \in Files : Append(m, Seg(f)) = Append(m, Seg(g)) => f = g
    <3> SUFFICES ASSUME NEW g \in Files, Append(m, Seg(f)) = Append(m, Seg(g)) PROVE f = g
      OBVIOUS
    <3>1. Seg(g) \in Segs
      BY DEF Segs
    <3>2. Seg(f) = Seg(g)
      BY <2>1, <3>1
    <3>3. Seg(f).text = f /\ Seg(g).text = g
      BY DEF Seg
    <3> QED BY <3>2, <3>3
  <2>4. Append(m, Seg(f)) \in List(m) <=> Exists(mounts[m].id, f)
    BY <2>3, MountList
  <2> QED BY <2>2, <2>4, FileStat
<1> DEFINE dirs == {<<>>} \cup {<<r>> : r \in Roots} \cup DOMAIN mounts
           paths == {<<r>> : r \in Roots} \cup {<<r, n>> : r \in Roots, n \in PointNames}
                    \cup {Append(m, Seg(f)) : m \in DOMAIN mounts, f \in Files}
<1>9. \A d \in dirs : \A e \in List(d) : Stat(e) # "not_found"
  BY <1>3, <1>4, <1>5
<1>10. \A e \in paths : Stat(e) # "not_found" <=> e \in List(Front(e))
  <2> SUFFICES ASSUME NEW e \in paths PROVE Stat(e) # "not_found" <=> e \in List(Front(e))
    OBVIOUS
  <2>1. CASE e \in {<<r>> : r \in Roots}
    BY <1>6, <2>1
  <2>2. CASE e \in {<<r, n>> : r \in Roots, n \in PointNames}
    <3>1. PICK r \in Roots, n \in PointNames : e = <<r, n>>
      BY <2>2
    <3> QED BY <1>7, <3>1
  <2>3. CASE e \in {Append(m, Seg(f)) : m \in DOMAIN mounts, f \in Files}
    <3>1. PICK m \in DOMAIN mounts, f \in Files : e = Append(m, Seg(f))
      BY <2>3
    <3> QED BY <1>8, <3>1
  <2> QED BY <2>1, <2>2, <2>3
<1> HIDE DEF dirs, paths
<1>11. (\A d \in dirs : \A e \in List(d) : Stat(e) # "not_found")
       /\ (\A e \in paths : Stat(e) # "not_found" <=> e \in List(Front(e)))
  BY <1>9, <1>10
<1> QED BY <1>11 DEF TreeIsWalkable, dirs, paths

-----------------------------------------------------------------------------
(* The resolvers *)

\* Segments of a spelling that is not refused, and of a validated path.
Plain == (Segs \cup {Dot}) \ {Up}
Clean == Plain \ {Empty, Dot}

\* Every point has a name a path can contain.
NamesLegal == \A i \in DOMAIN points : Legal(points[i].name)

LEMMA SuffixedLegal ==
  ASSUME NEW n \in AllNames, NEW id \in Range(Ids), NEW k \in Nat
  PROVE  Legal(Suffixed(n, id, k))
<1> DEFINE tag == [id |-> IF k < PrefixLens /\ id \in Twins THEN "twin" ELSE id, k |-> k]
<1>1. Suffixed(n, id, k).sfx = Append(n.sfx, tag)
  BY SuffixedType
<1>2. n.sfx \in Seq(Tags)
  BY DEF AllNames
<1> HIDE DEF tag
<1>3. Append(n.sfx, tag) # <<>>
  BY <1>2
<1>4. Empty.sfx = <<>> /\ Dot.sfx = <<>> /\ Up.sfx = <<>>
  BY DEF Empty, Dot, Up, Seg
<1> QED BY <1>1, <1>3, <1>4 DEF Legal

LEMMA AssignedLegal ==
  ASSUME Typed, Recorded, Len(points) < Len(Ids), NEW n \in AllNames, NEW kind \in Kinds, Legal(n)
  PROVE  Legal(AssignedName(n, kind))
<1> DEFINE id == Ids[Len(points) + 1]
           repo == kind = "repo"
           N == PrefixLens + Len(points)
           k == CHOOSE i \in 1 .. N : FirstFree(repo, n, id, i)
<1>1. id \in Range(Ids)
  BY PointsType DEF Range
<1>2. repo \in BOOLEAN
  OBVIOUS
<1>3. AssignedName(n, kind) = IF <<repo, n>> \notin names THEN n ELSE Suffixed(n, id, k)
  BY DEF AssignedName, FirstFree, Free
<1> HIDE DEF id, repo
<1>4. \E i \in 1 .. N : FirstFree(repo, n, id, i)
  BY <1>1, <1>2, SomeFree DEF Typed, Recorded
<1>5. k \in 1 .. N
  BY <1>4
<1>6. k \in Nat
  BY <1>5, MountAssumption
<1> HIDE DEF k
<1> QED BY <1>1, <1>3, <1>6, SuffixedLegal

LEMMA LegalStep ==
  ASSUME Inv, NamesLegal, [Next]_vars
  PROVE  NamesLegal'
<1>0. Typed /\ Recorded
  BY DEF Inv, ConfigInv
<1>1. CASE points' = points
  BY <1>1 DEF NamesLegal
<1>2. CASE points' = <<>>
  BY <1>2 DEF NamesLegal
<1>3. ASSUME NEW n \in SentNames, NEW kind \in Kinds, Accept(n, kind)
      PROVE  NamesLegal'
  <2> DEFINE p == [id |-> Ids[Len(points) + 1], name |-> AssignedName(n, kind), kind |-> kind]
  <2>1. Legal(n) /\ Len(points) < Len(Ids) /\ points' = Append(points, p)
    BY <1>3 DEF Accept, AssignedName
  <2>2. Legal(p.name)
    BY <1>0, <2>1, SentType, AssignedLegal
  <2>3. points \in Seq(PointRecords) /\ DOMAIN points = 1 .. Len(points) /\ Len(points) \in Nat
    BY <1>0 DEF Typed
  <2> HIDE DEF p
  <2>4. /\ DOMAIN points' = 1 .. Len(points) + 1 /\ points'[Len(points) + 1] = p
        /\ \A i \in 1 .. Len(points) : points'[i] = points[i]
    <3>1. p \in PointRecords \cup {p} /\ points \in Seq(PointRecords \cup {p})
      BY <2>3
    <3> QED BY <2>1, <3>1, AppendProperties
  <2>5. ASSUME NEW i \in DOMAIN points' PROVE Legal(points'[i].name)
    <3>1. CASE i = Len(points) + 1
      BY <2>2, <2>4, <3>1
    <3>2. CASE i \in 1 .. Len(points)
      BY <2>3, <2>4, <3>2 DEF NamesLegal
    <3> QED BY <2>3, <2>4, <3>1, <3>2
  <2> QED BY <2>5 DEF NamesLegal, Legal
<1>4. \/ points' = points \/ points' = <<>>
      \/ \E n \in SentNames, kind \in Kinds : Accept(n, kind)
  BY DEF Next, Reject, Commit, Build, Serve, StartOp, Fail, Native, Read, Write, Delete, EndOp,
         configVars, vars
<1> QED BY <1>1, <1>2, <1>3, <1>4

\* Segments that have a meaning.
LEMMA RootsClean ==
  /\ Roots \subseteq Clean /\ Clean \subseteq Segs /\ Clean \subseteq Plain
  /\ Clean \cap {Empty, Dot} = {} /\ Empty \notin Clean
  /\ \A n \in AllNames : Legal(n) => n \in Clean
<1>1. Seg("points") \notin {Empty, Dot, Up} /\ Seg("repos") \notin {Empty, Dot, Up}
  BY DEF Seg, Empty, Dot, Up
<1> QED BY <1>1 DEF Roots, Clean, Plain, Segs, Legal

LEMMA NotRefused ==
  ASSUME NEW raw \in Seq(Segs \cup {Dot}), ~ Refused(raw)
  PROVE  raw \in Seq(Plain)
<1>1. \A i \in 1 .. Len(raw) : raw[i] \in Segs \cup {Dot}
  BY ElementOfSeq
<1>2. \A i \in 1 .. Len(raw) : raw[i] # Up
  BY DEF Refused, Range
<1>3. raw = [i \in 1 .. Len(raw) |-> raw[i]] /\ Len(raw) \in Nat
  BY LenProperties
<1>4. raw \in [1 .. Len(raw) -> Plain]
  BY <1>1, <1>2, <1>3 DEF Plain
<1> QED BY <1>3, <1>4

LEMMA ValidatedType ==
  ASSUME NEW raw \in Seq(Plain)
  PROVE  Validated(raw) \in Seq(Clean)
BY WithoutType DEF Validated, Clean

LEMMA ValidatedConcat ==
  ASSUME NEW a \in Seq(Plain), NEW b \in Seq(Plain)
  PROVE  Validated(a \o b) = Validated(a) \o Validated(b)
<1> DEFINE D == {Empty, Dot}
<1> HIDE DEF D
<1>1. Without(a \o b, D) = Without(a, D) \o Without(b, D)
  BY WithoutConcat
<1> QED BY <1>1 DEF Validated, D

\* What follows the leading slashes.
LEMMA TrimmedFrom ==
  ASSUME NEW E, NEW raw \in Seq(E), NEW k \in 1 .. Len(raw), raw[k] # Empty,
         \A i \in 1 .. k - 1 : raw[i] = Empty
  PROVE  TrimStart(raw) = SubSeq(raw, k, Len(raw))
<1> DEFINE solid == {i \in DOMAIN raw : raw[i] # Empty}
           first == CHOOSE i \in solid : \A j \in solid : i <= j
<1>1. Len(raw) \in Nat /\ DOMAIN raw = 1 .. Len(raw)
  BY LenProperties
<1>2. k \in solid /\ \A i \in solid : i \in Nat /\ k <= i
  BY <1>1
<1>3. TrimStart(raw) = SubSeq(raw, first, Len(raw))
  BY <1>2 DEF TrimStart
<1> HIDE DEF solid
<1>4. first \in solid /\ \A j \in solid : first <= j
  BY <1>2
<1>5. first = k
  <2> HIDE DEF first
  <2>1. first <= k /\ k <= first /\ first \in Nat /\ k \in Nat
    BY <1>2, <1>4
  <2> QED BY <2>1
<1> QED BY <1>3, <1>5

LEMMA TrimmedNone ==
  ASSUME NEW E, NEW raw \in Seq(E), \A i \in 1 .. Len(raw) : raw[i] = Empty
  PROVE  TrimStart(raw) = <<>>
<1>1. DOMAIN raw = 1 .. Len(raw)
  BY LenProperties
<1> QED BY <1>1 DEF TrimStart

LEMMA TrimClean ==
  ASSUME NEW path \in Seq(Clean)
  PROVE  TrimStart(path) = path
<1>1. Len(path) \in Nat
  BY LenProperties
<1>2. \A i \in 1 .. Len(path) : path[i] # Empty
  BY ElementOfSeq, RootsClean
<1>3. CASE Len(path) = 0
  <2>1. path = <<>>
    BY <1>3, EmptySeq
  <2>2. \A i \in 1 .. Len(path) : path[i] = Empty
    BY <1>3
  <2> QED BY <2>1, <2>2, TrimmedNone
<1>4. CASE Len(path) # 0
  <2>1. 1 \in 1 .. Len(path) /\ \A i \in 1 .. 1 - 1 : path[i] = Empty
    BY <1>1, <1>4
  <2>2. TrimStart(path) = SubSeq(path, 1, Len(path))
    BY <1>2, <2>1, TrimmedFrom
  <2> QED BY <2>2, SubSeqFull
<1> QED BY <1>3, <1>4

\* Dropping the leading slashes drops nothing of the validated path.
LEMMA TrimValidated ==
  ASSUME NEW raw \in Seq(Plain)
  PROVE  /\ TrimStart(raw) \in Seq(Plain)
         /\ Validated(TrimStart(raw)) = Validated(raw)
<1>1. Len(raw) \in Nat /\ raw = [i \in 1 .. Len(raw) |-> raw[i]]
  BY LenProperties
<1> DEFINE solid == {i \in 1 .. Len(raw) : raw[i] # Empty}
<1>2. CASE solid = {}
  <2>1. \A i \in 1 .. Len(raw) : raw[i] = Empty
    BY <1>2
  <2>2. TrimStart(raw) = <<>>
    BY <2>1, TrimmedNone
  <2>3. raw \in Seq({Empty})
    BY <1>1, <2>1
  <2>4. {Empty} \subseteq {Empty, Dot}
    OBVIOUS
  <2>5. Validated(raw) = <<>>
    BY <2>3, <2>4, WithoutAll DEF Validated
  <2> QED BY <2>2, <2>5, EmptySeq, WithoutEmpty DEF Validated
<1>3. CASE solid # {}
  <2>1. PICK k \in solid : \A j \in solid : k <= j
    <3>1. solid \in SUBSET Nat
      OBVIOUS
    <3> HIDE DEF solid
    <3> QED BY <1>3, <3>1, LeastNatural
  <2>2. k \in 1 .. Len(raw) /\ raw[k] # Empty /\ \A i \in 1 .. k - 1 : raw[i] = Empty
    BY <1>1, <2>1
  <2> DEFINE a == SubSeq(raw, 1, k - 1)
             b == SubSeq(raw, k, Len(raw))
  <2>3. TrimStart(raw) = b
    BY <2>2, TrimmedFrom
  <2>4. a \in Seq({Empty}) /\ a \in Seq(Plain) /\ b \in Seq(Plain)
    <3>0. /\ \A i \in 1 .. k - 1 : raw[i] \in Plain /\ 1 + i - 1 = i
          /\ \A i \in k .. Len(raw) : raw[i] \in Plain
          /\ 1 \in Int /\ k - 1 \in Int /\ k \in Int /\ Len(raw) \in Int
          /\ (k - 1) - 1 + 1 = k - 1 /\ (1 <= k - 1 \/ k - 1 = 0)
      BY <1>1, <2>2, ElementOfSeq
    <3>a. /\ a \in Seq(Plain) /\ Len(a) = IF 1 <= k - 1 THEN (k - 1) - 1 + 1 ELSE 0
          /\ \A i \in 1 .. (k - 1) - 1 + 1 : a[i] = raw[1 + i - 1]
      BY <3>0, SubSeqProperties
    <3>b. b \in Seq(Plain)
      BY <3>0, SubSeqProperties
    <3>1. /\ Len(a) = k - 1 /\ \A i \in 1 .. k - 1 : a[i] = raw[i]
          /\ a \in Seq(Plain) /\ b \in Seq(Plain)
      <4> HIDE DEF a, b
      <4> QED BY <3>0, <3>a, <3>b
    <3> HIDE DEF a, b
    <3>2. a = [i \in 1 .. k - 1 |-> a[i]] /\ k - 1 \in Nat
      BY <2>2, <3>1, LenProperties
    <3>3. a \in [1 .. k - 1 -> {Empty}]
      BY <2>2, <3>1, <3>2
    <3> QED BY <3>1, <3>2, <3>3
  <2>5. raw = a \o b
    <3>1. (k - 1) + 1 = k /\ k - 1 \in 0 .. Len(raw) /\ k - 1 \in Nat
      BY <1>1, <2>2
    <3>2. 1 \in 1 .. Len(raw) + 1 /\ k - 1 \in 1 - 1 .. Len(raw) /\ Len(raw) \in k - 1 .. Len(raw)
      BY <1>1, <2>2
    <3>3. SubSeq(raw, 1, k - 1) \o SubSeq(raw, (k - 1) + 1, Len(raw)) = SubSeq(raw, 1, Len(raw))
      BY <3>2, ConcatAdjacentSubSeq
    <3>4. SubSeq(raw, 1, Len(raw)) = raw
      BY SubSeqFull
    <3> QED BY <3>1, <3>3, <3>4
  <2> HIDE DEF a, b
  <2>6. Validated(raw) = Validated(a) \o Validated(b)
    BY <2>4, <2>5, ValidatedConcat
  <2>7. Validated(a) = <<>>
    BY <2>4, WithoutAll DEF Validated
  <2>8. <<>> \o Validated(b) = Validated(b)
    BY <2>4, ValidatedType, ConcatEmptySeq
  <2> QED BY <2>3, <2>4, <2>6, <2>7, <2>8
<1> QED BY <1>2, <1>3

\* The lookups find the one point they ask for.
LEMMA FindIs ==
  ASSUME Typed, Distinct, NEW i \in DOMAIN points
  PROVE  FindPoint(points[i].name, IsRepo(points[i])) = points[i].id
<1> DEFINE hits == {j \in DOMAIN points : points[j].name = points[i].name /\ IsRepo(points[j]) = IsRepo(points[i])}
<1>1. hits = {i}
  BY DEF Distinct, Key
<1>2. FindPoint(points[i].name, IsRepo(points[i]))
        = IF hits = {} THEN None ELSE points[CHOOSE k \in hits : \A j \in hits : k <= j].id
  BY DEF FindPoint
<1> HIDE DEF hits
<1>3. i \in Nat
  BY DEF Typed
<1>4. (CHOOSE k \in hits : \A j \in hits : k <= j) = i
  BY <1>1, <1>3
<1> QED BY <1>1, <1>2, <1>4

LEMMA FindSome ==
  ASSUME Typed, Distinct, NEW n, NEW repo, FindPoint(n, repo) # None
  PROVE  \E i \in DOMAIN points : /\ points[i].name = n /\ IsRepo(points[i]) = repo
                                  /\ FindPoint(n, repo) = points[i].id
<1>1. PICK i \in DOMAIN points : points[i].name = n /\ IsRepo(points[i]) = repo
  BY DEF FindPoint
<1> QED BY <1>1, FindIs

LEMMA ByIdIs ==
  ASSUME Typed, NEW i \in DOMAIN points
  PROVE  PointById(points[i].id) = points[i] /\ points[i].id \in Range(Ids) /\ points[i].id # None
<1>1. \A j \in DOMAIN points : points[j].id = points[i].id => j = i
  BY PointsType, MountAssumption
<1>2. (CHOOSE j \in DOMAIN points : points[j].id = points[i].id) = i
  BY <1>1
<1>3. points[i].id \in Range(Ids)
  BY PointsType DEF PointRecords
<1> QED BY <1>2, <1>3, MountAssumption DEF PointById, None

\* A sequence is its first two elements and the rest.
LEMMA TwoAndRest ==
  ASSUME NEW X, NEW s \in Seq(X), Len(s) >= 2
  PROVE  /\ s[1] \in X /\ s[2] \in X /\ SubSeq(s, 3, Len(s)) \in Seq(X)
         /\ s = <<s[1], s[2]>> \o SubSeq(s, 3, Len(s))
<1> DEFINE rest == SubSeq(s, 3, Len(s))
<1>1. Len(s) \in Nat /\ \A i \in 1 .. Len(s) : s[i] \in X
  BY LenProperties, ElementOfSeq
<1>2. s[1] \in X /\ s[2] \in X
  BY <1>1
<1>3. rest \in Seq(X)
  <2>1. \A i \in 3 .. Len(s) : s[i] \in X
    BY <1>1
  <2> QED BY <1>1, <2>1, SubSeqProperties
<1>4. s = <<s[1], s[2]>> \o rest
  <2>1. /\ 1 \in 1 .. Len(s) + 1 /\ 2 \in 1 - 1 .. Len(s) /\ Len(s) \in 2 .. Len(s)
        /\ 2 + 1 = 3
    BY <1>1
  <2>2. SubSeq(s, 1, 2) \o SubSeq(s, 2 + 1, Len(s)) = SubSeq(s, 1, Len(s))
    BY <2>1, ConcatAdjacentSubSeq
  <2>3. SubSeq(s, 1, 2) = <<s[1], s[2]>>
    <3> DEFINE u == SubSeq(s, 1, 2)
    <3>1. /\ u \in Seq(X) /\ Len(u) = IF 1 <= 2 THEN 2 - 1 + 1 ELSE 0
          /\ \A i \in 1 .. 2 - 1 + 1 : u[i] = s[1 + i - 1]
      <4>1. 1 \in Int /\ 2 \in Int /\ \A i \in 1 .. 2 : s[i] \in X
        BY <1>1
      <4> QED BY <4>1, SubSeqProperties
    <3> HIDE DEF u
    <3>2. Len(u) = 2 /\ u[1] = s[1] /\ u[2] = s[2]
      BY <3>1
    <3>3. u = <<u[1], u[2]>>
      BY <3>1, <3>2
    <3> QED BY <3>2, <3>3 DEF u
  <2> QED BY <2>1, <2>2, <2>3, SubSeqFull
<1> QED BY <1>2, <1>3, <1>4

LEMMA TwoJoined ==
  ASSUME NEW X, NEW a \in X, NEW b \in X, NEW v \in Seq(X)
  PROVE  /\ <<a, b>> \o v \in Seq(X) /\ Len(<<a, b>> \o v) >= 2
         /\ (<<a, b>> \o v)[1] = a /\ (<<a, b>> \o v)[2] = b
         /\ SubSeq(<<a, b>> \o v, 3, Len(<<a, b>> \o v)) = v
<1> DEFINE p == <<a, b>>
           u == p \o v
           w == SubSeq(u, 3, Len(u))
<1>1. p \in Seq(X) /\ Len(p) = 2 /\ p[1] = a /\ p[2] = b
  OBVIOUS
<1>2. Len(v) \in Nat /\ v \in [1 .. Len(v) -> X]
  BY LenProperties
<1> HIDE DEF p
<1>3. /\ u \in Seq(X) /\ Len(u) = Len(p) + Len(v)
      /\ \A i \in 1 .. Len(p) + Len(v) : u[i] = IF i <= Len(p) THEN p[i] ELSE v[i - Len(p)]
  BY <1>1, ConcatProperties
<1> HIDE DEF u
<1>4. Len(u) = 2 + Len(v) /\ u[1] = a /\ u[2] = b /\ Len(u) >= 2
      /\ \A i \in 1 .. Len(v) : u[i + 2] = v[i]
  BY <1>1, <1>2, <1>3
<1>5. w = v
  <2>1. \A i \in 3 .. Len(u) : u[i] \in X
    BY <1>2, <1>3, <1>4, ElementOfSeq
  <2>2. 3 \in Int /\ Len(u) \in Int
    BY <1>2, <1>4
  <2>3. /\ w \in Seq(X) /\ Len(w) = IF 3 <= Len(u) THEN Len(u) - 3 + 1 ELSE 0
        /\ \A i \in 1 .. Len(u) - 3 + 1 : w[i] = u[3 + i - 1]
    BY <2>1, <2>2, SubSeqProperties
  <2> HIDE DEF w
  <2>4. Len(w) = Len(v)
    BY <1>2, <1>4, <2>3
  <2>5. \A i \in 1 .. Len(v) : w[i] = v[i]
    <3> TAKE i \in 1 .. Len(v)
    <3>1. i \in 1 .. Len(u) - 3 + 1 /\ 3 + i - 1 = i + 2
      BY <1>2, <1>4
    <3> QED BY <1>4, <2>3, <3>1
  <2>6. w = [i \in 1 .. Len(w) |-> w[i]] /\ v = [i \in 1 .. Len(v) |-> v[i]]
    BY <1>2, <2>3, LenProperties
  <2> QED BY <2>4, <2>5, <2>6
<1> QED BY <1>3, <1>4, <1>5 DEF u, p

\* A validated path is two segments and a path that is validated again without change.
LEMMA CleanTail ==
  ASSUME NEW path \in Seq(Clean), Len(path) >= 2
  PROVE  /\ path[1] \in Clean /\ path[2] \in Clean
         /\ SubSeq(path, 3, Len(path)) \in Seq(Clean)
         /\ Validated(SubSeq(path, 3, Len(path))) = SubSeq(path, 3, Len(path))
         /\ ~ Refused(SubSeq(path, 3, Len(path)))
         /\ path = <<path[1], path[2]>> \o SubSeq(path, 3, Len(path))
<1> DEFINE rest == SubSeq(path, 3, Len(path))
<1>2. path[1] \in Clean /\ path[2] \in Clean /\ rest \in Seq(Clean) /\ path = <<path[1], path[2]>> \o rest
  BY TwoAndRest
<1> HIDE DEF rest
<1>3. Validated(rest) = rest
  BY <1>2, RootsClean, WithoutNone DEF Validated
<1>4. ~ Refused(rest)
  <2>1. DOMAIN rest = 1 .. Len(rest) /\ \A i \in 1 .. Len(rest) : rest[i] \in Clean
    BY <1>2, LenProperties, ElementOfSeq
  <2> QED BY <2>1 DEF Refused, Range, Clean, Plain
<1> QED BY <1>2, <1>3, <1>4 DEF rest

LEMMA RootIsRepo ==
  ASSUME NEW p
  PROVE  RootOf(p) \in Roots /\ (RootOf(p) = Seg("repos") <=> IsRepo(p))
BY DEF RootOf, Roots, Seg

\* resolve_point_path on a validated path.
LEMMA SplitClean ==
  ASSUME NEW path \in Seq(Clean), Len(path) >= 2
  PROVE  ResolvePointPath(path)
           = IF path[1] \in Roots /\ FindPoint(path[2], path[1] = Seg("repos")) # None
             THEN [id |-> FindPoint(path[2], path[1] = Seg("repos")), rest |-> SubSeq(path, 3, Len(path))]
             ELSE NoRoute
<1> DEFINE rest == SubSeq(path, 3, Len(path))
           id == FindPoint(path[2], path[1] = Seg("repos"))
<1>1. TrimStart(path) = path /\ Validated(rest) = rest /\ ~ Refused(rest) /\ path[2] # Empty
  BY TrimClean, CleanTail, RootsClean
<1>2. ~ (Len(path) < 2)
  BY LenProperties
<1>3. ResolvePointPath(path)
        = IF Len(path) < 2 \/ Refused(rest) THEN NoRoute
          ELSE IF path[1] \notin Roots \/ path[2] = Empty THEN NoRoute
          ELSE IF id = None THEN NoRoute ELSE [id |-> id, rest |-> Validated(rest)]
  BY <1>1 DEF ResolvePointPath, Split, Roots
<1> HIDE DEF rest, id
<1>4. ResolvePointPath(path) = IF path[1] \in Roots /\ id # None THEN [id |-> id, rest |-> rest] ELSE NoRoute
  BY <1>1, <1>2, <1>3
<1> QED BY <1>4 DEF rest, id

LEMMA SplitShort ==
  ASSUME NEW path \in Seq(Clean), ~ (Len(path) >= 2)
  PROVE  ResolvePointPath(path) = NoRoute
<1>1. TrimStart(path) = path /\ Len(path) < 2
  BY TrimClean, LenProperties
<1> QED BY <1>1 DEF ResolvePointPath, Split

\* A path below a point, and a path below none.
LEMMA RoutedPoint ==
  ASSUME Typed, Distinct, NEW path \in Seq(Clean), Len(path) >= 2, NEW i \in DOMAIN points,
         path[1] = RootOf(points[i]), path[2] = points[i].name
  PROVE  ResolvePointPath(path) = [id |-> points[i].id, rest |-> SubSeq(path, 3, Len(path))]
<1>1. path[1] \in Roots /\ (path[1] = Seg("repos")) = IsRepo(points[i])
  BY RootIsRepo DEF IsRepo
<1>2. FindPoint(path[2], path[1] = Seg("repos")) = points[i].id
  BY <1>1, FindIs
<1> QED BY <1>1, <1>2, ByIdIs, SplitClean

LEMMA Unrouted ==
  ASSUME Typed, Distinct, NEW path \in Seq(Clean), ResolvePointPath(path) # NoRoute
  PROVE  \E i \in DOMAIN points :
           /\ Len(path) >= 2 /\ path[1] = RootOf(points[i]) /\ path[2] = points[i].name
<1>1. Len(path) >= 2
  BY SplitShort
<1>2. path[1] \in Roots /\ FindPoint(path[2], path[1] = Seg("repos")) # None
  BY <1>1, SplitClean
<1>3. PICK i \in DOMAIN points : points[i].name = path[2] /\ IsRepo(points[i]) = (path[1] = Seg("repos"))
  BY <1>2, FindSome
<1>4. path[1] = RootOf(points[i])
  BY <1>2, <1>3 DEF Roots, RootOf, Seg
<1> QED BY <1>1, <1>3, <1>4

\* A mounted point serves the paths below it.
LEMMA MountServes ==
  ASSUME TypeOK, Typed, Distinct, NEW path \in Seq(Clean), Len(path) >= 2, NEW i \in DOMAIN points,
         path[1] = RootOf(points[i]), path[2] = points[i].name
  PROVE  ResolvePath(path)
           = IF points[i].id \in CanMount
             THEN [id |-> points[i].id, rest |-> SubSeq(path, 3, Len(path))] ELSE NoRoute
<1>0. path \in Seq(Segs)
  BY RootsClean
<1>1. CASE points[i].id \in CanMount
  <2>1. PICK m \in DOMAIN mounts : mounts[m].id = points[i].id
    BY <1>1 DEF CanMount
  <2>2. PICK j \in DOMAIN points : PointMountPath(points[j]) = m /\ mounts[m] = Mount(points[j])
    BY DEF TypeOK
  <2>3. points[j].id = points[i].id
    BY <2>1, <2>2 DEF Mount
  <2>4. points[j] = points[i]
    BY <2>3, ByIdIs
  <2>5. m = <<RootOf(points[i]), points[i].name>>
    BY <2>2, <2>4 DEF PointMountPath
  <2>6. path[1] = m[1] /\ path[2] = m[2]
    BY <2>5
  <2> QED BY <1>0, <1>1, <2>1, <2>6, OwnerOf
<1>2. CASE points[i].id \notin CanMount
  <2>1. ASSUME NEW m \in DOMAIN mounts, path[1] = m[1], path[2] = m[2]
        PROVE  FALSE
    <3>1. PICK j \in DOMAIN points : PointMountPath(points[j]) = m /\ mounts[m] = Mount(points[j])
      BY DEF TypeOK
    <3>2. m[1] = RootOf(points[j]) /\ m[2] = points[j].name
      BY <3>1 DEF PointMountPath
    <3>3. IsRepo(points[j]) = IsRepo(points[i]) /\ points[j].name = points[i].name
      <4>1. RootOf(points[j]) = RootOf(points[i])
        BY <2>1, <3>2
      <4>2. IsRepo(points[j]) <=> IsRepo(points[i])
        BY <4>1, RootIsRepo
      <4> QED BY <2>1, <3>2, <4>2 DEF IsRepo
    <3>4. j = i
      BY <3>3 DEF Distinct, Key
    <3>5. mounts[m].id = points[i].id
      BY <3>1, <3>4 DEF Mount
    <3>6. points[i].id \in CanMount
      BY <3>5, ByIdIs DEF CanMount
    <3> QED BY <1>2, <3>6
  <2> QED BY <1>0, <1>2, <2>1, NoOwner
<1> QED BY <1>1, <1>2

\* Handles and tree take a validated path to one point and one path in it.
LEMMA TreeAgrees ==
  ASSUME TypeOK, Typed, Distinct, NEW path \in Seq(Clean)
  PROVE  /\ ResolvePath(path)
              = IF ResolvePointPath(path).id \in CanMount THEN ResolvePointPath(path) ELSE NoRoute
         /\ ResolvePointPath(path) # NoRoute =>
              path = PointMountPath(PointById(ResolvePointPath(path).id)) \o ResolvePointPath(path).rest
<1>0. path \in Seq(Segs)
  BY RootsClean
<1>1. CASE ResolvePointPath(path) = NoRoute
  <2>1. ResolvePointPath(path).id \notin CanMount
    BY <1>1, MountAssumption DEF NoRoute, CanMount, None
  <2>2. ASSUME NEW m \in DOMAIN mounts, Len(path) >= 2, path[1] = m[1], path[2] = m[2]
        PROVE  FALSE
    <3>1. PICK j \in DOMAIN points : PointMountPath(points[j]) = m /\ mounts[m] = Mount(points[j])
      BY DEF TypeOK
    <3>2. path[1] = RootOf(points[j]) /\ path[2] = points[j].name
      BY <2>2, <3>1 DEF PointMountPath
    <3>3. ResolvePointPath(path) = [id |-> points[j].id, rest |-> SubSeq(path, 3, Len(path))]
      BY <2>2, <3>2, RoutedPoint
    <3>4. points[j].id # None
      BY ByIdIs
    <3> QED BY <1>1, <3>3, <3>4 DEF NoRoute
  <2>3. ResolvePath(path) = NoRoute
    BY <1>0, <2>2, NoOwner
  <2> QED BY <1>1, <2>1, <2>3
<1>2. CASE ResolvePointPath(path) # NoRoute
  <2>1. PICK i \in DOMAIN points :
          Len(path) >= 2 /\ path[1] = RootOf(points[i]) /\ path[2] = points[i].name
    BY <1>2, Unrouted
  <2>2. ResolvePointPath(path) = [id |-> points[i].id, rest |-> SubSeq(path, 3, Len(path))]
    BY <2>1, RoutedPoint
  <2>3. /\ ResolvePointPath(path).id = points[i].id
        /\ ResolvePointPath(path).rest = SubSeq(path, 3, Len(path))
    BY <2>2
  <2>4. ResolvePath(path) = IF points[i].id \in CanMount
                            THEN [id |-> points[i].id, rest |-> SubSeq(path, 3, Len(path))] ELSE NoRoute
    BY <2>1, MountServes
  <2>5. PointMountPath(PointById(points[i].id)) = <<path[1], path[2]>>
    BY <2>1, ByIdIs DEF PointMountPath
  <2>6. path = <<path[1], path[2]>> \o SubSeq(path, 3, Len(path))
    BY <2>1, CleanTail
  <2>7. ResolvePath(path)
          = IF ResolvePointPath(path).id \in CanMount THEN ResolvePointPath(path) ELSE NoRoute
    BY <2>2, <2>3, <2>4
  <2> QED BY <2>3, <2>5, <2>6, <2>7
<1> QED BY <1>1, <1>2

\* resolve_data_file_path does not validate the path first, and finds the same.
LEMMA DataAgrees ==
  ASSUME Typed, Distinct, NamesLegal, NEW raw \in Seq(Plain), ResolveDataFilePath(raw) # NoRoute
  PROVE  ResolveDataFilePath(raw) = ResolvePointPath(Validated(raw))
<1> DEFINE s == TrimStart(raw)
           rest == SubSeq(s, 3, Len(s))
           id == FindPoint(s[2], s[1] = Seg("repos"))
           v == Validated(rest)
<1>1. s \in Seq(Plain) /\ Validated(s) = Validated(raw)
  BY TrimValidated
<1>2. /\ ~ (Len(s) < 2) /\ s[1] = Seg("points") /\ id # None
      /\ ResolveDataFilePath(raw) = [id |-> id, rest |-> v]
  BY DEF ResolveDataFilePath, Split
<1> HIDE DEF s
<1>3. Len(s) >= 2
  BY <1>1, <1>2, LenProperties
<1>4. PICK i \in DOMAIN points :
        points[i].name = s[2] /\ IsRepo(points[i]) = (s[1] = Seg("repos")) /\ id = points[i].id
  BY <1>2, FindSome
<1>5. s[1] \in Clean /\ s[2] \in Clean /\ s[1] = RootOf(points[i])
  <2>1. points[i].name \in AllNames /\ Legal(points[i].name)
    BY PointsType DEF PointRecords, NamesLegal
  <2>2. s[1] \in Roots
    BY <1>2 DEF Roots
  <2>3. s[1] # Seg("repos")
    BY <1>2 DEF Seg
  <2> QED BY <1>2, <1>4, <2>1, <2>2, <2>3, RootsClean DEF RootOf
<1>6. rest \in Seq(Plain) /\ s = <<s[1], s[2]>> \o rest
  BY <1>1, <1>3, TwoAndRest
<1>7. v \in Seq(Clean)
  BY <1>6, ValidatedType
<1> HIDE DEF rest, id, v
<1>8. Validated(raw) = <<s[1], s[2]>> \o v
  <2> DEFINE two == <<s[1], s[2]>>
  <2>1. two \in Seq(Clean) /\ two \in Seq(Plain)
    BY <1>5, RootsClean
  <2>2. s = two \o rest
    BY <1>6
  <2> HIDE DEF two
  <2>3. Validated(two \o rest) = Validated(two) \o Validated(rest)
    BY <1>6, <2>1, ValidatedConcat
  <2>4. Validated(two) = two
    BY <2>1, RootsClean, WithoutNone DEF Validated
  <2>5. Validated(raw) = two \o v
    BY <1>1, <2>2, <2>3, <2>4 DEF v
  <2> QED BY <2>5 DEF two
<1> DEFINE path == <<s[1], s[2]>> \o v
<1>9. /\ path \in Seq(Clean) /\ Len(path) >= 2 /\ path[1] = s[1] /\ path[2] = s[2]
      /\ SubSeq(path, 3, Len(path)) = v
  BY <1>5, <1>7, TwoJoined
<1> HIDE DEF path
<1>10. ResolvePointPath(path) = [id |-> points[i].id, rest |-> v]
  BY <1>4, <1>5, <1>9, RoutedPoint
<1> QED BY <1>2, <1>4, <1>8, <1>10 DEF path

\* What clients send is made of segments.
LEMMA SpellingsType ==
  ASSUME NEW path \in Seq(Segs), NEW raw \in Spellings(path)
  PROVE  raw \in Seq(Segs \cup {Dot})
<1> DEFINE X == Segs \cup {Dot}
<1>1. "" \in Words /\ ".." \in Words
  BY DEF Words
<1>2. Empty \in X /\ Dot \in X /\ Up \in X
  BY <1>1, SegType DEF Segs, Empty, Up
<1>3. path \in Seq(X)
  OBVIOUS
<1> HIDE DEF X
<1>4. \A s, t \in Seq(X) : s \o t \in Seq(X)
  BY ConcatProperties
<1>5. <<Empty>> \in Seq(X) /\ <<Dot>> \in Seq(X) /\ <<Up>> \in Seq(X)
  BY <1>2
<1>6. ASSUME path # <<>>, NEW s \in {Dot, Empty} PROVE <<Head(path), s>> \o Tail(path) \in Seq(X)
  <2>1. Head(path) \in X /\ Tail(path) \in Seq(X)
    BY <1>3, <1>6, HeadTailProperties
  <2>2. <<Head(path), s>> \in Seq(X)
    BY <1>2, <2>1
  <2> QED BY <1>4, <2>1, <2>2
<1>7. \/ raw \in {path, <<Empty>> \o path, path \o <<Empty>>, <<Dot>> \o path, path \o <<Up>>}
      \/ path # <<>> /\ \E s \in {Dot, Empty} : raw = <<Head(path), s>> \o Tail(path)
  BY DEF Spellings
<1>8. raw \in Seq(X)
  BY <1>3, <1>4, <1>5, <1>6, <1>7
<1> QED BY <1>8 DEF X

LEMMA RawsType ==
  ASSUME Typed
  PROVE  Raws \subseteq Seq(Segs \cup {Dot}) /\ UNION {Spellings(x) : x \in Rests} \subseteq Seq(Segs \cup {Dot})
<1>1. Rests \subseteq Seq(Segs)
  <2>1. ASSUME NEW f \in Files PROVE <<Seg(f)>> \in Seq(Segs)
    <3>1. Seg(f) \in Segs
      BY DEF Segs
    <3> QED BY <3>1
  <2>2. <<>> \in Seq(Segs)
    BY EmptySeq
  <2> QED BY <2>1, <2>2 DEF Rests
<1>2. Roots \subseteq Segs /\ SentNames \cup PointNames \subseteq Segs
  <2>1. PointNames \subseteq AllNames
    BY PointsType DEF PointRecords, PointNames
  <2> QED BY <2>1, SentType DEF Segs
<1>3. <<>> \in Seq(Segs) /\ \A r \in Roots : <<r>> \in Seq(Segs)
  BY <1>2
<1>4. ASSUME NEW raw \in Raws PROVE raw \in Seq(Segs \cup {Dot})
  <2> DEFINE Of(r, n, x) == Spellings(<<r, n>> \o x)
             A == {Of(r, n, x) : r \in Roots, n \in SentNames \cup PointNames, x \in Rests}
             B == {Spellings(<<r>>) : r \in Roots}
  <2>1. ASSUME NEW S \in A, raw \in S PROVE raw \in Seq(Segs \cup {Dot})
    <3> HIDE DEF Of
    <3>1. PICK r \in Roots, n \in SentNames \cup PointNames, x \in Rests : S = Of(r, n, x)
      BY <2>1
    <3> DEFINE path == <<r, n>> \o x
    <3>2. path \in Seq(Segs)
      <4>1. r \in Segs /\ n \in Segs /\ x \in Seq(Segs)
        BY <1>1, <1>2
      <4> QED BY <4>1, TwoJoined
    <3>3. S = Spellings(path)
      BY <3>1 DEF Of
    <3> HIDE DEF path
    <3> QED BY <2>1, <3>2, <3>3, SpellingsType
  <2>2. ASSUME NEW S \in B, raw \in S PROVE raw \in Seq(Segs \cup {Dot})
    <3>1. PICK r \in Roots : S = Spellings(<<r>>)
      BY <2>2
    <3> QED BY <1>3, <2>2, <3>1, SpellingsType
  <2>3. CASE raw \in Spellings(<<>>)
    BY <1>3, <2>3, SpellingsType
  <2>4. Raws = (UNION A) \cup (UNION B) \cup Spellings(<<>>)
    BY DEF Raws
  <2> HIDE DEF A, B
  <2> QED BY <2>1, <2>2, <2>3, <2>4
<1>5. ASSUME NEW x \in Rests, NEW raw \in Spellings(x) PROVE raw \in Seq(Segs \cup {Dot})
  BY <1>1, SpellingsType
<1> QED BY <1>4, <1>5

\* What RoutesAgree says of one request.
Agreeing(q) ==
  LET path == ResolveFilePath(q)
      route == ResolvePointPath(path)
  IN
  /\ ResolvePath(path) = IF route.id \in CanMount THEN route ELSE NoRoute
  /\ route # NoRoute => path = PointMountPath(PointById(route.id)) \o route.rest
  /\ ~q.virtual => route.id = q.id
  /\ q.virtual /\ ResolveDataFilePath(q.raw) # NoRoute => ResolveDataFilePath(q.raw) = route

\* It holds of every sequence of segments, not only of the spellings RoutesAgree lists.
EveryRequest == Requests(Seq(Segs \cup {Dot}), Seq(Segs \cup {Dot}))
AllAgree == \A q \in EveryRequest : ~Refused(q.raw) => Agreeing(q)

LEMMA Agree ==
  ASSUME TypeOK, Typed, Distinct, NamesLegal
  PROVE  AllAgree
<1> SUFFICES ASSUME NEW q \in EveryRequest, ~ Refused(q.raw) PROVE Agreeing(q)
  BY DEF AllAgree
<1> USE DEF EveryRequest
<1>1. q.raw \in Seq(Segs \cup {Dot})
  BY DEF Requests
<1>2. q.raw \in Seq(Plain)
  BY <1>1, NotRefused
<1>3. Validated(q.raw) \in Seq(Clean)
  BY <1>2, ValidatedType
<1>4. CASE q.virtual
  <2>1. ResolveFilePath(q) = Validated(q.raw)
    BY <1>4 DEF ResolveFilePath
  <2> DEFINE path == Validated(q.raw)
             route == ResolvePointPath(path)
  <2>2. /\ ResolvePath(path) = IF route.id \in CanMount THEN route ELSE NoRoute
        /\ route # NoRoute => path = PointMountPath(PointById(route.id)) \o route.rest
    BY <1>3, TreeAgrees
  <2>3. ResolveDataFilePath(q.raw) # NoRoute => ResolveDataFilePath(q.raw) = route
    BY <1>2, DataAgrees
  <2> HIDE DEF path, route
  <2> QED BY <1>4, <2>1, <2>2, <2>3 DEF Agreeing, path, route
<1>5. CASE ~ q.virtual
  <2>1. PICK i \in DOMAIN points : q.id = points[i].id
    BY <1>5 DEF Requests
  <2> DEFINE p == points[i]
             path == <<RootOf(p), p.name>> \o Validated(q.raw)
  <2>2. ResolveFilePath(q) = path
    BY <1>5, <2>1, ByIdIs DEF ResolveFilePath, PointMountPath
  <2>3. RootOf(p) \in Clean /\ p.name \in Clean
    BY PointsType, RootIsRepo, RootsClean DEF PointRecords, NamesLegal
  <2>4. path \in Seq(Clean) /\ Len(path) >= 2 /\ path[1] = RootOf(p) /\ path[2] = p.name
    <3> HIDE DEF p
    <3> QED BY <1>3, <2>3, TwoJoined
  <2> HIDE DEF path
  <2>5. ResolvePointPath(path) = [id |-> points[i].id, rest |-> SubSeq(path, 3, Len(path))]
    BY <2>4, RoutedPoint
  <2>6. ResolvePointPath(path).id = q.id
    BY <2>1, <2>5
  <2> DEFINE route == ResolvePointPath(path)
  <2>7. /\ ResolvePath(path) = IF route.id \in CanMount THEN route ELSE NoRoute
        /\ route # NoRoute => path = PointMountPath(PointById(route.id)) \o route.rest
    BY <2>4, TreeAgrees
  <2> QED BY <1>5, <2>2, <2>6, <2>7 DEF Agreeing
<1> QED BY <1>4, <1>5

LEMMA AgreeIsRoutes == ASSUME Typed, AllAgree PROVE RoutesAgree
<1>1. Requests(Raws, UNION {Spellings(x) : x \in Rests}) \subseteq EveryRequest
  BY RawsType DEF Requests, EveryRequest
<1> QED BY <1>1 DEF AllAgree, Agreeing, RoutesAgree

LEMMA LegalInit == Init => NamesLegal
BY DEF Init, NamesLegal

-----------------------------------------------------------------------------
\* Every variable keeps its type; every mount is that of a point, at its path.
THEOREM TypeCorrect == Spec => []TypeOK
<1>1. Inv => TypeOK
  BY DEF Inv, ConfigInv
<1> QED BY <1>1, InvInit, InvStep, PTL DEF Spec

\* Whatever names clients choose and however alike the ids are, the names that
\* normalize_vfs_users leaves or assigns are different, the first free suffix
\* exists among those it tries, and VfsBuilder::build does not fail.
THEOREM AcceptedAlwaysBuilds == Spec => []BuildNeverFails
<1>1. Inv => BuildNeverFails
  BY DEF Inv
<1> QED BY <1>1, InvInit, InvStep, PTL DEF Spec

\* No operation between any two mounts changes a repository, a remote or a
\* read-only point (MountAccess and ReadOnlyLayer), even when the handlers'
\* own check of the user's rights is left out.
THEOREM ReadOnlyIsNeverWritten == Spec => []ReadOnlyKept
<1>1. Inv => ReadOnlyKept
  BY DEF Inv, OpInv
<1> QED BY <1>1, InvInit, InvStep, PTL DEF Spec

\* MountAccess::rename, native or emulated by read, write and delete, leaves the
\* file at its source or its target wherever it fails.
THEOREM RenameNeverLoses == Spec => []RenameKeepsData
BY InvInit, InvStep, RenameIsKept, PTL DEF Spec

\* A walk of the built tree finds every mount and every file, and nothing it lists
\* is missing, for any names and any set of points that loaded: list and stat of
\* MountAccess agree although they follow different rules.
THEOREM TreeAlwaysWalkable == Spec => []TreeIsWalkable
<1>1. Inv => TreeIsWalkable
  BY Walkable DEF Inv, ConfigInv
<1> QED BY <1>1, InvInit, InvStep, PTL DEF Spec

\* Whatever sequence of segments a client sends, as a virtual path or as a path in a
\* point, the read and write handles (resolve_point_path), the mounted tree
\* (resolve_path) and backup and restore (resolve_data_file_path) agree on the point
\* and on the path in it, or the path is refused, at every moment of the table's life.
THEOREM EverySpellingAgrees == Spec => []AllAgree
<1>1. Inv /\ NamesLegal => AllAgree
  BY Agree DEF Inv, ConfigInv
<1>2. Inv /\ NamesLegal /\ [Next]_vars => NamesLegal'
  BY LegalStep
<1> QED BY <1>1, <1>2, InvInit, LegalInit, InvStep, PTL DEF Spec

\* The property the run checks: the same for the spellings it lists, in a built tree.
THEOREM RoutesAlwaysAgree == Spec => []RoutesAgree
<1>1. Inv /\ NamesLegal => RoutesAgree
  BY Agree, AgreeIsRoutes DEF Inv, ConfigInv
<1>2. Inv /\ NamesLegal /\ [Next]_vars => NamesLegal'
  BY LegalStep
<1> QED BY <1>1, <1>2, InvInit, LegalInit, InvStep, PTL DEF Spec

-----------------------------------------------------------------------------
(* VfsCache *)

\* Where build_vfs holds the user's build lock.
Locked == {"recheck", "generation", "probe", "health", "clear_other", "insert"}

\* The lock is held by the build that is under way, and by nobody else.
LockHeld == \A b \in Builders : pc[b] \in Locked <=> lock = b

\* A background task does nothing but build, and no request runs its
\* last step.
Paths ==
  /\ \A r \in Refreshers : pc[r] \in Locked \cup {"idle", "lock", "unrefresh"}
  /\ \A t \in Tasks : pc[t] # "unrefresh"

\* The build about to insert has found or made the other cache empty, and
\* nobody fills it meanwhile.
OtherCleared ==
  \A b \in Builders :
    pc[b] = "insert" => IF Degraded(b) THEN vfsOps = NoEntry ELSE degradedOps = NoEntry

\* The bound on invalidations is checked before the generation is bumped.
BumpBounded == adminPc = "bump" => gen < MaxGen

TypeInv == CacheTypeOK /\ BumpBounded
ControlInv == LockHeld /\ Paths /\ RefreshIsSingleFlight
OperatorInv == OtherCleared /\ OneOperatorCached

-----------------------------------------------------------------------------
LEMMA EntryIsNotNoEntry ==
  ASSUME NEW e \in Entries PROVE e # NoEntry
<1>1. e.ver >= 0
  BY CacheAssumption DEF Entries, Versions
<1>2. NoEntry.ver = -1
  BY DEF NoEntry, NoVersion
<1> QED BY <1>1, <1>2

LEMMA TypeInvInit == CacheInit => TypeInv
<1> SUFFICES ASSUME CacheInit PROVE TypeInv
  OBVIOUS
<1>1. 0 \in Versions /\ 0 \in 0 .. MaxGen
  BY CacheAssumption DEF Versions
<1>2. /\ health \in [Points -> [status : {"healthy", "failed"}, ver : Versions] \cup {NoHealth}]
      /\ dataOps \in [Points -> Versions \cup {NoVersion}]
  BY DEF CacheInit
<1>3. pc \in [Builders -> Labels]
  BY DEF CacheInit, Labels
<1>4. /\ user \in [Builders -> Versions] /\ generation \in [Builders -> 0 .. MaxGen]
      /\ mounted \in [Builders -> SUBSET Points] /\ todo \in [Builders -> SUBSET Points]
  BY <1>1 DEF CacheInit
<1> QED BY <1>1, <1>2, <1>3, <1>4 DEF CacheInit, TypeInv, CacheTypeOK, BumpBounded

\* What a build keeps well typed when it returns.
LEMMA FinishTyped ==
  ASSUME TypeInv, NEW b \in Builders, Finish(b)
  PROVE  /\ lock' \in Builders \cup {NoLock}
         /\ pc' \in [Builders -> Labels]
         /\ user' \in [Builders -> Versions]
         /\ generation' \in [Builders -> 0 .. MaxGen]
         /\ mounted' \in [Builders -> SUBSET Points]
BY CacheAssumption DEF Finish, Goto, TypeInv, CacheTypeOK, Versions, Labels

LEMMA TypeInvStep == TypeInv /\ [CacheNext]_vfsVars => TypeInv'
<1> SUFFICES ASSUME TypeInv, [CacheNext]_vfsVars PROVE TypeInv'
  OBVIOUS
<1> USE CacheAssumption DEF TypeInv, CacheTypeOK, BumpBounded, Labels
<1>1. ASSUME NEW t \in Tasks, GetUser(t) PROVE TypeInv'
  BY <1>1 DEF GetUser, Goto, Builders, cacheVars, adminVars
<1>2. ASSUME NEW t \in Tasks, GetFull(t) PROVE TypeInv'
  BY <1>2 DEF GetFull, Answer, Goto, Builders, cacheVars, adminVars, buildVars, Versions
<1>3. ASSUME NEW t \in Tasks, GetDegraded(t) PROVE TypeInv'
  BY <1>3 DEF GetDegraded, Goto, Builders, cacheVars, adminVars, buildVars
<1>4. ASSUME NEW t \in Tasks, RefreshDegraded(t) PROVE TypeInv'
  <2>1. t \in Builders
    BY DEF Builders
  <2>2. CASE refreshing
    BY <1>4, <2>1, <2>2 DEF RefreshDegraded, Answer, Goto, cacheVars, adminVars, buildVars,
       Versions
  <2>3. CASE ~ refreshing
    <3>1. PICK r \in Refreshers :
             /\ user' = [user EXCEPT ![t] = 0, ![r] = user[t]]
             /\ pc' = [pc EXCEPT ![t] = "idle", ![r] = "lock"]
      BY <1>4, <2>3 DEF RefreshDegraded, SpawnRefresh
    <3>2. r \in Builders /\ 0 \in Versions
      BY DEF Builders, Versions
    <3>3. user' \in [Builders -> Versions]
      BY <2>1, <3>1, <3>2
    <3>4. pc' \in [Builders -> Labels]
      BY <2>1, <3>1, <3>2
    <3> QED BY <1>4, <2>3, <3>3, <3>4 DEF RefreshDegraded, cacheVars, adminVars, buildVars
  <2> QED BY <2>2, <2>3
<1>5. ASSUME NEW t \in Tasks, GetData(t) PROVE TypeInv'
  BY <1>5 DEF GetData, Answer, Goto, Builders, cacheVars, adminVars, Versions
<1>6. ASSUME NEW t \in Tasks, InsertData(t) PROVE TypeInv'
  BY <1>6 DEF InsertData, Answer, Goto, Builders, adminVars, Versions
<1>7. ASSUME NEW b \in Builders, Lock(b) PROVE TypeInv'
  BY <1>7 DEF Lock, Goto, cacheVars, adminVars
<1>8. ASSUME NEW b \in Builders, Recheck(b) PROVE TypeInv'
  BY <1>8, FinishTyped DEF Recheck, Goto, cacheVars, adminVars
<1>9. ASSUME NEW b \in Builders, ReadGeneration(b) PROVE TypeInv'
  BY <1>9 DEF ReadGeneration, Goto, cacheVars, adminVars
<1>10. ASSUME NEW b \in Builders, Probe(b) PROVE TypeInv'
  BY <1>10 DEF Probe, Goto, cacheVars, adminVars
<1>11. ASSUME NEW b \in Builders, NEW p \in Points, SetHealth(b, p) PROVE TypeInv'
  BY <1>11 DEF SetHealth, adminVars
<1>12. ASSUME NEW b \in Builders, CheckGeneration(b) PROVE TypeInv'
  BY <1>12, FinishTyped DEF CheckGeneration, Goto, cacheVars, adminVars
<1>13. ASSUME NEW b \in Builders, ClearOther(b) PROVE TypeInv'
  BY <1>13 DEF ClearOther, Goto, buildVars, adminVars
<1>14. ASSUME NEW b \in Builders, Insert(b) PROVE TypeInv'
  <2>1. [ver |-> user[b], mounted |-> mounted[b]] \in Entries
    BY DEF Entries
  <2> QED BY <1>14, <2>1, FinishTyped DEF Insert, adminVars
<1>15. ASSUME NEW r \in Refreshers, EndRefresh(r) PROVE TypeInv'
  BY <1>15 DEF EndRefresh, Goto, Builders, cacheVars, buildVars, adminVars
<1>16. CASE SetUsers
  BY <1>16 DEF SetUsers, cacheVars, buildVars, Versions
<1>17. CASE ReloadVfs
  BY <1>17 DEF ReloadVfs, cacheVars, buildVars
<1>18. CASE BumpGeneration
  BY <1>18 DEF BumpGeneration, cacheVars, buildVars
<1>19. CASE DropFull
  BY <1>19 DEF DropFull, buildVars
<1>20. CASE DropDegraded
  BY <1>20 DEF DropDegraded, buildVars
<1>21. ASSUME NEW p \in Points, DropPoint(p) PROVE TypeInv'
  BY <1>21 DEF DropPoint, buildVars
<1>22. CASE EndInvalidate
  BY <1>22 DEF EndInvalidate, cacheVars, buildVars
<1>23. CASE Evict
  BY <1>23 DEF Evict, buildVars, adminVars
<1>24. ASSUME NEW p \in Points, Flip(p) PROVE TypeInv'
  BY <1>24 DEF Flip, cacheVars, buildVars, adminVars
<1>25. CASE UNCHANGED vfsVars
  BY <1>25 DEF vfsVars
<1> QED
  BY <1>1, <1>2, <1>3, <1>4, <1>5, <1>6, <1>7, <1>8, <1>9, <1>10, <1>11, <1>12, <1>13,
     <1>14, <1>15, <1>16, <1>17, <1>18, <1>19, <1>20, <1>21, <1>22, <1>23, <1>24, <1>25
  DEF CacheNext, RequestStep, BuildStep, AdminStep

\* Type correctness: every access to the caches, the build lock and the
\* locals of get_vfs, build_vfs and invalidate_vfs keeps their types.
THEOREM CacheTypeCorrect == CacheSpec => []CacheTypeOK
<1>1. TypeInv => CacheTypeOK
  BY DEF TypeInv
<1> QED BY <1>1, TypeInvInit, TypeInvStep, PTL DEF CacheSpec

-----------------------------------------------------------------------------
LEMMA ControlInit == CacheInit => ControlInv
BY LockAssumption
   DEF CacheInit, ControlInv, LockHeld, Paths, RefreshIsSingleFlight, Locked, Builders

\* A build that returns leaves the lock to the next one.
LEMMA FinishKeepsControl ==
  ASSUME TypeInv, ControlInv, NEW b \in Builders, pc[b] \in Locked, Finish(b),
         refreshing' = refreshing
  PROVE  ControlInv'
<1>1. pc' = [pc EXCEPT ![b] = IF b \in Refreshers THEN "unrefresh" ELSE "idle"] /\ lock' = NoLock
  BY DEF Finish, Goto
<1>2. pc \in [Builders -> Labels] /\ refreshing \in BOOLEAN /\ lock = b
  BY DEF TypeInv, CacheTypeOK, ControlInv, LockHeld
<1>3. LockHeld'
  BY <1>1, <1>2, LockAssumption DEF ControlInv, LockHeld, Locked
<1>4. Paths' /\ RefreshIsSingleFlight'
  BY <1>1, <1>2, CacheAssumption
  DEF ControlInv, Paths, RefreshIsSingleFlight, Locked, Builders
<1> QED BY <1>3, <1>4 DEF ControlInv

\* A build that goes on keeps the lock.
LEMMA BuildKeepsControl ==
  ASSUME TypeInv, ControlInv, NEW b \in Builders, pc[b] \in Locked,
         NEW label \in Locked, Goto(b, label), UNCHANGED <<lock, refreshing>>
  PROVE  ControlInv'
<1>1. pc' = [pc EXCEPT ![b] = label] /\ pc \in [Builders -> Labels] /\ refreshing \in BOOLEAN
  BY DEF Goto, TypeInv, CacheTypeOK
<1>2. LockHeld'
  BY <1>1 DEF ControlInv, LockHeld
<1>3. Paths' /\ RefreshIsSingleFlight'
  BY <1>1, CacheAssumption DEF ControlInv, Paths, RefreshIsSingleFlight, Locked, Builders
<1> QED BY <1>2, <1>3 DEF ControlInv

\* A request that is not building moves without the lock.
LEMMA RequestKeepsControl ==
  ASSUME TypeInv, ControlInv, NEW t \in Tasks, pc[t] \notin Locked,
         NEW label \in {"idle", "get_vfs", "get_degraded", "refresh", "lock", "get_data",
                        "insert_data"},
         Goto(t, label), UNCHANGED <<lock, refreshing>>
  PROVE  ControlInv'
<1>1. pc' = [pc EXCEPT ![t] = label] /\ pc \in [Builders -> Labels] /\ refreshing \in BOOLEAN /\ t \in Builders
  BY DEF Goto, TypeInv, CacheTypeOK, Builders
<1>2. LockHeld'
  BY <1>1 DEF ControlInv, LockHeld, Locked
<1>3. Paths' /\ RefreshIsSingleFlight'
  BY <1>1, CacheAssumption DEF ControlInv, Paths, RefreshIsSingleFlight, Locked, Builders
<1> QED BY <1>2, <1>3 DEF ControlInv

LEMMA ControlStep == TypeInv /\ ControlInv /\ [CacheNext]_vfsVars => ControlInv'
<1> SUFFICES ASSUME TypeInv, ControlInv, [CacheNext]_vfsVars PROVE ControlInv'
  OBVIOUS
<1>0. ASSUME UNCHANGED <<pc, lock, refreshing>> PROVE ControlInv'
  BY <1>0 DEF ControlInv, LockHeld, Paths, RefreshIsSingleFlight
<1>1. ASSUME NEW t \in Tasks, GetUser(t) \/ GetFull(t) \/ GetDegraded(t) \/ GetData(t) \/ InsertData(t)
      PROVE  ControlInv'
  BY <1>1, RequestKeepsControl
  DEF GetUser, GetFull, GetDegraded, GetData, InsertData, Answer, buildVars, Locked
<1>2. ASSUME NEW t \in Tasks, RefreshDegraded(t) PROVE ControlInv'
  <2>1. CASE refreshing
    BY <1>2, <2>1, RequestKeepsControl DEF RefreshDegraded, Answer, buildVars, Locked
  <2>2. CASE ~ refreshing
    <3>1. PICK r \in Refreshers :
            /\ pc' = [pc EXCEPT ![t] = "idle", ![r] = "lock"]
            /\ refreshing' = TRUE /\ lock' = lock
      BY <1>2, <2>2 DEF RefreshDegraded, SpawnRefresh, buildVars
    <3>2. /\ pc \in [Builders -> Labels] /\ t \in Builders /\ r \in Builders
          /\ t # r /\ t \notin Refreshers /\ pc[t] = "refresh"
          /\ \A s \in Refreshers : pc[s] = "idle"
      BY <1>2, <2>2, CacheAssumption
      DEF RefreshDegraded, TypeInv, CacheTypeOK, Builders, ControlInv, RefreshIsSingleFlight
    <3>3. LockHeld'
      BY <3>1, <3>2 DEF ControlInv, LockHeld, Locked
    <3>4. Paths' /\ RefreshIsSingleFlight'
      BY <3>1, <3>2, CacheAssumption DEF ControlInv, Paths, RefreshIsSingleFlight, Builders
    <3> QED BY <3>3, <3>4 DEF ControlInv
  <2> QED BY <2>1, <2>2
<1>3. ASSUME NEW b \in Builders, Lock(b) PROVE ControlInv'
  <2>1. /\ pc' = [pc EXCEPT ![b] = "recheck"] /\ pc \in [Builders -> Labels] /\ refreshing \in BOOLEAN
        /\ lock = NoLock /\ lock' = b /\ refreshing' = refreshing /\ pc[b] = "lock"
    BY <1>3 DEF Lock, Goto, TypeInv, CacheTypeOK
  <2>2. LockHeld'
    BY <2>1, LockAssumption DEF ControlInv, LockHeld, Locked
  <2>3. Paths' /\ RefreshIsSingleFlight'
    BY <2>1, CacheAssumption DEF ControlInv, Paths, RefreshIsSingleFlight, Locked, Builders
  <2> QED BY <2>2, <2>3 DEF ControlInv
<1>4. ASSUME NEW b \in Builders, Recheck(b) \/ CheckGeneration(b) PROVE ControlInv'
  BY <1>4, FinishKeepsControl, BuildKeepsControl DEF Recheck, CheckGeneration, Locked
<1>5. ASSUME NEW b \in Builders, ReadGeneration(b) \/ Probe(b) \/ ClearOther(b)
      PROVE  ControlInv'
  BY <1>5, BuildKeepsControl DEF ReadGeneration, Probe, ClearOther, buildVars, Locked
<1>6. ASSUME NEW b \in Builders, Insert(b) PROVE ControlInv'
  BY <1>6, FinishKeepsControl DEF Insert, Locked
<1>7. ASSUME NEW r \in Refreshers, EndRefresh(r) PROVE ControlInv'
  <2>1. /\ pc' = [pc EXCEPT ![r] = "idle"] /\ pc \in [Builders -> Labels] /\ refreshing \in BOOLEAN
        /\ lock' = lock /\ refreshing' = FALSE /\ pc[r] = "unrefresh"
        /\ r \in Builders
    BY <1>7 DEF EndRefresh, Goto, TypeInv, CacheTypeOK, buildVars, Builders
  <2>2. LockHeld'
    BY <2>1 DEF ControlInv, LockHeld, Locked
  <2>3. Paths' /\ RefreshIsSingleFlight'
    BY <2>1, CacheAssumption DEF ControlInv, Paths, RefreshIsSingleFlight, Builders
  <2> QED BY <2>2, <2>3 DEF ControlInv
<1>8. ASSUME \E b \in Builders, p \in Points : SetHealth(b, p) PROVE ControlInv'
  BY <1>0, <1>8 DEF SetHealth
<1>9. ASSUME SetUsers \/ ReloadVfs \/ AdminStep \/ Evict \/ (\E p \in Points : Flip(p))
      PROVE  ControlInv'
  BY <1>0, <1>9
  DEF SetUsers, ReloadVfs, AdminStep, BumpGeneration, DropFull, DropDegraded, DropPoint,
      EndInvalidate, Evict, Flip, buildVars
<1>10. CASE UNCHANGED vfsVars
  BY <1>0, <1>10 DEF vfsVars
<1> QED
  BY <1>1, <1>2, <1>3, <1>4, <1>5, <1>6, <1>7, <1>8, <1>9, <1>10
  DEF CacheNext, RequestStep, BuildStep

\* However many tasks there are to spawn a refresh as and however requests,
\* builds and invalidations interleave, refresh_degraded never has two builds of
\* a user under way, and its mark is set exactly while one is.
THEOREM RefreshSingleFlight == CacheSpec => []RefreshIsSingleFlight
<1>1. ControlInv => RefreshIsSingleFlight
  BY DEF ControlInv
<1> QED BY <1>1, TypeInvInit, TypeInvStep, ControlInit, ControlStep, PTL DEF CacheSpec

-----------------------------------------------------------------------------
LEMMA OperatorInit == CacheInit => OperatorInv
BY DEF CacheInit, OperatorInv, OtherCleared, OneOperatorCached, Builders

\* Dropping an entry, and moving a builder other than to its insertion,
\* keeps the caches right.
LEMMA DropKeepsCache ==
  ASSUME TypeInv, OperatorInv, vfsOps' \in {vfsOps, NoEntry}, degradedOps' \in {degradedOps, NoEntry},
         \A b \in Builders :
           pc'[b] = "insert" => pc[b] = "insert" /\ mounted'[b] = mounted[b]
  PROVE  OperatorInv'
<1>1. OtherCleared'
  BY DEF OperatorInv, OtherCleared, Degraded
<1>2. OneOperatorCached'
  BY DEF OperatorInv, OneOperatorCached
<1> QED BY <1>1, <1>2 DEF OperatorInv

LEMMA OperatorStep == TypeInv /\ ControlInv /\ OperatorInv /\ [CacheNext]_vfsVars => OperatorInv'
<1> SUFFICES ASSUME TypeInv, ControlInv, OperatorInv, [CacheNext]_vfsVars PROVE OperatorInv'
  OBVIOUS
<1>0. pc \in [Builders -> Labels] /\ mounted \in [Builders -> SUBSET Points]
  BY DEF TypeInv, CacheTypeOK
<1>1. ASSUME NEW t \in Tasks, GetUser(t) \/ RequestStep(t) PROVE OperatorInv'
  <2>1. UNCHANGED <<vfsOps, degradedOps, mounted>>
    BY <1>1
    DEF GetUser, RequestStep, GetFull, GetDegraded, RefreshDegraded, GetData, InsertData,
        cacheVars, buildVars
  <2>2. ASSUME NEW b \in Builders, pc'[b] = "insert" PROVE pc[b] = "insert"
    BY <1>0, <1>1, <2>2
    DEF GetUser, RequestStep, GetFull, GetDegraded, RefreshDegraded, SpawnRefresh, GetData,
        InsertData, Answer, Goto, Builders
  <2> QED BY <2>1, <2>2, DropKeepsCache
<1>2. ASSUME NEW b \in Builders, Lock(b) \/ ReadGeneration(b) PROVE OperatorInv'
  BY <1>0, <1>2, DropKeepsCache DEF Lock, ReadGeneration, Goto, cacheVars
<1>3. ASSUME NEW b \in Builders, Probe(b) PROVE OperatorInv'
  BY <1>0, <1>3, DropKeepsCache DEF Probe, Goto, cacheVars
<1>4. ASSUME NEW b \in Builders, Recheck(b) PROVE OperatorInv'
  BY <1>0, <1>4, DropKeepsCache DEF Recheck, Finish, Goto, cacheVars
<1>5. ASSUME NEW b \in Builders, CheckGeneration(b) PROVE OperatorInv'
  BY <1>0, <1>5, DropKeepsCache DEF CheckGeneration, Finish, Goto, cacheVars
<1>6. ASSUME NEW b \in Builders, NEW p \in Points, SetHealth(b, p) PROVE OperatorInv'
  BY <1>6, DropKeepsCache DEF SetHealth
<1>7. ASSUME NEW b \in Builders, ClearOther(b) PROVE OperatorInv'
  <2>1. /\ pc' = [pc EXCEPT ![b] = "insert"] /\ mounted' = mounted
        /\ IF Degraded(b)
           THEN vfsOps' = NoEntry /\ degradedOps' = degradedOps
           ELSE degradedOps' = NoEntry /\ vfsOps' = vfsOps
    BY <1>7 DEF ClearOther, Goto, buildVars
  <2>2. OtherCleared'
    BY <1>0, <2>1 DEF OperatorInv, OtherCleared, Degraded
  <2>3. OneOperatorCached'
    BY <2>1 DEF OperatorInv, OneOperatorCached
  <2> QED BY <2>2, <2>3 DEF OperatorInv
<1>8. ASSUME NEW b \in Builders, Insert(b) PROVE OperatorInv'
  <2>1. \A c \in Builders : pc'[c] # "insert"
    <3>1. pc[b] = "insert" /\ pc' = [pc EXCEPT ![b] = IF b \in Refreshers THEN "unrefresh" ELSE "idle"]
      BY <1>8 DEF Insert, Finish, Goto
    <3> QED BY <1>0, <3>1 DEF ControlInv, LockHeld, Locked
  <2>2. OtherCleared'
    BY <2>1 DEF OtherCleared
  <2>3. OneOperatorCached'
    BY <1>8 DEF Insert, OperatorInv, OtherCleared, OneOperatorCached, Degraded
  <2> QED BY <2>2, <2>3 DEF OperatorInv
<1>9. ASSUME NEW r \in Refreshers, EndRefresh(r) PROVE OperatorInv'
  BY <1>0, <1>9, DropKeepsCache DEF EndRefresh, Goto, Builders, cacheVars, buildVars
<1>10. ASSUME SetUsers \/ ReloadVfs \/ AdminStep \/ Evict \/ (\E p \in Points : Flip(p))
       PROVE  OperatorInv'
  BY <1>10, DropKeepsCache
  DEF SetUsers, ReloadVfs, AdminStep, BumpGeneration, DropFull, DropDegraded, DropPoint,
      EndInvalidate, Evict, Flip, cacheVars, buildVars
<1>11. CASE UNCHANGED vfsVars
  BY <1>11, DropKeepsCache DEF vfsVars
<1> QED
  BY <1>1, <1>2, <1>3, <1>4, <1>5, <1>6, <1>7, <1>8, <1>9, <1>10, <1>11 DEF CacheNext, BuildStep

\* Whatever builds, refreshes, invalidations and evictions interleave, the
\* full and the degraded cache never both hold an operator, and the full
\* one mounts every point (build_vfs).
THEOREM OneOperator == CacheSpec => []OneOperatorCached
<1>1. OperatorInv => OneOperatorCached
  BY DEF OperatorInv
<1> QED
  BY <1>1, TypeInvInit, TypeInvStep, ControlInit, ControlStep, OperatorInit, OperatorStep, PTL
  DEF CacheSpec
=============================================================================
