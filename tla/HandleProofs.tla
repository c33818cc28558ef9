---------------------------- MODULE HandleProofs -----------------------------
(***************************************************************************)
(* Proofs about the handles clients read and write through.                *)
(*                                                                         *)
(* ReadHandles, for any number of readers, writers, configurations and     *)
(* files: type correctness, and that a read answers with old data only if  *)
(* it raced the change.                                                    *)
(*                                                                         *)
(* WriteHandles, for any number of files, handles and requests and any     *)
(* quota: type correctness, that nothing is written through a handle after *)
(* its last sync, and that a handle is closed once.                        *)
(***************************************************************************)
EXTENDS ReadHandles, WriteHandles, FoldTheorems

-----------------------------------------------------------------------------
(* ReadHandles *)

-----------------------------------------------------------------------------
(* The invariant. *)

\* Where a read has no handle, has one in use, and has one of its own that
\* is not in the map yet.
Empty == {"idle", "lookup", "stat", "open"}
Using == {"check", "read"}

HandleHeld ==
  \A r \in Readers : IF pc[r] \in Empty THEN handle[r] = NoHandle ELSE handle[r] \in Handles

\* A handle that is about to be inserted is nobody else's, and unexpired.
Fresh ==
  \A r \in Readers :
    pc[r] = "insert" =>
      /\ handle[r] # map
      /\ \A q \in Readers \ {r} : handle[q] # handle[r]
      /\ ~ info[handle[r]].expired

\* What an answer from an unexpired handle needs to be right: it was opened
\* under the present configuration, on the file that is there (a remote
\* handle finds it by path), which has not grown since.
Current(i) ==
  /\ i.cfg = cfg
  /\ cfg \notin Remote => i.obj = at[cfg]
  /\ at[cfg] # NoObject
  /\ len[at[cfg]] <= i.len

\* A read that is being opened and that no change has overlapped.
Undisturbed(r) == Opening(r) /\ ~ late[r] /\ admin = "idle"

\* A write under way overlaps every opening, and what is in the map was
\* opened meanwhile.
WriteOverlaps ==
  Writing => /\ \A r \in Readers : Opening(r) => late[r]
             /\ map # NoHandle => info[map].suspect

QuietIdle == \A r \in Readers : quiet[r] => admin = "idle"

\* An undisturbed opening follows the present configuration, and what it has
\* found is still right.
OpeningOK(r) ==
  Undisturbed(r) =>
    /\ user[r] = cfg
    /\ pc[r] = "open" => at[cfg] # NoObject /\ len[at[cfg]] <= found[r]
    /\ pc[r] = "insert" => Current(info[handle[r]])

\* The handle in the map is right, unless it is suspect or SetVfs has yet to
\* invalidate it.
MapCurrent ==
  map # NoHandle /\ admin = "idle" /\ ~ info[map].suspect => Current(info[map])

\* A quiet read's handle is right, unless it is suspect or expired.
UsedOK(r) ==
  quiet[r] /\ pc[r] \in Using /\ ~ info[handle[r]].suspect /\ ~ info[handle[r]].expired
    => Current(info[handle[r]])

ControlInv == HandleHeld /\ Fresh
FreshInv ==
  /\ WriteOverlaps /\ QuietIdle /\ MapCurrent
  /\ \A r \in Readers : OpeningOK(r) /\ UsedOK(r)

\* No two configurations lead to the same file.
OneFileEach == \A b, c \in Configs : at[b] = at[c] /\ at[b] # NoObject => b = c
Inv == TypeOK /\ ControlInv /\ OneFileEach /\ FreshInv

-----------------------------------------------------------------------------
(* Records, and the handles that are dropped. *)

\* The parts of TypeOK: the types of the variables, and what becomes of
\* handles.
Base ==
  /\ changes \in 0 .. MaxChanges
  /\ cfg \in Configs
  /\ at \in [Configs -> Objects \cup {NoObject}]
  /\ len \in [Objects -> Lens]
  /\ map \in Handles \cup {NoHandle}
  /\ info \in [Handles -> Infos]
  /\ pc \in [Readers -> {"idle", "lookup", "check", "stat", "open", "insert", "read"}]
  /\ user \in [Readers -> Configs]
  /\ handle \in [Readers -> Handles \cup {NoHandle}]
  /\ found \in [Readers -> Lens]
  /\ late \in [Readers -> BOOLEAN] /\ quiet \in [Readers -> BOOLEAN]
  /\ wpc \in [Writers -> {"idle", "write"}] /\ wcfg \in [Writers -> Configs]
  /\ admin \in {"idle", "invalidate"} /\ reaping \in BOOLEAN
Dropped == \A h \in Handles : h \notin Live(map, handle) => info[h] = NoInfo
MapUnexpired == map # NoHandle => ~ info[map].expired

LEMMA TypeParts == TypeOK <=> Base /\ Dropped /\ MapUnexpired
BY DEF TypeOK, Base, Dropped, MapUnexpired

LEMMA NoInfoType ==
  /\ NoInfo \in Infos /\ NoInfo.cfg \in Configs /\ NoInfo.obj = NoObject /\ NoInfo.len = 0
  /\ ~ NoInfo.idle /\ ~ NoInfo.expired /\ ~ NoInfo.suspect /\ 0 \in Lens
<1>1. (CHOOSE c \in Configs : TRUE) \in Configs /\ 0 \in Lens
  BY ReadAssumption DEF Lens
<1> QED BY <1>1 DEF NoInfo, Infos

\* What is in the map or held by a read is live.
LEMMA LiveIs ==
  ASSUME NEW m, NEW held, NEW h \in Handles
  PROVE  h \in Live(m, held) <=> h = m \/ \E r \in Readers : h = held[r]
BY ReadAssumption DEF Live

\* Live handles keep their contents, the others lose them.
LEMMA Keeps ==
  ASSUME NEW m, NEW held, NEW i \in [Handles -> Infos]
  PROVE  /\ Keep(m, held, i) \in [Handles -> Infos]
         /\ \A h \in Handles : h \in Live(m, held) => Keep(m, held, i)[h] = i[h]
         /\ \A h \in Handles : h \notin Live(m, held) => Keep(m, held, i)[h] = NoInfo
BY NoInfoType DEF Keep

\* There is a handle left for a read that has none.
LEMMA FreeHandle ==
  ASSUME Base, NEW r \in Readers, handle[r] = NoHandle
  PROVE  \E h \in Handles : h \notin Live(map, handle)
<1> DEFINE held == {handle[q] : q \in Readers \ {r}}
<1>1. IsFiniteSet(Readers \ {r}) /\ Cardinality(Readers \ {r}) = Cardinality(Readers) - 1
  BY ReadAssumption, FS_RemoveElement
<1>2. IsFiniteSet(held) /\ Cardinality(held) <= Cardinality(Readers \ {r})
  <2>1. [q \in Readers \ {r} |-> handle[q]] \in Surjection(Readers \ {r}, held)
    BY DEF Surjection
  <2> HIDE DEF held
  <2> QED BY <1>1, <2>1, FS_Surjection
<1>3. IsFiniteSet(held \cup {map}) /\ Cardinality(held \cup {map}) <= Cardinality(held) + 1
  <2> HIDE DEF held
  <2>1. Cardinality(held) \in Nat
    BY <1>2, FS_CardinalityType
  <2>2. /\ IsFiniteSet(held \cup {map})
        /\ Cardinality(held \cup {map}) = IF map \in held THEN Cardinality(held) ELSE Cardinality(held) + 1
    BY <1>2, FS_AddElement
  <2> QED BY <2>1, <2>2
<1>4. Live(map, handle) \subseteq held \cup {map}
  BY DEF Live
<1>5. IsFiniteSet(Live(map, handle)) /\ Cardinality(Live(map, handle)) <= Cardinality(held \cup {map})
  BY <1>3, <1>4, FS_Subset
<1>6. ~ (Handles \subseteq Live(map, handle))
  <2>1. ASSUME Handles \subseteq Live(map, handle) PROVE FALSE
    <3>1. Cardinality(Handles) <= Cardinality(Live(map, handle))
      BY <1>5, <2>1, FS_Subset
    <3>2. /\ Cardinality(Handles) \in Nat /\ Cardinality(Live(map, handle)) \in Nat
          /\ Cardinality(held \cup {map}) \in Nat /\ Cardinality(held) \in Nat
          /\ Cardinality(Readers) \in Nat /\ Cardinality(Readers \ {r}) \in Nat
      BY <1>1, <1>2, <1>3, <1>5, FS_CardinalityType, ReadAssumption
    <3>3. Cardinality(Handles) > Cardinality(Readers)
      BY ReadAssumption
    <3> HIDE DEF held
    <3> QED BY <1>1, <1>2, <1>3, <1>5, <3>1, <3>2, <3>3
  <2> QED BY <2>1
<1> QED BY <1>6

-----------------------------------------------------------------------------
(* Type correctness. *)

\* What the end of a read leaves behind.
LEMMA EndsEffect ==
  ASSUME TypeOK, NEW r \in Readers, Ends(r), UNCHANGED map
  PROVE  /\ pc' = [pc EXCEPT ![r] = "idle"] /\ user' \in [Readers -> Configs]
         /\ late' = [late EXCEPT ![r] = FALSE] /\ quiet' = [quiet EXCEPT ![r] = FALSE]
         /\ handle' = [handle EXCEPT ![r] = NoHandle] /\ found' \in [Readers -> Lens]
         /\ user' = [user EXCEPT ![r] = NoInfo.cfg] /\ found' = [found EXCEPT ![r] = 0]
         /\ info' \in [Handles -> Infos] /\ Dropped'
         /\ \A h \in Handles : h \in Live(map', handle') => info'[h] = info[h]
<1>1. info \in [Handles -> Infos] /\ handle' = [handle EXCEPT ![r] = NoHandle]
  BY DEF TypeOK, Ends
<1>2. /\ info' \in [Handles -> Infos]
      /\ \A h \in Handles : h \in Live(map', handle') => info'[h] = info[h]
      /\ \A h \in Handles : h \notin Live(map', handle') => info'[h] = NoInfo
  BY <1>1, Keeps DEF Ends
<1>3. Dropped'
  BY <1>2 DEF Dropped, Live
<1> QED BY <1>1, <1>2, <1>3, NoInfoType DEF Ends, Opened, Goto, TypeOK

\* What an invalidation does.
LEMMA InvalidateEffect ==
  ASSUME TypeOK, Invalidate, UNCHANGED handle
  PROVE  /\ map' = NoHandle /\ info' \in [Handles -> Infos] /\ Dropped' /\ MapUnexpired'
         /\ \A h \in Handles : h \in Live(map', handle') =>
              IF h = map THEN info'[h] = [info[h] EXCEPT !.expired = TRUE] ELSE info'[h] = info[h]
<1> DEFINE i == IF map = NoHandle THEN info ELSE [info EXCEPT ![map].expired = TRUE]
<1>1. i \in [Handles -> Infos]
  <2>1. \A x \in Infos : [x EXCEPT !.expired = TRUE] \in Infos
    BY DEF Infos
  <2> QED BY <2>1 DEF TypeOK
<1>2. \A h \in Handles : IF h = map THEN i[h] = [info[h] EXCEPT !.expired = TRUE] ELSE i[h] = info[h]
  BY ReadAssumption DEF TypeOK
<1> HIDE DEF i
<1>3. map' = NoHandle /\ info' = Keep(map', handle, i)
  BY DEF Invalidate, i
<1>4. /\ info' \in [Handles -> Infos]
      /\ \A h \in Handles : h \in Live(map', handle) => info'[h] = i[h]
      /\ \A h \in Handles : h \notin Live(map', handle) => info'[h] = NoInfo
  BY <1>1, <1>3, Keeps
<1>5. Live(map', handle') = Live(map', handle)
  BY DEF Live
<1>6. Dropped'
  BY <1>4, <1>5 DEF Dropped, Live
<1>7. MapUnexpired'
  BY <1>3 DEF MapUnexpired
<1>8. \A h \in Handles : h \in Live(map', handle') =>
        IF h = map THEN info'[h] = [info[h] EXCEPT !.expired = TRUE] ELSE info'[h] = info[h]
  BY <1>2, <1>4, <1>5
<1> QED BY <1>3, <1>4, <1>6, <1>7, <1>8

\* A change past the handle marks the one in the map, if it leads to the file.
LEMMA BehindEffect ==
  ASSUME TypeOK, NEW c \in Configs, BehindItsBack(c), UNCHANGED <<map, handle>>
  PROVE  /\ info' \in [Handles -> Infos] /\ Dropped' /\ MapUnexpired'
         /\ \A h \in Handles :
              IF h = map /\ info[h].cfg = c
              THEN info'[h] = [info[h] EXCEPT !.suspect = TRUE] ELSE info'[h] = info[h]
<1>1. /\ info' \in [Handles -> Infos]
      /\ \A h \in Handles :
           IF h = map /\ info[h].cfg = c
           THEN info'[h] = [info[h] EXCEPT !.suspect = TRUE] ELSE info'[h] = info[h]
  <2>1. /\ info \in [Handles -> Infos] /\ (map = NoHandle \/ map \in Handles) /\ NoHandle \notin Handles
        /\ info' = IF map # NoHandle /\ info[map].cfg = c
                   THEN [info EXCEPT ![map].suspect = TRUE] ELSE info
    BY ReadAssumption DEF TypeOK, BehindItsBack
  <2>2. \A x \in Infos : [x EXCEPT !.suspect = TRUE] \in Infos
    BY DEF Infos
  <2> QED BY <2>1, <2>2
<1>2. Dropped'
  <2>1. ASSUME NEW h \in Handles, h \notin Live(map', handle') PROVE info'[h] = NoInfo
    <3>1. h \notin Live(map, handle) /\ h # map
      BY <2>1, LiveIs DEF Live
    <3> QED BY <1>1, <3>1 DEF TypeOK
  <2> QED BY <2>1 DEF Dropped
<1>3. MapUnexpired'
  BY <1>1, ReadAssumption DEF TypeOK, MapUnexpired, Infos
<1> QED BY <1>1, <1>2, <1>3

\* What a change of the file under configuration c leaves to the others.
OthersKept(c) ==
  \A b \in Configs \ {c} : at'[b] = at[b] /\ (at[b] # NoObject => len'[at[b]] = len[at[b]])

LEMMA PutFile ==
  ASSUME TypeOK, NEW c \in Configs, NEW o \in Objects, NEW l \in Lens,
         o \in Unused \/ o = at[c],
         at' = [at EXCEPT ![c] = o], len' = [len EXCEPT ![o] = l]
  PROVE  /\ at' \in [Configs -> Objects \cup {NoObject}] /\ len' \in [Objects -> Lens]
         /\ at'[c] = o /\ len'[o] = l
         /\ OneFileEach => OneFileEach' /\ OthersKept(c)
<1>1. /\ at \in [Configs -> Objects \cup {NoObject}] /\ len \in [Objects -> Lens]
      /\ o \in Unused => \A b \in Configs : at[b] # o
  BY DEF TypeOK, Unused
<1>2. at' \in [Configs -> Objects \cup {NoObject}] /\ len' \in [Objects -> Lens]
  BY <1>1
<1>3. at'[c] = o /\ len'[o] = l /\ \A b \in Configs \ {c} : at'[b] = at[b]
  BY <1>1
<1>4. ASSUME OneFileEach PROVE OneFileEach' /\ OthersKept(c)
  <2>1. \A b \in Configs \ {c} : at[b] # o
    BY <1>1, <1>4, ReadAssumption DEF OneFileEach
  <2>2. OneFileEach'
    BY <1>3, <1>4, <2>1 DEF OneFileEach
  <2>3. ASSUME NEW b \in Configs \ {c}, at[b] # NoObject PROVE len'[at[b]] = len[at[b]]
    BY <1>1, <2>1, <2>3
  <2> QED BY <1>3, <2>2, <2>3 DEF OthersKept
<1> QED BY <1>2, <1>3, <1>4

LEMMA SetFileType ==
  ASSUME TypeOK, NEW c \in Configs, NEW l \in Lens, SetFile(c, l)
  PROVE  /\ at' \in [Configs -> Objects \cup {NoObject}] /\ len' \in [Objects -> Lens]
         /\ at'[c] \in Objects /\ len'[at'[c]] = l
         /\ at[c] # NoObject => at' = at
         /\ OneFileEach => OneFileEach' /\ OthersKept(c)
<1> DEFINE o == IF at[c] = NoObject THEN CHOOSE x \in Unused : TRUE ELSE at[c]
<1>1. o \in Objects /\ (o \in Unused \/ o = at[c])
  BY DEF SetFile, Unused, TypeOK
<1>2. at' = [at EXCEPT ![c] = o] /\ len' = [len EXCEPT ![o] = l]
  BY DEF SetFile
<1>3. at[c] # NoObject => o = at[c]
  OBVIOUS
<1> HIDE DEF o
<1>4. /\ at' \in [Configs -> Objects \cup {NoObject}] /\ len' \in [Objects -> Lens]
      /\ at'[c] = o /\ len'[o] = l
      /\ OneFileEach => OneFileEach' /\ OthersKept(c)
  BY <1>1, <1>2, PutFile
<1> QED BY <1>1, <1>2, <1>3, <1>4 DEF TypeOK

\* The changes of the file under configuration c.
Changes(c) == Touch(c) \/ Remove(c) \/ JobWrites(c) \/ RemoteChange(c)

LEMMA ChangeEffect ==
  ASSUME TypeOK, NEW c \in Configs, Changes(c)
  PROVE  /\ at' \in [Configs -> Objects \cup {NoObject}] /\ len' \in [Objects -> Lens]
         /\ OneFileEach => OneFileEach' /\ OthersKept(c)
<1>0. 0 \in Lens /\ at \in [Configs -> Objects \cup {NoObject}] /\ len \in [Objects -> Lens]
  BY ReadAssumption DEF Lens, TypeOK
<1>1. CASE Touch(c)
  BY <1>0, <1>1, SetFileType DEF Touch
<1>2. CASE Remove(c)
  <2>1. /\ at' = [at EXCEPT ![c] = NoObject] /\ at[c] # NoObject
        /\ len' = [o \in Objects |-> IF o = at[c] /\ o \notin {info[h].obj : h \in Handles} THEN 0
                                     ELSE len[o]]
    BY <1>2 DEF Remove
  <2>2. \A o \in Objects : len'[o] \in {0, len[o]} /\ (o # at[c] => len'[o] = len[o])
    BY <2>1
  <2>3. len' \in [Objects -> Lens]
    BY <1>0, <2>1
  <2> QED BY <1>0, <2>1, <2>2, <2>3 DEF OneFileEach, OthersKept
<1>3. CASE JobWrites(c)
  <2>1. PICK o \in Unused \cup ({at[c]} \ {NoObject}), l \in Lens :
          at' = [at EXCEPT ![c] = o] /\ len' = [len EXCEPT ![o] = l]
    BY <1>3 DEF JobWrites
  <2>2. o \in Objects /\ (o \in Unused \/ o = at[c])
    BY <1>0, <2>1 DEF Unused
  <2> QED BY <2>1, <2>2, PutFile
<1>4. CASE RemoteChange(c)
  <2>1. CASE \E l \in Lens : SetFile(c, l)
    BY <2>1, SetFileType
  <2>2. CASE at' = [at EXCEPT ![c] = NoObject] /\ UNCHANGED len
    BY <1>0, <2>2 DEF OneFileEach, OthersKept
  <2> QED BY <1>4, <2>1, <2>2 DEF RemoteChange
<1> QED BY <1>1, <1>2, <1>3, <1>4 DEF Changes

LEMMA TypeInit == Init => TypeOK
<1> SUFFICES ASSUME Init PROVE TypeOK
  OBVIOUS
<1>1. at \in [Configs -> Objects]
  BY ReadAssumption DEF Init
<1>2. len \in [Objects -> Lens]
  BY ReadAssumption DEF Init, Lens
<1>3. Base
  <2>1. 0 \in 0 .. MaxChanges
    BY ReadAssumption
  <2> QED BY <1>1, <1>2, <2>1, NoInfoType DEF Init, Base
<1>4. Dropped /\ MapUnexpired
  BY DEF Init, Dropped, MapUnexpired
<1> QED BY <1>3, <1>4, TypeParts

\* Steps that leave the handles alone.
LEMMA SameHandles ==
  ASSUME TypeOK, UNCHANGED <<map, info, handle>>
  PROVE  Dropped' /\ MapUnexpired'
BY DEF TypeOK, Dropped, MapUnexpired, Live

\* A use of a handle, or time, changes `idle`.
LEMMA IdleEffect ==
  ASSUME TypeOK, NEW h \in Handles, h \in Live(map, handle), NEW b \in BOOLEAN,
         info' = [info EXCEPT ![h].idle = b], UNCHANGED <<map, handle>>
  PROVE  /\ info' \in [Handles -> Infos] /\ Dropped' /\ MapUnexpired'
         /\ \A k \in Handles :
              /\ info'[k].expired = info[k].expired /\ info'[k].suspect = info[k].suspect
              /\ info'[k].cfg = info[k].cfg /\ info'[k].obj = info[k].obj
              /\ info'[k].len = info[k].len
<1>1. /\ info' \in [Handles -> Infos]
      /\ \A k \in Handles :
           /\ info'[k].expired = info[k].expired /\ info'[k].suspect = info[k].suspect
           /\ info'[k].cfg = info[k].cfg /\ info'[k].obj = info[k].obj
           /\ info'[k].len = info[k].len
      /\ \A k \in Handles \ {h} : info'[k] = info[k]
  BY DEF TypeOK, Infos
<1>2. Dropped'
  BY <1>1 DEF TypeOK, Dropped, Live
<1>3. MapUnexpired'
  BY <1>1 DEF TypeOK, MapUnexpired
<1> QED BY <1>1, <1>2, <1>3

\* A handle is opened: it is new, and holds what was found.
LEMMA OpenEffect ==
  ASSUME TypeOK, ControlInv, NEW r \in Readers, Open(r), ~ Ends(r)
  PROVE  \E h \in Handles :
           /\ h \notin Live(map, handle)
           /\ handle' = [handle EXCEPT ![r] = h] /\ pc' = [pc EXCEPT ![r] = "insert"]
           /\ info' \in [Handles -> Infos] /\ Dropped' /\ MapUnexpired'
           /\ \A k \in Handles \ {h} : info'[k] = info[k]
           /\ info'[h].cfg = user[r] /\ info'[h].len = found[r]
           /\ ~ info'[h].expired /\ ~ info'[h].suspect
           /\ user[r] \notin Remote => info'[h].obj = at[user[r]] /\ at[user[r]] # NoObject
<1> DEFINE h == CHOOSE h \in Handles : h \notin Live(map, handle)
           o == at[user[r]]
           new == [NoInfo EXCEPT !.obj = IF user[r] \in Remote THEN NoObject ELSE o,
                                 !.cfg = user[r], !.len = found[r]]
<1>1. handle[r] = NoHandle
  BY DEF ControlInv, HandleHeld, Empty, Open
<1>2. h \in Handles /\ h \notin Live(map, handle)
  <2>1. \E k \in Handles : k \notin Live(map, handle)
    BY <1>1, FreeHandle, TypeParts
  <2> QED BY <2>1
<1>3. /\ new \in Infos /\ new.cfg = user[r] /\ new.len = found[r] /\ ~ new.expired /\ ~ new.suspect
      /\ user[r] \notin Remote => new.obj = o
  <2>1. user[r] \in Configs /\ found[r] \in Lens /\ o \in Objects \cup {NoObject}
    BY DEF TypeOK
  <2> QED BY <2>1, NoInfoType DEF Infos, NoInfo
<1>4. /\ o # NoObject \/ user[r] \in Remote
      /\ handle' = [handle EXCEPT ![r] = h] /\ info' = [info EXCEPT ![h] = new]
      /\ pc' = [pc EXCEPT ![r] = "insert"] /\ UNCHANGED map
  BY DEF Open, Goto
<1> HIDE DEF h, new
<1>5. info' \in [Handles -> Infos] /\ info'[h] = new /\ \A k \in Handles \ {h} : info'[k] = info[k]
  BY <1>2, <1>3, <1>4 DEF TypeOK
<1>6. Dropped'
  <2>1. ASSUME NEW k \in Handles, k \notin Live(map', handle') PROVE info'[k] = NoInfo
    <3>1. k # map /\ \A q \in Readers : k # handle'[q]
      BY <1>4, <2>1, LiveIs
    <3>2. k # h /\ \A q \in Readers : k # handle[q]
      BY <1>1, <1>2, <1>4, <3>1, ReadAssumption DEF TypeOK
    <3>3. k \notin Live(map, handle)
      BY <3>1, <3>2, LiveIs
    <3> QED BY <1>5, <3>2, <3>3 DEF TypeOK
  <2> QED BY <2>1 DEF Dropped
<1>7. MapUnexpired'
  BY <1>2, <1>4, <1>5, LiveIs DEF TypeOK, MapUnexpired
<1> QED BY <1>2, <1>3, <1>4, <1>5, <1>6, <1>7

\* The key of an expired handle is removed.
LEMMA DropEffect ==
  ASSUME TypeOK, NEW r \in Readers, map' = NoHandle,
         handle' = [handle EXCEPT ![r] = NoHandle], info' = Keep(map', handle', info)
  PROVE  /\ info' \in [Handles -> Infos] /\ Dropped' /\ MapUnexpired'
         /\ \A h \in Handles : h \in Live(map', handle') => info'[h] = info[h]
<1>1. /\ info' \in [Handles -> Infos]
      /\ \A h \in Handles : h \in Live(map', handle') => info'[h] = info[h]
      /\ \A h \in Handles : h \notin Live(map', handle') => info'[h] = NoInfo
  BY Keeps DEF TypeOK
<1> QED BY <1>1 DEF Dropped, MapUnexpired, Live

\* A handle enters the map; what it displaces may be used instead.
LEMMA InsertEffect ==
  ASSUME TypeOK, ControlInv, NEW r \in Readers, Insert(r)
  PROVE  /\ handle[r] \in Handles /\ handle[r] # map /\ map' = handle[r]
         /\ handle' \in [Readers -> Handles \cup {NoHandle}]
         /\ \A q \in Readers \ {r} : handle'[q] = handle[q]
         /\ handle'[r] = (IF map # NoHandle /\ ~ info[map].expired THEN map ELSE handle[r])
         /\ info' \in [Handles -> Infos] /\ Dropped' /\ MapUnexpired'
         /\ info'[handle[r]] = [info[handle[r]] EXCEPT !.suspect = late[r]]
         /\ \A h \in Handles : h # handle[r] /\ h \in Live(map', handle') => info'[h] = info[h]
<1> DEFINE i == Keep(map', handle', info)
<1>1. handle[r] \in Handles /\ handle[r] # map /\ ~ info[handle[r]].expired /\ map' = handle[r]
  BY DEF ControlInv, HandleHeld, Fresh, Empty, Insert
<1>2. /\ handle' \in [Readers -> Handles \cup {NoHandle}]
      /\ \A q \in Readers \ {r} : handle'[q] = handle[q]
      /\ handle'[r] = (IF map # NoHandle /\ ~ info[map].expired THEN map ELSE handle[r])
  BY DEF Insert, TypeOK
<1>3. /\ i \in [Handles -> Infos]
      /\ \A h \in Handles : h \in Live(map', handle') => i[h] = info[h]
      /\ \A h \in Handles : h \notin Live(map', handle') => i[h] = NoInfo
  BY Keeps DEF TypeOK
<1>4. handle[r] \in Live(map', handle') /\ late[r] \in BOOLEAN
  BY <1>1, LiveIs DEF TypeOK
<1>5. info' = [i EXCEPT ![handle[r]].suspect = late[r]]
  BY <1>1 DEF Insert
<1> HIDE DEF i
<1>6. /\ info' \in [Handles -> Infos]
      /\ info'[handle[r]] = [info[handle[r]] EXCEPT !.suspect = late[r]]
      /\ \A h \in Handles \ {handle[r]} : info'[h] = i[h]
  <2>1. \A x \in Infos, b \in BOOLEAN : [x EXCEPT !.suspect = b] \in Infos
    BY DEF Infos
  <2>2. info'[handle[r]] = [i[handle[r]] EXCEPT !.suspect = late[r]]
    BY <1>1, <1>3, <1>5
  <2>3. \A h \in Handles \ {handle[r]} : info'[h] = i[h]
    BY <1>1, <1>3, <1>5
  <2>4. info' \in [Handles -> Infos]
    BY <1>1, <1>3, <1>4, <1>5, <2>1
  <2> QED BY <1>1, <1>3, <1>4, <2>2, <2>3, <2>4
<1>7. Dropped'
  BY <1>3, <1>4, <1>6 DEF Dropped, Live
<1>8. MapUnexpired'
  <2>1. \A x \in Infos : [x EXCEPT !.suspect = late[r]].expired = x.expired
    BY DEF Infos
  <2> QED BY <1>1, <1>6, <2>1 DEF MapUnexpired, TypeOK
<1> QED BY <1>1, <1>2, <1>3, <1>6, <1>7, <1>8

\* A read is answered.
LEMMA ReadEffect ==
  ASSUME TypeOK, ControlInv, NEW r \in Readers, Read(r)
  PROVE  /\ info' \in [Handles -> Infos] /\ Dropped' /\ MapUnexpired'
         /\ \A h \in Handles : h \in Live(map', handle') =>
              /\ info'[h].expired = info[h].expired /\ info'[h].suspect = info[h].suspect
              /\ info'[h].cfg = info[h].cfg /\ info'[h].obj = info[h].obj
              /\ info'[h].len = info[h].len
<1> DEFINE used == IF Answer(r) = NoAnswer THEN info ELSE [info EXCEPT ![handle[r]].idle = FALSE]
<1>1. handle[r] \in Handles /\ UNCHANGED map
  BY DEF ControlInv, HandleHeld, Empty, Read
<1>2. /\ used \in [Handles -> Infos]
      /\ \A h \in Handles :
           /\ used[h].expired = info[h].expired /\ used[h].suspect = info[h].suspect
           /\ used[h].cfg = info[h].cfg /\ used[h].obj = info[h].obj /\ used[h].len = info[h].len
  <2>1. ASSUME NEW u, u = [info EXCEPT ![handle[r]].idle = FALSE]
        PROVE  /\ u \in [Handles -> Infos]
               /\ \A h \in Handles :
                    /\ u[h].expired = info[h].expired /\ u[h].suspect = info[h].suspect
                    /\ u[h].cfg = info[h].cfg /\ u[h].obj = info[h].obj /\ u[h].len = info[h].len
    <3>1. info \in [Handles -> Infos] /\ info[handle[r]] \in Infos
      BY <1>1 DEF TypeOK
    <3> DEFINE v == [info[handle[r]] EXCEPT !.idle = FALSE]
    <3>2. /\ v \in Infos /\ v.expired = info[handle[r]].expired /\ v.suspect = info[handle[r]].suspect
          /\ v.cfg = info[handle[r]].cfg /\ v.obj = info[handle[r]].obj /\ v.len = info[handle[r]].len
      BY <3>1 DEF Infos
    <3>3. u = [info EXCEPT ![handle[r]] = v]
      BY <2>1
    <3> HIDE DEF v
    <3>4. u \in [Handles -> Infos] /\ \A h \in Handles : u[h] = IF h = handle[r] THEN v ELSE info[h]
      BY <1>1, <3>1, <3>2, <3>3
    <3> QED BY <3>2, <3>4
  <2>2. used = info \/ used = [info EXCEPT ![handle[r]].idle = FALSE]
    OBVIOUS
  <2> HIDE DEF used
  <2> QED BY <2>1, <2>2 DEF TypeOK
<1>3. info' = Keep(map', handle', used)
  BY <1>1 DEF Read
<1> HIDE DEF used
<1>4. /\ info' \in [Handles -> Infos]
      /\ \A h \in Handles : h \in Live(map', handle') => info'[h] = used[h]
      /\ \A h \in Handles : h \notin Live(map', handle') => info'[h] = NoInfo
  BY <1>2, <1>3, Keeps
<1>5. Dropped'
  BY <1>4 DEF Dropped, Live
<1>6. MapUnexpired'
  <2>1. map # NoHandle => map \in Handles /\ map \in Live(map', handle')
    BY <1>1, LiveIs DEF TypeOK
  <2> QED BY <1>1, <1>2, <1>4, <2>1 DEF TypeOK, MapUnexpired
<1> QED BY <1>2, <1>4, <1>5, <1>6

LEMMA TypeStep == TypeOK /\ ControlInv /\ [Next]_vars => TypeOK'
<1> SUFFICES ASSUME TypeOK, ControlInv, [Next]_vars PROVE TypeOK'
  OBVIOUS
<1> SUFFICES Base' /\ Dropped' /\ MapUnexpired'
  BY DEF TypeOK, Base, Dropped, MapUnexpired
<1>1. ASSUME NEW r \in Readers, Start(r) PROVE Base' /\ Dropped' /\ MapUnexpired'
  <2>1. Dropped' /\ MapUnexpired'
    BY <1>1, SameHandles DEF Start
  <2> QED BY <1>1, <2>1 DEF Start, Goto, Base, TypeOK, fileVars, otherVars, Writing
<1>2. ASSUME NEW r \in Readers, Lookup(r) PROVE Base' /\ Dropped' /\ MapUnexpired'
  <2>1. Base'
    BY <1>2 DEF Lookup, Goto, Base, TypeOK, fileVars, otherVars
  <2>2. ASSUME NEW h \in Handles, h \notin Live(map', handle') PROVE info'[h] = NoInfo
    <3>1. handle' = [handle EXCEPT ![r] = map] /\ handle[r] = NoHandle /\ UNCHANGED <<map, info>>
      BY <1>2 DEF Lookup, ControlInv, HandleHeld, Empty
    <3>2. h # map' /\ \A q \in Readers : h # handle'[q]
      BY <2>2, LiveIs
    <3>3. h # map /\ \A q \in Readers : h # handle[q]
      BY <3>1, <3>2, ReadAssumption DEF TypeOK
    <3>4. h \notin Live(map, handle)
      BY <3>3, LiveIs
    <3> QED BY <3>1, <3>4 DEF TypeOK
  <2>3. MapUnexpired'
    BY <1>2 DEF Lookup, TypeOK, MapUnexpired
  <2> QED BY <2>1, <2>2, <2>3 DEF Dropped
<1>3. ASSUME NEW r \in Readers, Check(r) PROVE Base' /\ Dropped' /\ MapUnexpired'
  <2>1. handle[r] \in Handles /\ handle[r] \in Live(map, handle)
    BY <1>3, LiveIs DEF Check, ControlInv, HandleHeld, Empty
  <2>2. CASE info[handle[r]].expired
    <3>1. info' \in [Handles -> Infos] /\ Dropped' /\ MapUnexpired'
      BY <1>3, <2>2, DropEffect DEF Check
    <3> QED BY <1>3, <2>2, <3>1 DEF Check, Goto, Base, TypeOK, fileVars, otherVars
  <2>3. CASE ~ info[handle[r]].expired
    <3>1. info' \in [Handles -> Infos] /\ Dropped' /\ MapUnexpired'
      BY <1>3, <2>1, <2>3, IdleEffect DEF Check
    <3> QED BY <1>3, <2>3, <3>1, NoInfoType DEF Check, Goto, Opened, Base, TypeOK, fileVars, otherVars
  <2> QED BY <2>2, <2>3
<1>4. ASSUME NEW r \in Readers, Stat(r) PROVE Base' /\ Dropped' /\ MapUnexpired'
  <2>1. CASE Ends(r)
    <3>1. UNCHANGED <<fileVars, map, otherVars>>
      BY <1>4 DEF Stat
    <3>2. MapUnexpired'
      <4>1. map # NoHandle => map \in Handles /\ map' \in Live(map', handle')
        BY <3>1, LiveIs DEF TypeOK
      <4> QED BY <2>1, <3>1, <4>1, EndsEffect DEF TypeOK, MapUnexpired
    <3> QED BY <2>1, <3>1, <3>2, EndsEffect DEF Base, TypeOK, fileVars, otherVars
  <2>2. CASE ~ Ends(r)
    <3>1. Dropped' /\ MapUnexpired'
      BY <1>4, <2>2, SameHandles DEF Stat
    <3> QED BY <1>4, <2>2, <3>1 DEF Stat, Goto, Base, TypeOK, fileVars, otherVars
  <2> QED BY <2>1, <2>2
<1>5. ASSUME NEW r \in Readers, Open(r) PROVE Base' /\ Dropped' /\ MapUnexpired'
  <2>1. CASE Ends(r)
    <3>1. UNCHANGED <<fileVars, map, otherVars>>
      BY <1>5 DEF Open
    <3>2. MapUnexpired'
      <4>1. map # NoHandle => map \in Handles /\ map' \in Live(map', handle')
        BY <3>1, LiveIs DEF TypeOK
      <4> QED BY <2>1, <3>1, <4>1, EndsEffect DEF TypeOK, MapUnexpired
    <3> QED BY <2>1, <3>1, <3>2, EndsEffect DEF Base, TypeOK, fileVars, otherVars
  <2>2. CASE ~ Ends(r)
    <3>1. PICK h \in Handles :
            /\ handle' = [handle EXCEPT ![r] = h] /\ pc' = [pc EXCEPT ![r] = "insert"]
            /\ info' \in [Handles -> Infos] /\ Dropped' /\ MapUnexpired'
      BY <1>5, <2>2, OpenEffect
    <3> QED BY <1>5, <2>2, <3>1 DEF Open, Base, TypeOK, fileVars, otherVars
  <2> QED BY <2>1, <2>2
<1>6. ASSUME NEW r \in Readers, Insert(r) PROVE Base' /\ Dropped' /\ MapUnexpired'
  <2>1. /\ map' \in Handles /\ handle' \in [Readers -> Handles \cup {NoHandle}]
        /\ info' \in [Handles -> Infos] /\ Dropped' /\ MapUnexpired'
    BY <1>6, InsertEffect
  <2> QED BY <1>6, <2>1, NoInfoType DEF Insert, Goto, Opened, Base, TypeOK, fileVars, otherVars
<1>7. ASSUME NEW r \in Readers, Read(r) PROVE Base' /\ Dropped' /\ MapUnexpired'
  <2>1. info' \in [Handles -> Infos] /\ Dropped' /\ MapUnexpired'
    BY <1>7, ReadEffect
  <2> QED BY <1>7, <2>1 DEF Read, Goto, Base, TypeOK, fileVars, otherVars
<1>8. ASSUME NEW w \in Writers, WriteStarts(w) PROVE Base' /\ Dropped' /\ MapUnexpired'
  <2>1. map' = NoHandle /\ info' \in [Handles -> Infos] /\ Dropped' /\ MapUnexpired'
    BY <1>8, InvalidateEffect DEF WriteStarts
  <2> QED BY <1>8, <2>1, ReadAssumption DEF WriteStarts, Request, Base, TypeOK, Opening
<1>9. ASSUME NEW w \in Writers, Write(w) PROVE Base' /\ Dropped' /\ MapUnexpired'
  <2>1. Dropped' /\ MapUnexpired'
    BY <1>9, SameHandles DEF Write
  <2>2. at' \in [Configs -> Objects \cup {NoObject}] /\ len' \in [Objects -> Lens]
    BY <1>9, SetFileType DEF Write, TypeOK
  <2> QED BY <1>9, <2>1, <2>2, NoInfoType DEF Write, Disturbed, Base, TypeOK
<1>10. ASSUME NEW c \in Configs, Touch(c) PROVE Base' /\ Dropped' /\ MapUnexpired'
  <2>1. Dropped' /\ MapUnexpired'
    BY <1>10, SameHandles DEF Touch
  <2>2. at' \in [Configs -> Objects \cup {NoObject}] /\ len' \in [Objects -> Lens]
    BY <1>10, ChangeEffect DEF Changes
  <2> QED BY <1>10, <2>1, <2>2, ReadAssumption DEF Touch, Request, Disturbed, Base, TypeOK, otherVars
<1>11. ASSUME NEW c \in Configs, Remove(c) \/ JobWrites(c) \/ RemoteChange(c)
       PROVE  Base' /\ Dropped' /\ MapUnexpired'
  <2>1. info' \in [Handles -> Infos] /\ Dropped' /\ MapUnexpired'
    BY <1>11, BehindEffect DEF Remove, JobWrites, RemoteChange
  <2>2. at' \in [Configs -> Objects \cup {NoObject}] /\ len' \in [Objects -> Lens]
    BY <1>11, ChangeEffect DEF Changes
  <2>3. /\ Request /\ BehindItsBack(c)
        /\ UNCHANGED <<cfg, map, pc, user, handle, found, otherVars>>
    BY <1>11 DEF Remove, JobWrites, RemoteChange
  <2> QED BY <2>1, <2>2, <2>3, ReadAssumption
      DEF Request, BehindItsBack, Disturbed, Base, TypeOK, otherVars, Opening
<1>13. SetVfs => Base' /\ Dropped' /\ MapUnexpired'
  <2> HAVE SetVfs
  <2>1. Dropped' /\ MapUnexpired'
    BY SameHandles DEF SetVfs
  <2> QED BY <2>1, ReadAssumption DEF SetVfs, Request, Disturbed, Base, TypeOK
<1>14. InvalidateUser => Base' /\ Dropped' /\ MapUnexpired'
  <2> HAVE InvalidateUser
  <2>1. map' = NoHandle /\ info' \in [Handles -> Infos] /\ Dropped' /\ MapUnexpired'
    BY InvalidateEffect DEF InvalidateUser
  <2> QED BY <2>1 DEF InvalidateUser, Base, TypeOK, fileVars, Opening
<1>15. Age => Base' /\ Dropped' /\ MapUnexpired'
  <2> HAVE Age
  <2>1. info' \in [Handles -> Infos] /\ Dropped' /\ MapUnexpired'
    <3>1. map \in Handles /\ map \in Live(map, handle) /\ UNCHANGED <<map, handle>>
      BY LiveIs DEF Age, TypeOK, readVars
    <3> QED BY <3>1, IdleEffect DEF Age
  <2> QED BY <2>1 DEF Age, Base, TypeOK, fileVars, readVars, otherVars
<1>16. Tick => Base' /\ Dropped' /\ MapUnexpired'
  <2> HAVE Tick
  <2>1. Dropped' /\ MapUnexpired'
    BY SameHandles DEF Tick, readVars
  <2> QED BY <2>1 DEF Tick, Base, TypeOK, fileVars, readVars
<1>17. Reap => Base' /\ Dropped' /\ MapUnexpired'
  <2> HAVE Reap
  <2>1. map' = NoHandle /\ info' \in [Handles -> Infos] /\ Dropped' /\ MapUnexpired'
    BY InvalidateEffect DEF Reap, readVars
  <2> QED BY <2>1 DEF Reap, Base, TypeOK, fileVars, readVars
<1>18. UNCHANGED vars => Base' /\ Dropped' /\ MapUnexpired'
  <2> HAVE UNCHANGED vars
  <2>1. Dropped' /\ MapUnexpired'
    BY SameHandles DEF vars, readVars
  <2> QED BY <2>1 DEF vars, Base, TypeOK, fileVars, readVars, otherVars
<1> QED
  BY <1>1, <1>2, <1>3, <1>4, <1>5, <1>6, <1>7, <1>8, <1>9, <1>10, <1>11, <1>13, <1>14,
     <1>15, <1>16, <1>17, <1>18
  DEF Next, ReadStep

-----------------------------------------------------------------------------
(* One read steps, the others stay. *)

\* What of a handle the invariant speaks of.
SameInfo(i, k) ==
  /\ i.expired = k.expired /\ i.suspect = k.suspect
  /\ i.cfg = k.cfg /\ i.obj = k.obj /\ i.len = k.len

Stays(q) ==
  /\ pc'[q] = pc[q] /\ handle'[q] = handle[q] /\ user'[q] = user[q]
  /\ found'[q] = found[q] /\ late'[q] = late[q] /\ quiet'[q] = quiet[q]

LEMMA OneReader ==
  ASSUME TypeOK, NEW r \in Readers, Start(r) \/ ReadStep(r)
  PROVE  UNCHANGED <<fileVars, otherVars>> /\ \A q \in Readers \ {r} : Stays(q)
<1>1. CASE Start(r)
  BY <1>1 DEF Start, Goto, Stays, TypeOK
<1>2. CASE Lookup(r)
  BY <1>2 DEF Lookup, Goto, Stays, TypeOK
<1>3. CASE Check(r)
  BY <1>3 DEF Check, Goto, Opened, Stays, TypeOK
<1>4. CASE Stat(r)
  BY <1>4 DEF Stat, Ends, Goto, Opened, Stays, TypeOK
<1>5. CASE Open(r)
  BY <1>5 DEF Open, Ends, Goto, Opened, Stays, TypeOK
<1>6. CASE Insert(r)
  BY <1>6 DEF Insert, Goto, Opened, Stays, TypeOK
<1>7. CASE Read(r)
  BY <1>7 DEF Read, Goto, Stays, TypeOK
<1> QED BY <1>1, <1>2, <1>3, <1>4, <1>5, <1>6, <1>7 DEF ReadStep

\* Only a handle that is being opened or inserted changes in what matters.
LEMMA InfoStays ==
  ASSUME TypeOK, ControlInv, NEW r \in Readers, Start(r) \/ ReadStep(r)
  PROVE  \A h \in Handles :
           /\ h \in Live(map', handle')
           /\ h \in Live(map, handle)
           /\ ~ (Insert(r) /\ h = handle[r])
           => SameInfo(info'[h], info[h])
<1> SUFFICES ASSUME NEW h \in Handles, h \in Live(map', handle'), h \in Live(map, handle),
                    ~ (Insert(r) /\ h = handle[r])
             PROVE  SameInfo(info'[h], info[h])
  OBVIOUS
<1>1. CASE Start(r) \/ Lookup(r)
  BY <1>1 DEF Start, Lookup, SameInfo
<1>2. CASE Check(r)
  <2>1. handle[r] \in Handles /\ handle[r] \in Live(map, handle)
    BY <1>2, LiveIs DEF Check, ControlInv, HandleHeld, Empty
  <2>2. CASE info[handle[r]].expired
    BY <1>2, <2>2, DropEffect DEF Check, SameInfo
  <2>3. CASE ~ info[handle[r]].expired
    BY <1>2, <2>1, <2>3, IdleEffect DEF Check, SameInfo
  <2> QED BY <2>2, <2>3
<1>3. CASE Ends(r) /\ (Stat(r) \/ Open(r))
  BY <1>3, EndsEffect DEF Stat, Open, SameInfo
<1>4. CASE Stat(r) /\ ~ Ends(r)
  BY <1>4 DEF Stat, SameInfo
<1>5. CASE Open(r) /\ ~ Ends(r)
  BY <1>5, OpenEffect DEF SameInfo
<1>6. CASE Insert(r)
  BY <1>6, InsertEffect DEF SameInfo
<1>7. CASE Read(r)
  BY <1>7, ReadEffect DEF SameInfo
<1> QED BY <1>1, <1>2, <1>3, <1>4, <1>5, <1>6, <1>7 DEF ReadStep

-----------------------------------------------------------------------------
(* Who holds what. *)

LEMMA ControlInit == Init => ControlInv
BY DEF Init, ControlInv, HandleHeld, Fresh, Empty

\* Reads and their handles stay, and no handle of theirs expires unless it is
\* in the map.
LEMMA ControlSame ==
  ASSUME TypeOK, ControlInv, UNCHANGED <<pc, handle>>, map' \in {map, NoHandle},
         \A h \in Handles : h # map /\ h \in Live(map', handle') =>
           info'[h].expired = info[h].expired
  PROVE  ControlInv'
<1>1. HandleHeld'
  BY DEF ControlInv, HandleHeld
<1>2. ASSUME NEW r \in Readers, pc[r] = "insert"
      PROVE  handle[r] # map' /\ ~ info'[handle[r]].expired
  <2>1. handle[r] \in Handles /\ handle[r] # map /\ ~ info[handle[r]].expired
    BY <1>2 DEF ControlInv, HandleHeld, Fresh, Empty
  <2>2. handle[r] \in Live(map', handle')
    BY <2>1, LiveIs
  <2> QED BY <2>1, <2>2, ReadAssumption
<1>3. Fresh'
  BY <1>2 DEF ControlInv, Fresh
<1> QED BY <1>1, <1>3 DEF ControlInv

LEMMA ControlRead ==
  ASSUME TypeOK, ControlInv, NEW r \in Readers, Start(r) \/ ReadStep(r)
  PROVE  ControlInv'
<1>1. \A q \in Readers \ {r} : Stays(q)
  BY OneReader
<1>2. /\ pc'[r] \in Empty => handle'[r] = NoHandle
      /\ pc'[r] \notin Empty => handle'[r] \in Handles
      /\ map' \in {map, NoHandle} \/ (Insert(r) /\ map' = handle[r])
      /\ handle'[r] \in {NoHandle, handle[r], map} \/ pc'[r] = "insert"
      /\ pc'[r] = "insert" =>
           /\ handle'[r] \notin Live(map, handle) /\ handle'[r] # map'
           /\ ~ info'[handle'[r]].expired
  <2>1. CASE Start(r)
    BY <2>1, <1>1 DEF Start, Goto, TypeOK, ControlInv, HandleHeld, Empty
  <2>2. CASE Lookup(r)
    BY <2>2, <1>1 DEF Lookup, Goto, TypeOK, ControlInv, HandleHeld, Empty
  <2>3. CASE Check(r)
    BY <2>3, <1>1 DEF Check, Goto, TypeOK, ControlInv, HandleHeld, Empty
  <2>4. CASE Ends(r) /\ (Stat(r) \/ Open(r))
    BY <2>4 DEF Stat, Open, Ends, Goto, TypeOK, Empty
  <2>5. CASE Stat(r) /\ ~ Ends(r)
    BY <2>5 DEF Stat, Goto, TypeOK, ControlInv, HandleHeld, Empty
  <2>6. CASE Open(r) /\ ~ Ends(r)
    <3>1. PICK h \in Handles :
            /\ h \notin Live(map, handle)
            /\ handle' = [handle EXCEPT ![r] = h] /\ pc' = [pc EXCEPT ![r] = "insert"]
            /\ ~ info'[h].expired
      BY <2>6, OpenEffect
    <3>2. handle'[r] = h /\ pc'[r] = "insert" /\ h # map /\ map' = map
      BY <2>6, <3>1, LiveIs DEF TypeOK, Open
    <3> QED BY <3>1, <3>2 DEF Empty
  <2>7. CASE Insert(r)
    <3>1. pc'[r] = "read"
      BY <2>7 DEF Insert, Goto, TypeOK
    <3>2. /\ handle[r] \in Handles /\ map' = handle[r]
          /\ handle'[r] = (IF map # NoHandle /\ ~ info[map].expired THEN map ELSE handle[r])
      BY <2>7, InsertEffect
    <3> QED BY <2>7, <3>1, <3>2 DEF TypeOK, Empty
  <2>8. CASE Read(r)
    BY <2>8 DEF Read, Goto, TypeOK, Empty
  <2> QED BY <2>1, <2>2, <2>3, <2>4, <2>5, <2>6, <2>7, <2>8 DEF ReadStep
<1>3. HandleHeld'
  BY <1>1, <1>2 DEF ControlInv, HandleHeld, Stays
<1>4. ASSUME NEW q \in Readers, pc'[q] = "insert"
      PROVE  /\ handle'[q] # map' /\ ~ info'[handle'[q]].expired
             /\ \A u \in Readers \ {q} : handle'[u] # handle'[q]
  <2>1. CASE q = r
    <3>1. \A u \in Readers \ {q} : handle'[u] = handle[u]
      BY <1>1, <2>1 DEF Stays
    <3>2. handle'[q] \in Handles
      BY <1>2, <1>4, <2>1 DEF Empty
    <3>3. \A u \in Readers \ {q} : handle[u] # handle'[q]
      BY <1>2, <1>4, <2>1, <3>2, LiveIs
    <3> QED BY <1>2, <1>4, <2>1, <3>1, <3>3
  <2>2. CASE q # r
    <3>1. /\ pc[q] = "insert" /\ handle'[q] = handle[q] /\ handle[q] \in Handles /\ handle[q] # map
          /\ ~ info[handle[q]].expired /\ \A u \in Readers \ {q} : handle[u] # handle[q]
      BY <1>1, <1>4, <2>2 DEF Stays, ControlInv, HandleHeld, Fresh, Empty
    <3>2. handle[q] \in Live(map, handle) /\ handle[q] \in Live(map', handle')
      BY <3>1, LiveIs
    <3>3. handle[q] # map' /\ handle'[r] # handle[q]
      BY <1>2, <2>2, <3>1, <3>2, ReadAssumption
    <3>4. ~ info'[handle[q]].expired
      BY <2>2, <3>1, <3>2, InfoStays DEF SameInfo
    <3> QED BY <1>1, <3>1, <3>3, <3>4 DEF Stays
  <2> QED BY <2>1, <2>2
<1>5. Fresh'
  BY <1>4 DEF Fresh
<1> QED BY <1>3, <1>5 DEF ControlInv

\* The actions of the others leave the reads alone.  They change the handle in
\* the map only: expire it and take it out, or mark it suspect.
OnlyMap ==
  \A h \in Handles : h \in Live(map', handle') =>
    \/ SameInfo(info'[h], info[h])
    \/ h = map /\ map' = NoHandle /\ info'[h].expired
    \/ /\ h = map /\ map' = map /\ info'[h].suspect
       /\ info'[h].expired = info[h].expired

LEMMA InvalidateOnlyMap ==
  ASSUME TypeOK, Invalidate, UNCHANGED handle
  PROVE  map' = NoHandle /\ OnlyMap
<1>1. \A x \in Infos : [x EXCEPT !.expired = TRUE].expired
  BY DEF Infos
<1>2. ASSUME NEW h \in Handles, h \in Live(map', handle')
      PROVE  SameInfo(info'[h], info[h]) \/ (h = map /\ map' = NoHandle /\ info'[h].expired)
  <2>1. CASE h = map
    <3>1. map' = NoHandle /\ info'[h] = [info[h] EXCEPT !.expired = TRUE] /\ info[h] \in Infos
      BY <1>2, <2>1, InvalidateEffect DEF TypeOK
    <3> QED BY <1>1, <2>1, <3>1
  <2>2. CASE h # map
    <3>1. info'[h] = info[h]
      BY <1>2, <2>2, InvalidateEffect
    <3> QED BY <3>1 DEF SameInfo
  <2> QED BY <2>1, <2>2
<1>3. map' = NoHandle
  BY DEF Invalidate
<1> QED BY <1>2, <1>3 DEF OnlyMap

LEMMA BehindOnlyMap ==
  ASSUME TypeOK, NEW c \in Configs, BehindItsBack(c), UNCHANGED <<map, handle>>
  PROVE  OnlyMap
<1>1. \A x \in Infos : /\ [x EXCEPT !.suspect = TRUE].suspect
                       /\ [x EXCEPT !.suspect = TRUE].expired = x.expired
  BY DEF Infos
<1>2. ASSUME NEW h \in Handles
      PROVE  \/ SameInfo(info'[h], info[h])
             \/ h = map /\ map' = map /\ info'[h].suspect /\ info'[h].expired = info[h].expired
  <2>1. CASE h = map /\ info[h].cfg = c
    <3>1. info'[h] = [info[h] EXCEPT !.suspect = TRUE] /\ info[h] \in Infos
      BY <2>1, BehindEffect DEF TypeOK
    <3> QED BY <1>1, <2>1, <3>1
  <2>2. CASE ~ (h = map /\ info[h].cfg = c)
    <3>1. info'[h] = info[h]
      BY <2>2, BehindEffect
    <3> QED BY <3>1 DEF SameInfo
  <2> QED BY <2>1, <2>2
<1> QED BY <1>2 DEF OnlyMap

LEMMA OtherActions ==
  ASSUME TypeOK, [Next]_vars, ~ \E r \in Readers : Start(r) \/ ReadStep(r)
  PROVE  UNCHANGED <<pc, user, handle, found>> /\ map' \in {map, NoHandle} /\ OnlyMap
<1>1. ASSUME NEW w \in Writers, WriteStarts(w)
      PROVE  UNCHANGED <<pc, user, handle, found>> /\ map' \in {map, NoHandle} /\ OnlyMap
  BY <1>1, InvalidateOnlyMap DEF WriteStarts
<1>2. InvalidateUser \/ Reap =>
        UNCHANGED <<pc, user, handle, found>> /\ map' \in {map, NoHandle} /\ OnlyMap
  BY InvalidateOnlyMap DEF InvalidateUser, Reap, readVars
<1>3. ASSUME NEW w \in Writers, Write(w)
      PROVE  UNCHANGED <<pc, user, handle, found>> /\ map' \in {map, NoHandle} /\ OnlyMap
  BY <1>3 DEF Write, OnlyMap, SameInfo
<1>4. SetVfs \/ Tick \/ UNCHANGED vars =>
        UNCHANGED <<pc, user, handle, found>> /\ map' \in {map, NoHandle} /\ OnlyMap
  BY DEF SetVfs, Tick, vars, readVars, OnlyMap, SameInfo
<1>5. ASSUME NEW c \in Configs, Touch(c)
      PROVE  UNCHANGED <<pc, user, handle, found>> /\ map' \in {map, NoHandle} /\ OnlyMap
  BY <1>5 DEF Touch, OnlyMap, SameInfo
<1>6. ASSUME NEW c \in Configs, Remove(c) \/ JobWrites(c) \/ RemoteChange(c)
      PROVE  UNCHANGED <<pc, user, handle, found>> /\ map' \in {map, NoHandle} /\ OnlyMap
  BY <1>6, BehindOnlyMap DEF Remove, JobWrites, RemoteChange
<1>7. Age => UNCHANGED <<pc, user, handle, found>> /\ map' \in {map, NoHandle} /\ OnlyMap
  <2> HAVE Age
  <2>1. map \in Handles /\ map \in Live(map, handle) /\ UNCHANGED <<map, handle, pc, user, found>>
    BY LiveIs DEF Age, TypeOK, readVars
  <2> QED BY <2>1, IdleEffect DEF Age, OnlyMap, SameInfo
<1> QED BY <1>1, <1>2, <1>3, <1>4, <1>5, <1>6, <1>7 DEF Next

LEMMA ControlStep == TypeOK /\ ControlInv /\ [Next]_vars => ControlInv'
<1> SUFFICES ASSUME TypeOK, ControlInv, [Next]_vars PROVE ControlInv'
  OBVIOUS
<1>1. CASE \E r \in Readers : Start(r) \/ ReadStep(r)
  BY <1>1, ControlRead
<1>2. CASE ~ \E r \in Readers : Start(r) \/ ReadStep(r)
  <2>1. UNCHANGED <<pc, handle>> /\ map' \in {map, NoHandle} /\ OnlyMap
    BY <1>2, OtherActions
  <2>2. \A h \in Handles : h # map /\ h \in Live(map', handle') => info'[h].expired = info[h].expired
    BY <2>1 DEF OnlyMap, SameInfo
  <2> QED BY <2>1, <2>2, ControlSame
<1> QED BY <1>1, <1>2

\* Type correctness: every file, handle and record stays what it is, handles
\* nobody refers to are dropped, and the map holds no expired handle.
THEOREM TypeCorrect == Spec => []TypeOK
<1>1. Init => TypeOK /\ ControlInv
  BY TypeInit, ControlInit
<1>2. TypeOK /\ ControlInv /\ [Next]_vars => (TypeOK /\ ControlInv)'
  BY TypeStep, ControlStep
<1> QED BY <1>1, <1>2, PTL DEF Spec

-----------------------------------------------------------------------------
(* Which handles are right. *)

LEMMA FreshInit == Init => FreshInv
BY DEF Init, FreshInv, WriteOverlaps, QuietIdle, MapCurrent, OpeningOK, UsedOK, Writing,
       Undisturbed, Opening, Using

\* A read that another one's step leaves alone keeps what the invariant says.
LEMMA OtherReadOK ==
  ASSUME Inv, NEW r \in Readers, Start(r) \/ ReadStep(r), NEW q \in Readers \ {r}
  PROVE  OpeningOK(q)' /\ UsedOK(q)'
<1>1. Stays(q) /\ UNCHANGED <<cfg, at, len, admin>>
  BY OneReader DEF Inv, fileVars, otherVars
<1>2. CASE handle[q] = NoHandle
  <2>1. pc[q] \in Empty
    BY <1>2, ReadAssumption DEF Inv, ControlInv, HandleHeld
  <2> QED BY <1>1, <2>1 DEF Inv, FreshInv, OpeningOK, UsedOK, Undisturbed, Opening, Stays, Empty, Using
<1>3. CASE handle[q] # NoHandle
  <2>1. handle[q] \in Handles
    BY <1>3 DEF Inv, TypeOK
  <2>2. handle[q] \in Live(map, handle) /\ handle[q] \in Live(map', handle')
    BY <1>1, <2>1, LiveIs DEF Stays
  <2>3. ~ (Insert(r) /\ handle[q] = handle[r])
    BY DEF Inv, ControlInv, Fresh, Insert
  <2>4. SameInfo(info'[handle[q]], info[handle[q]])
    BY <2>1, <2>2, <2>3, InfoStays DEF Inv
  <2> QED BY <1>1, <2>4
      DEF Inv, FreshInv, OpeningOK, UsedOK, Undisturbed, Opening, Stays, SameInfo, Current
<1> QED BY <1>2, <1>3

\* Before it is inserted, a handle is right if nothing overlapped its opening.
LEMMA InsertedCurrent ==
  ASSUME Inv, NEW r \in Readers, Insert(r)
  PROVE  /\ info'[handle[r]].suspect = late[r]
         /\ admin = "idle" /\ ~ late[r] => Current(info[handle[r]])
         /\ info'[handle[r]].cfg = info[handle[r]].cfg /\ info'[handle[r]].obj = info[handle[r]].obj
         /\ info'[handle[r]].len = info[handle[r]].len
         /\ info'[handle[r]].expired = info[handle[r]].expired
<1>1. handle[r] \in Handles /\ info'[handle[r]] = [info[handle[r]] EXCEPT !.suspect = late[r]]
  BY InsertEffect DEF Inv
<1>2. info[handle[r]] \in Infos /\ late[r] \in BOOLEAN
  BY <1>1 DEF Inv, TypeOK
<1>3. admin = "idle" /\ ~ late[r] => Current(info[handle[r]])
  BY DEF Inv, FreshInv, OpeningOK, Undisturbed, Opening, Insert
<1> QED BY <1>1, <1>2, <1>3 DEF Infos

LEMMA MapRead ==
  ASSUME Inv, NEW r \in Readers, Start(r) \/ ReadStep(r)
  PROVE  MapCurrent' /\ (Writing /\ map' # NoHandle => info'[map'].suspect)
<1>1. UNCHANGED <<cfg, at, len, admin>>
  BY OneReader DEF Inv, fileVars, otherVars
<1>2. CASE Insert(r)
  <2>1. map' = handle[r]
    BY <1>2 DEF Insert
  <2>2. Writing => late[r]
    BY <1>2 DEF Inv, FreshInv, WriteOverlaps, Opening, Insert
  <2> QED BY <1>1, <1>2, <2>1, <2>2, InsertedCurrent DEF MapCurrent, Current
<1>3. CASE ~ Insert(r)
  <2>1. map' \in {map, NoHandle}
    BY <1>3 DEF Start, ReadStep, Lookup, Check, Stat, Open, Read
  <2>2. CASE map' = NoHandle
    BY <2>2 DEF MapCurrent
  <2>3. CASE map' = map /\ map # NoHandle
    <3>1. map \in Handles /\ map \in Live(map, handle) /\ map \in Live(map', handle')
      BY <2>3, LiveIs DEF Inv, TypeOK
    <3>2. SameInfo(info'[map], info[map])
      BY <1>3, <3>1, InfoStays DEF Inv
    <3> QED BY <1>1, <2>3, <3>2 DEF Inv, FreshInv, WriteOverlaps, MapCurrent, Current, SameInfo
  <2> QED BY <2>1, <2>2, <2>3
<1> QED BY <1>2, <1>3

\* The step of a read keeps what the invariant says of it.
LEMMA OwnReadOK ==
  ASSUME Inv, NEW r \in Readers, Start(r) \/ ReadStep(r)
  PROVE  /\ OpeningOK(r)' /\ UsedOK(r)'
         /\ quiet'[r] => admin = "idle"
         /\ Writing /\ Opening(r)' => late'[r]
<1>0. UNCHANGED <<cfg, at, len, admin, wpc>> /\ TypeOK /\ ControlInv
  BY OneReader DEF Inv, fileVars, otherVars
<1>1. CASE Start(r)
  <2>1. pc'[r] = "lookup" /\ user'[r] = cfg /\ late'[r] = Writing /\ quiet'[r] = (admin = "idle")
    BY <1>0, <1>1 DEF Start, Goto, TypeOK
  <2> QED BY <1>0, <2>1 DEF OpeningOK, UsedOK, Undisturbed, Opening, Using
<1>2. CASE Lookup(r)
  <2>1. /\ pc[r] = "lookup" /\ pc'[r] \in {"stat", "check"} /\ handle'[r] = map
        /\ pc'[r] = "check" => map # NoHandle
        /\ user'[r] = user[r] /\ late'[r] = late[r] /\ quiet'[r] = quiet[r] /\ info' = info
    BY <1>0, <1>2 DEF Lookup, Goto, TypeOK
  <2>2. OpeningOK(r)'
    BY <1>0, <2>1 DEF Inv, FreshInv, OpeningOK, Undisturbed, Opening
  <2>3. quiet[r] => admin = "idle"
    BY DEF Inv, FreshInv, QuietIdle
  <2>4. UsedOK(r)'
    BY <1>0, <2>1, <2>3 DEF Inv, FreshInv, MapCurrent, UsedOK, Using, Current
  <2> QED BY <2>1, <2>2, <2>3, <2>4 DEF Inv, FreshInv, WriteOverlaps, Opening
<1>3. CASE Check(r) /\ info[handle[r]].expired
  <2>1. /\ pc[r] = "check" /\ pc'[r] = "stat"
        /\ user'[r] = user[r] /\ late'[r] = late[r] /\ quiet'[r] = quiet[r]
    BY <1>0, <1>3 DEF Check, Goto, TypeOK
  <2> QED BY <1>0, <2>1
      DEF Inv, FreshInv, OpeningOK, UsedOK, QuietIdle, WriteOverlaps, Undisturbed, Opening, Using
<1>4. CASE Check(r) /\ ~ info[handle[r]].expired
  <2>1. pc[r] = "check" /\ pc'[r] = "read" /\ quiet'[r] = quiet[r] /\ handle'[r] = handle[r]
    BY <1>0, <1>4 DEF Check, Goto, TypeOK
  <2>2. handle[r] \in Handles
    BY <1>0, <2>1 DEF ControlInv, HandleHeld, Empty
  <2>3. handle[r] \in Live(map, handle) /\ handle[r] \in Live(map', handle') /\ ~ Insert(r)
    BY <2>1, <2>2, LiveIs DEF Insert
  <2>4. SameInfo(info'[handle[r]], info[handle[r]])
    BY <1>0, <2>2, <2>3, InfoStays
  <2> QED BY <1>0, <2>1, <2>4
      DEF Inv, FreshInv, OpeningOK, UsedOK, QuietIdle, Undisturbed, Opening, Using, SameInfo, Current
<1>5. CASE Ends(r) /\ (Stat(r) \/ Open(r))
  <2>1. pc'[r] = "idle" /\ ~ quiet'[r]
    BY <1>0, <1>5, EndsEffect DEF Stat, Open, TypeOK
  <2> QED BY <2>1 DEF OpeningOK, UsedOK, Undisturbed, Opening
<1>6. CASE Stat(r) /\ ~ Ends(r)
  <2>1. /\ pc[r] = "stat" /\ pc'[r] = "open" /\ at[user[r]] # NoObject
        /\ found'[r] = len[at[user[r]]]
        /\ user'[r] = user[r] /\ late'[r] = late[r] /\ quiet'[r] = quiet[r]
    BY <1>0, <1>6 DEF Stat, Goto, TypeOK
  <2>2. \A c \in Configs : at[c] # NoObject => len[at[c]] \in Int
    BY <1>0, ReadAssumption DEF TypeOK, Lens
  <2>3. OpeningOK(r)'
    BY <1>0, <2>1, <2>2 DEF Inv, FreshInv, OpeningOK, Undisturbed, Opening, TypeOK
  <2> QED BY <1>0, <2>1, <2>3 DEF Inv, FreshInv, UsedOK, QuietIdle, WriteOverlaps, Opening, Using
<1>7. CASE Open(r) /\ ~ Ends(r)
  <2>1. PICK h \in Handles :
          /\ handle' = [handle EXCEPT ![r] = h] /\ pc' = [pc EXCEPT ![r] = "insert"]
          /\ info'[h].cfg = user[r] /\ info'[h].len = found[r]
          /\ user[r] \notin Remote => info'[h].obj = at[user[r]] /\ at[user[r]] # NoObject
    BY <1>0, <1>7, OpenEffect
  <2>2. /\ pc[r] = "open" /\ pc'[r] = "insert" /\ handle'[r] = h
        /\ user'[r] = user[r] /\ late'[r] = late[r] /\ quiet'[r] = quiet[r]
    BY <1>0, <1>7, <2>1 DEF Open, TypeOK
  <2>3. OpeningOK(r)'
    BY <1>0, <2>1, <2>2 DEF Inv, FreshInv, OpeningOK, Undisturbed, Opening, Current
  <2> QED BY <1>0, <2>2, <2>3 DEF Inv, FreshInv, UsedOK, QuietIdle, WriteOverlaps, Opening, Using
<1>8. CASE Insert(r)
  <2>1. pc'[r] = "read" /\ quiet'[r] = quiet[r] /\ pc[r] = "insert"
    BY <1>0, <1>8 DEF Insert, Goto, TypeOK
  <2>2. quiet[r] => admin = "idle"
    BY DEF Inv, FreshInv, QuietIdle
  <2>3. UsedOK(r)'
    <3>1. CASE map # NoHandle /\ ~ info[map].expired
      <4>1. handle'[r] = map /\ map \in Handles /\ map # handle[r]
        BY <1>0, <1>8, <3>1, InsertEffect DEF TypeOK
      <4>2. map \in Live(map', handle')
        BY <4>1, LiveIs
      <4>3. info'[map] = info[map]
        BY <1>0, <1>8, <4>1, <4>2, InsertEffect
      <4> QED BY <1>0, <2>1, <2>2, <4>1, <4>3, <3>1 DEF Inv, FreshInv, MapCurrent, UsedOK, Current
    <3>2. CASE ~ (map # NoHandle /\ ~ info[map].expired)
      <4>1. handle'[r] = handle[r]
        BY <1>0, <1>8, <3>2, InsertEffect
      <4> QED BY <1>0, <1>8, <2>1, <2>2, <4>1, InsertedCurrent DEF UsedOK, Current
    <3> QED BY <3>1, <3>2
  <2> QED BY <1>0, <2>1, <2>2, <2>3 DEF OpeningOK, Undisturbed, Opening
<1>9. CASE Read(r)
  <2>1. pc'[r] = "idle" /\ ~ quiet'[r]
    BY <1>0, <1>9 DEF Read, Goto, TypeOK
  <2> QED BY <2>1 DEF OpeningOK, UsedOK, Undisturbed, Opening
<1> QED BY <1>1, <1>2, <1>3, <1>4, <1>5, <1>6, <1>7, <1>8, <1>9 DEF ReadStep

LEMMA FreshRead ==
  ASSUME Inv, NEW r \in Readers, Start(r) \/ ReadStep(r)
  PROVE  FreshInv'
<1>0. UNCHANGED <<admin, wpc>> /\ \A q \in Readers \ {r} : Stays(q)
  BY OneReader DEF Inv, otherVars
<1>1. \A q \in Readers : OpeningOK(q)' /\ UsedOK(q)'
  BY OtherReadOK, OwnReadOK
<1>2. WriteOverlaps'
  <2>1. Writing' = Writing
    BY <1>0 DEF Writing
  <2>2. ASSUME NEW q \in Readers, Writing, Opening(q)' PROVE late'[q]
    BY <1>0, <2>2, OwnReadOK DEF Inv, FreshInv, WriteOverlaps, Opening, Stays
  <2> QED BY <2>1, <2>2, MapRead DEF WriteOverlaps
<1>3. QuietIdle'
  BY <1>0, OwnReadOK DEF Inv, FreshInv, QuietIdle, Stays
<1> QED BY <1>1, <1>2, <1>3, MapRead DEF FreshInv

\* Steps of the others that change no file and no configuration.
LEMMA FreshNoChange ==
  ASSUME Inv, UNCHANGED <<pc, user, handle, found, cfg, at, len>>, map' \in {map, NoHandle}, OnlyMap,
         \A r \in Readers : quiet'[r] => quiet[r],
         \A r \in Readers : Opening(r) => (late[r] => late'[r]),
         \/ /\ UNCHANGED admin
            /\ Writing' => Writing
         \/ /\ map' = NoHandle
            /\ \A r \in Readers : Opening(r) => late'[r]
            /\ \A r \in Readers : quiet'[r] => admin' = "idle"
  PROVE  FreshInv'
<1>0. TypeOK /\ ControlInv /\ FreshInv
  BY DEF Inv
<1>1. WriteOverlaps'
  <2>1. CASE map' = NoHandle /\ \A r \in Readers : Opening(r) => late'[r]
    BY <2>1 DEF WriteOverlaps, Opening
  <2>2. CASE UNCHANGED admin /\ (Writing' => Writing)
    <3>1. ASSUME Writing', map' # NoHandle PROVE info'[map'].suspect
      <4>1. map \in Handles /\ map' = map /\ map \in Live(map', handle')
        BY <1>0, <3>1, LiveIs DEF TypeOK
      <4> QED BY <1>0, <2>2, <3>1, <4>1 DEF FreshInv, WriteOverlaps, OnlyMap, SameInfo
    <3> QED BY <1>0, <2>2, <3>1 DEF FreshInv, WriteOverlaps, Opening
  <2> QED BY <2>1, <2>2
<1>2. QuietIdle'
  BY <1>0 DEF FreshInv, QuietIdle
<1>3. MapCurrent'
  <2>1. ASSUME map' # NoHandle PROVE MapCurrent'
    <3>1. map \in Handles /\ map' = map /\ map \in Live(map', handle') /\ UNCHANGED admin
      BY <1>0, <2>1, LiveIs DEF TypeOK
    <3> QED BY <1>0, <3>1, <2>1 DEF FreshInv, MapCurrent, OnlyMap, SameInfo, Current
  <2> QED BY <2>1 DEF MapCurrent
<1>4. ASSUME NEW r \in Readers PROVE OpeningOK(r)' /\ UsedOK(r)'
  <2>1. OpeningOK(r)'
    <3>1. SUFFICES ASSUME Undisturbed(r)' PROVE OpeningOK(r)'
      BY DEF OpeningOK
    <3>2. UNCHANGED admin /\ Undisturbed(r)
      BY <3>1 DEF Undisturbed, Opening
    <3>3. CASE pc[r] = "insert"
      <4>1. handle[r] \in Handles /\ handle[r] # map /\ handle[r] \in Live(map', handle')
        BY <1>0, <3>3, LiveIs DEF ControlInv, HandleHeld, Fresh, Empty
      <4>2. SameInfo(info'[handle[r]], info[handle[r]])
        BY <4>1 DEF OnlyMap
      <4> QED BY <1>0, <3>2, <3>3, <4>2 DEF FreshInv, OpeningOK, SameInfo, Current
    <3>4. CASE pc[r] # "insert"
      BY <1>0, <3>2, <3>4 DEF FreshInv, OpeningOK
    <3> QED BY <3>3, <3>4
  <2>2. UsedOK(r)'
    <3>1. SUFFICES ASSUME quiet'[r], pc[r] \in Using, ~ info'[handle[r]].suspect,
                          ~ info'[handle[r]].expired
                   PROVE  Current(info[handle[r]])'
      BY DEF UsedOK
    <3>2. handle[r] \in Handles /\ handle[r] \in Live(map', handle')
      BY <1>0, <3>1, LiveIs DEF ControlInv, HandleHeld, Using, Empty
    <3>3. SameInfo(info'[handle[r]], info[handle[r]])
      BY <3>1, <3>2 DEF OnlyMap
    <3> QED BY <1>0, <3>1, <3>3 DEF FreshInv, UsedOK, SameInfo, Current
  <2> QED BY <2>1, <2>2
<1> QED BY <1>1, <1>2, <1>3, <1>4 DEF FreshInv

\* A change of files that disturbs every read, and overlaps every opening.
LEMMA FreshOverlapped ==
  ASSUME Inv, UNCHANGED <<pc, handle, map>>,
         \A r \in Readers : ~ quiet'[r],
         \A r \in Readers : Opening(r) => late'[r],
         map # NoHandle => info'[map].suspect
  PROVE  FreshInv'
BY DEF FreshInv, WriteOverlaps, QuietIdle, MapCurrent, OpeningOK, UsedOK, Undisturbed, Opening

\* A change of one configuration's file that marks what it leaves wrong.
LEMMA FreshBehind ==
  ASSUME Inv, NEW c \in Configs, BehindItsBack(c), OthersKept(c),
         UNCHANGED <<pc, handle, map, user, found, cfg, admin, wpc>>
  PROVE  FreshInv'
<1>0. TypeOK /\ ControlInv /\ FreshInv
  BY DEF Inv
<1>1. /\ \A r \in Readers : ~ quiet'[r]
      /\ \A r \in Readers : late'[r] = (late[r] \/ (Opening(r) /\ user[r] = c))
  BY DEF BehindItsBack, Disturbed
<1>2. \A h \in Handles :
        /\ h # map \/ info[h].cfg # c => info'[h] = info[h]
        /\ h = map /\ info[h].cfg = c => info'[h].suspect
        /\ info[h].suspect => info'[h].suspect
  <2>1. \A x \in Infos : [x EXCEPT !.suspect = TRUE].suspect
    BY DEF Infos
  <2>2. ASSUME NEW h \in Handles
        PROVE  /\ info[h] \in Infos
               /\ IF h = map /\ info[h].cfg = c
                  THEN info'[h] = [info[h] EXCEPT !.suspect = TRUE] ELSE info'[h] = info[h]
    BY <1>0, BehindEffect DEF TypeOK
  <2> QED BY <2>1, <2>2
<1>3. ASSUME cfg # c, NEW i \in Infos, Current(i) PROVE Current(i)'
  BY <1>0, <1>3 DEF OthersKept, Current, TypeOK
<1>4. WriteOverlaps'
  BY <1>0, <1>1, <1>2 DEF FreshInv, WriteOverlaps, Writing, Opening, TypeOK
<1>5. MapCurrent'
  <2>1. SUFFICES ASSUME map # NoHandle, admin = "idle", ~ info'[map].suspect
                 PROVE  Current(info[map])'
    BY DEF MapCurrent
  <2>2. map \in Handles /\ info[map] \in Infos
    BY <1>0, <2>1 DEF TypeOK
  <2>3. info'[map] = info[map] /\ info[map].cfg # c
    BY <1>2, <2>1, <2>2
  <2>4. Current(info[map])
    BY <1>0, <2>1, <2>3 DEF FreshInv, MapCurrent
  <2>5. cfg # c
    BY <2>3, <2>4 DEF Current
  <2> QED BY <1>3, <2>2, <2>3, <2>4, <2>5
<1>6. ASSUME NEW r \in Readers PROVE OpeningOK(r)'
  <2>1. SUFFICES ASSUME Undisturbed(r)' PROVE OpeningOK(r)'
    BY DEF OpeningOK
  <2>2. Undisturbed(r) /\ user[r] # c
    BY <1>1, <2>1 DEF Undisturbed, Opening
  <2>3. user[r] = cfg /\ cfg # c
    BY <1>0, <2>2 DEF FreshInv, OpeningOK
  <2>4. CASE pc[r] = "insert"
    <3>1. handle[r] \in Handles /\ handle[r] # map /\ info[handle[r]] \in Infos
      BY <1>0, <2>4 DEF TypeOK, ControlInv, HandleHeld, Fresh, Empty
    <3>2. info'[handle[r]] = info[handle[r]] /\ Current(info[handle[r]])
      BY <1>0, <1>2, <2>2, <2>4, <3>1 DEF FreshInv, OpeningOK
    <3> QED BY <1>3, <2>3, <2>4, <3>1, <3>2 DEF OpeningOK
  <2>5. CASE pc[r] # "insert"
    BY <1>0, <2>2, <2>3, <2>5 DEF FreshInv, OpeningOK, OthersKept, TypeOK
  <2> QED BY <2>4, <2>5
<1> QED BY <1>1, <1>4, <1>5, <1>6 DEF FreshInv, QuietIdle, UsedOK

\* vfs_touch_file invalidates nothing, but it only makes the file shorter.
LEMMA FreshTouch == ASSUME Inv, NEW c \in Configs, Touch(c) PROVE FreshInv'
<1>0. TypeOK /\ ControlInv /\ OneFileEach /\ FreshInv
  BY DEF Inv
<1>1. /\ UNCHANGED <<cfg, map, info, pc, user, handle, found, late, wpc, admin>>
      /\ c \notin Remote /\ \A r \in Readers : ~ quiet'[r]
  BY DEF Touch, Disturbed, otherVars
<1>2. /\ at'[c] \in Objects /\ len'[at'[c]] = 0 /\ (at[c] # NoObject => at' = at)
      /\ OthersKept(c)
  BY <1>0, SetFileType, NoInfoType DEF Touch, TypeOK
<1>3. ASSUME NEW i \in Nat, at[cfg] # NoObject, len[at[cfg]] <= i
      PROVE  at'[cfg] = at[cfg] /\ len'[at'[cfg]] <= i
  <2>1. CASE cfg = c
    BY <1>1, <1>2, <1>3, <2>1
  <2>2. CASE cfg # c
    BY <1>0, <1>2, <1>3, <2>2 DEF OthersKept, TypeOK
  <2> QED BY <2>1, <2>2
<1>4. ASSUME NEW i \in Infos, Current(i) PROVE Current(i)'
  <2>1. i.len \in Nat
    BY ReadAssumption DEF Infos, Lens
  <2> QED BY <1>1, <1>3, <1>4, <2>1 DEF Current
<1>5. MapCurrent'
  BY <1>0, <1>1, <1>4 DEF FreshInv, MapCurrent, TypeOK
<1>6. ASSUME NEW r \in Readers PROVE OpeningOK(r)'
  <2>1. found[r] \in Nat
    BY <1>0, ReadAssumption DEF TypeOK, Lens
  <2>2. CASE pc[r] = "insert"
    <3>1. info[handle[r]] \in Infos
      BY <1>0, <2>2 DEF TypeOK, ControlInv, HandleHeld, Empty
    <3> QED BY <1>0, <1>1, <1>4, <2>2, <3>1 DEF FreshInv, OpeningOK, Undisturbed, Opening
  <2>3. CASE pc[r] # "insert"
    BY <1>0, <1>1, <1>3, <2>1, <2>3 DEF FreshInv, OpeningOK, Undisturbed, Opening
  <2> QED BY <2>2, <2>3
<1> QED BY <1>0, <1>1, <1>5, <1>6 DEF FreshInv, WriteOverlaps, QuietIdle, UsedOK, Writing, Opening

LEMMA FreshStep == Inv /\ [Next]_vars => FreshInv'
<1> SUFFICES ASSUME Inv, [Next]_vars PROVE FreshInv'
  OBVIOUS
<1>0. TypeOK /\ FreshInv
  BY DEF Inv
<1>1. ASSUME NEW r \in Readers, Start(r) \/ ReadStep(r) PROVE FreshInv'
  BY <1>1, FreshRead
<1>2. ASSUME NEW w \in Writers, WriteStarts(w) PROVE FreshInv'
  <2>1. map' = NoHandle /\ OnlyMap
    BY <1>0, <1>2, InvalidateOnlyMap DEF WriteStarts
  <2>2. /\ UNCHANGED <<pc, user, handle, found, cfg, at, len, quiet, admin>>
        /\ \A r \in Readers : late'[r] = (late[r] \/ Opening(r))
    BY <1>2 DEF WriteStarts
  <2>3. \A r \in Readers : quiet[r] => admin = "idle"
    BY <1>0 DEF FreshInv, QuietIdle
  <2> QED BY <2>1, <2>2, <2>3, FreshNoChange
<1>3. ASSUME NEW w \in Writers, Write(w) PROVE FreshInv'
  <2>1. /\ UNCHANGED <<map, info, pc, user, handle, found, late, cfg, admin>>
        /\ wpc[w] = "write" /\ wpc' = [wpc EXCEPT ![w] = "idle"]
    BY <1>3 DEF Write
  <2>2. Writing /\ (Writing' => Writing)
    BY <2>1 DEF Writing
  <2>3. CASE UNCHANGED <<at, len, quiet>>
    <3>1. OnlyMap
      BY <2>1 DEF OnlyMap, SameInfo
    <3> QED BY <2>1, <2>2, <2>3, <3>1, FreshNoChange
  <2>4. CASE Disturbed
    <3>1. \A r \in Readers : ~ quiet'[r]
      BY <2>4 DEF Disturbed
    <3>2. /\ \A r \in Readers : Opening(r) => late'[r]
          /\ map # NoHandle => info'[map].suspect
      BY <1>0, <2>1, <2>2 DEF FreshInv, WriteOverlaps
    <3> QED BY <2>1, <3>1, <3>2, FreshOverlapped
  <2> QED BY <1>3, <2>3, <2>4 DEF Write
<1>4. ASSUME NEW c \in Configs, Touch(c) PROVE FreshInv'
  BY <1>4, FreshTouch
<1>5. ASSUME NEW c \in Configs, Remove(c) \/ JobWrites(c) \/ RemoteChange(c) PROVE FreshInv'
  <2>1. BehindItsBack(c) /\ UNCHANGED <<pc, handle, map, user, found, cfg, admin, wpc>>
    BY <1>5 DEF Remove, JobWrites, RemoteChange, otherVars
  <2>2. OthersKept(c)
    BY <1>5, ChangeEffect DEF Inv, Changes
  <2> QED BY <2>1, <2>2, FreshBehind
<1>8. SetVfs => FreshInv'
  <2> HAVE SetVfs
  <2>1. /\ UNCHANGED <<map, info, pc, user, handle, found, late, wpc>> /\ admin' = "invalidate"
        /\ \A r \in Readers : ~ quiet'[r]
    BY DEF SetVfs, Disturbed
  <2> QED BY <1>0, <2>1 DEF FreshInv, WriteOverlaps, QuietIdle, MapCurrent, OpeningOK, UsedOK,
                            Undisturbed, Opening, Writing
<1>9. InvalidateUser => FreshInv'
  <2> HAVE InvalidateUser
  <2>1. map' = NoHandle /\ OnlyMap
    BY <1>0, InvalidateOnlyMap DEF InvalidateUser
  <2>2. /\ UNCHANGED <<pc, user, handle, found, cfg, at, len, quiet>> /\ admin' = "idle"
        /\ \A r \in Readers : late'[r] = (late[r] \/ Opening(r))
    BY DEF InvalidateUser, fileVars
  <2> QED BY <2>1, <2>2, FreshNoChange
<1>10. Age \/ Tick \/ Reap \/ UNCHANGED vars => FreshInv'
  <2> HAVE Age \/ Tick \/ Reap \/ UNCHANGED vars
  <2>1. UNCHANGED <<pc, user, handle, found, cfg, at, len, quiet, late, admin, wpc>>
    BY DEF Age, Tick, Reap, vars, fileVars, readVars, otherVars
  <2>2. map' \in {map, NoHandle} /\ OnlyMap
    <3>1. CASE Reap
      BY <1>0, <2>1, <3>1, InvalidateOnlyMap DEF Reap
    <3>2. CASE Tick \/ UNCHANGED vars
      BY <3>2 DEF Tick, vars, OnlyMap, SameInfo
    <3>3. CASE Age
      <4>1. map \in Handles /\ map \in Live(map, handle) /\ UNCHANGED <<map, handle>>
        BY <1>0, <2>1, <3>3, LiveIs DEF Age, TypeOK
      <4> QED BY <1>0, <3>3, <4>1, IdleEffect DEF Age, OnlyMap, SameInfo
    <3> QED BY <3>1, <3>2, <3>3
  <2>3. Writing' => Writing
    BY <2>1 DEF Writing
  <2> QED BY <2>1, <2>2, <2>3, FreshNoChange
<1> QED BY <1>1, <1>2, <1>3, <1>4, <1>5, <1>8, <1>9, <1>10 DEF Next

LEMMA OneFileInit == Init => OneFileEach
BY ReadAssumption DEF Init, OneFileEach

LEMMA OneFileStep == TypeOK /\ OneFileEach /\ [Next]_vars => OneFileEach'
<1> SUFFICES ASSUME TypeOK, OneFileEach, [Next]_vars PROVE OneFileEach'
  OBVIOUS
<1>1. ASSUME NEW c \in Configs, Changes(c) PROVE OneFileEach'
  BY <1>1, ChangeEffect
<1>2. ASSUME NEW w \in Writers, Write(w) PROVE OneFileEach'
  <2>1. wcfg[w] \in Configs
    BY DEF TypeOK
  <2> QED BY <1>2, <2>1, SetFileType DEF Write, OneFileEach
<1>3. ASSUME UNCHANGED at PROVE OneFileEach'
  BY <1>3 DEF OneFileEach
<1>4. ASSUME NEW r \in Readers, Start(r) \/ ReadStep(r) PROVE UNCHANGED at
  BY <1>4, OneReader DEF fileVars
<1>5. ASSUME NEW w \in Writers, WriteStarts(w) PROVE UNCHANGED at
  BY <1>5 DEF WriteStarts
<1>6. SetVfs \/ InvalidateUser \/ Age \/ Tick \/ Reap \/ UNCHANGED vars => UNCHANGED at
  BY DEF SetVfs, InvalidateUser, Age, Tick, Reap, vars, fileVars
<1> QED BY <1>1, <1>2, <1>3, <1>4, <1>5, <1>6 DEF Next, Changes

LEMMA InvInit == Init => Inv
BY TypeInit, ControlInit, OneFileInit, FreshInit DEF Inv

LEMMA InvStep == Inv /\ [Next]_vars => Inv'
BY TypeStep, ControlStep, OneFileStep, FreshStep DEF Inv

\* A right handle gives a right answer.
LEMMA InvStale == Inv => StaleOnlyIfRaced
<1> SUFFICES ASSUME Inv, NEW r \in Readers, pc[r] = "read", quiet[r], ~ info[handle[r]].suspect,
                    Answer(r) # NoAnswer
             PROVE  AnswersPresent(r)
  BY DEF StaleOnlyIfRaced
<1> DEFINE i == info[handle[r]]
           o == IF i.cfg \in Remote THEN at[i.cfg] ELSE i.obj
           n == IF i.len = 0 THEN 0 ELSE Min2(i.len, len[o])
<1>1. ~ i.expired /\ Answer(r) = [obj |-> o, len |-> n]
  BY DEF Answer
<1>2. Current(i)
  BY <1>1 DEF Inv, FreshInv, UsedOK, Using
<1>3. cfg \in Configs /\ i \in Infos /\ i.len \in Nat
  <2>1. handle[r] \in Handles
    BY DEF Inv, ControlInv, HandleHeld, Empty
  <2> QED BY <2>1, ReadAssumption DEF Inv, TypeOK, Infos, Lens
<1>4. o = at[cfg] /\ at[cfg] \in Objects
  BY <1>2, <1>3 DEF Current, Inv, TypeOK
<1>5. len[o] \in Nat /\ len[o] <= i.len
  BY <1>2, <1>4, ReadAssumption DEF Current, Inv, TypeOK, Lens
<1>6. n = len[o]
  BY <1>3, <1>5 DEF Min2
<1> QED BY <1>1, <1>4, <1>6, ReadAssumption DEF AnswersPresent

\* For any number of reads, writers and configurations, a read during which nothing
\* changed returns the whole file the configuration leads to, unless its handle was
\* opened while a write or a SetVfs was under way, or the file was since removed,
\* written by a restore or transfer job, or changed remotely: what vfs_open_write,
\* vfs_write_at, vfs_set_length and set_vfs achieve by invalidating before or after
\* they change, and vfs_touch_file without.
THEOREM StaleRaced == Spec => []StaleOnlyIfRaced
BY InvInit, InvStep, InvStale, PTL DEF Spec

-----------------------------------------------------------------------------
(* WriteHandles *)

\* Where a request holds the mutex of its handle.
WriteWriting == {"write_check", "write_data", "write_done", "len_set"}
\* Where a request has a handle.
WriteUsing == WriteWriting \cup {"write_lock", "len_lock", "close"}

\* The mutex is held by the request that works on the handle, and by nobody
\* else.
GuardHeld ==
  /\ \A t \in Tasks : loc[t] \in WriteWriting => guard[req[t].h] = t
  /\ \A h \in HandleIds : guard[h] # Nobody => loc[guard[h]] \in WriteWriting /\ req[guard[h]].h = h

\* A request's handle was opened.
WriteOpened == \A t \in Tasks : loc[t] \in WriteUsing => life[req[t].h] # "new"

\* The quota checks still hold when the request that made them acts on them.
Fits ==
  /\ \A h \in HandleIds : base[h] + hlen[h] <= MaxBytes
  /\ \A t \in Tasks :
       /\ loc[t] = "open_file" => req[t].n + req[t].local <= MaxBytes
       /\ loc[t] \in {"write_data", "write_done"} =>
            base[req[t].h] + (req[t].local + req[t].n) <= MaxBytes
       /\ loc[t] = "len_set" => base[req[t].h] + req[t].at <= MaxBytes

\* Shutdown begins when no request is left, and the map is empty once it
\* closes handles.
Stopped ==
  /\ stop # "serving" => \A t \in Tasks : loc[t] = "idle"
  /\ stop \in {"close", "exited"} => handles = {}

\* The map holds open handles.
MapOpen == \A h \in handles : life[h] = "open"

\* A handle is marked expired before it is finalized.
ExpiredFirst == \A h \in HandleIds : life[h] \in {"closing", "closed", "lost"} => expired[h]

\* Nobody holds the mutex of a handle whose last sync succeeded.
ClosedIsFree == \A t \in Tasks : loc[t] \in WriteWriting => life[req[t].h] # "closed"

WriteControlInv == GuardHeld /\ WriteOpened /\ Stopped /\ MapOpen /\ ClosedOnce
SafeInv == ExpiredFirst /\ ClosedIsFree /\ SyncedWhenClosed
WriteInv == WriteTypeOK /\ WriteControlInv /\ Fits /\ SafeInv

-----------------------------------------------------------------------------
(* The sum and the moves of a request. *)

LEMMA DirSizeType == ASSUME size \in [Paths -> Nat] PROVE DirSize \in Nat
BY HandleAssumption, SumFunctionType DEF DirSize

LEMMA NoReqType == NoReq \in Reqs
<1>1. SomePath \in Paths /\ SomeHandle \in HandleIds
  BY HandleAssumption DEF SomePath, SomeHandle
<1> QED BY <1>1, HandleAssumption DEF NoReq, Reqs, Lengths

\* Request t moves to `label` with r, the others stay where they are.
Moves(t, label, r) ==
  /\ loc' \in [Tasks -> Labels] /\ req' \in [Tasks -> Reqs]
  /\ loc'[t] = label /\ req'[t] = r
  /\ \A u \in Tasks \ {t} : loc'[u] = loc[u] /\ req'[u] = req[u]

LEMMA ReturnMoves ==
  ASSUME WriteTypeOK, NEW t \in Tasks, Return(t) PROVE Moves(t, "idle", NoReq)
BY NoReqType DEF WriteTypeOK, Return, Moves, Labels

LEMMA BeginMoves ==
  ASSUME WriteTypeOK, NEW t \in Tasks, NEW label \in Labels, NEW r \in Reqs, Begin(t, label, r)
  PROVE  Moves(t, label, r)
BY DEF WriteTypeOK, Begin, Moves

LEMMA GotoMoves ==
  ASSUME WriteTypeOK, NEW t \in Tasks, NEW label \in Labels, NEW local \in Nat, WriteGoto(t, label, local)
  PROVE  Moves(t, label, [req[t] EXCEPT !.local = local])
BY DEF WriteTypeOK, WriteGoto, Moves, Reqs

LEMMA LocalType ==
  ASSUME WriteTypeOK, NEW t \in Tasks
  PROVE  /\ req[t].h \in HandleIds /\ req[t].f \in Paths /\ req[t].at \in Nat
         /\ req[t].n \in Nat /\ req[t].local \in Nat /\ req[t].overwrite \in BOOLEAN
         /\ req[t].append \in BOOLEAN
         /\ size[req[t].f] \in Nat /\ WriteOffset(t) \in Nat
         /\ InitialLen(t) \in Nat /\ ScannedBase(t) \in Nat
<1>1. /\ req[t].h \in HandleIds /\ req[t].f \in Paths /\ req[t].at \in Nat
      /\ req[t].n \in Nat /\ req[t].local \in Nat /\ req[t].overwrite \in BOOLEAN
      /\ req[t].append \in BOOLEAN
  BY HandleAssumption DEF WriteTypeOK, Reqs, Lengths
<1>2. size[req[t].f] \in Nat /\ WriteOffset(t) \in Nat
  BY <1>1 DEF WriteTypeOK, WriteOffset
<1>3. InitialLen(t) \in Nat /\ ScannedBase(t) \in Nat
  BY <1>1, DirSizeType DEF WriteTypeOK, InitialLen, ScannedBase
<1> QED BY <1>1, <1>2, <1>3

\* A quota check against a new length holds for both lengths.
LEMMA LargerFits ==
  ASSUME NEW a \in Nat, NEW b \in Nat, NEW c \in Nat, NEW m \in Nat
  PROVE  /\ Larger(b, c) \in Nat
         /\ a + Larger(b, c) <= m <=> a + b <= m /\ a + c <= m
BY DEF Larger

-----------------------------------------------------------------------------
LEMMA WriteInvInit == WriteInit => WriteInv
<1> SUFFICES ASSUME WriteInit PROVE WriteInv
  OBVIOUS
<1>0. SomePath \in Paths /\ 0 \in 0 .. MaxBytes
  BY HandleAssumption DEF SomePath
<1>1. WriteTypeOK
  <2>1. /\ size \in [Paths -> Nat] /\ handles \subseteq HandleIds /\ path \in [HandleIds -> Paths]
        /\ base \in [HandleIds -> 0 .. MaxBytes] /\ hlen \in [HandleIds -> 0 .. MaxBytes]
    BY <1>0 DEF WriteInit
  <2>2. /\ append \in [HandleIds -> BOOLEAN] /\ expired \in [HandleIds -> BOOLEAN]
        /\ unsynced \in [HandleIds -> BOOLEAN] /\ life \in [HandleIds -> Lives]
    BY DEF WriteInit, Lives
  <2>3. loc \in [Tasks -> Labels] /\ req \in [Tasks -> Reqs] /\ collected \subseteq HandleIds
    BY NoReqType DEF WriteInit, Labels
  <2> QED BY <2>1, <2>2, <2>3 DEF WriteInit, WriteTypeOK
<1>2. WriteControlInv
  BY DEF WriteInit, WriteControlInv, GuardHeld, WriteOpened, Stopped, MapOpen, ClosedOnce, WriteWriting, WriteUsing
<1>3. Fits
  BY HandleAssumption DEF WriteInit, Fits
<1>4. SafeInv
  BY DEF WriteInit, SafeInv, ExpiredFirst, ClosedIsFree, SyncedWhenClosed, WriteWriting
<1> QED BY <1>1, <1>2, <1>3, <1>4 DEF WriteInv

LEMMA WriteTypeStep == WriteInv /\ [WriteNext]_writeVars => WriteTypeOK'
<1> SUFFICES ASSUME WriteInv, [WriteNext]_writeVars PROVE WriteTypeOK'
  OBVIOUS
<1>0. WriteTypeOK
  BY DEF WriteInv
<1>1. ASSUME NEW t \in Tasks, WriteRequest(t) PROVE WriteTypeOK'
  <2>1. ASSUME NEW f \in Paths, NEW overwrite \in BOOLEAN, NEW app \in BOOLEAN,
               OpenWrite(t, f, overwrite, app)
        PROVE  WriteTypeOK'
    <3>1. [NoReq EXCEPT !.f = f, !.overwrite = overwrite, !.append = app] \in Reqs
      BY NoReqType DEF Reqs
    <3>2. loc' \in [Tasks -> Labels] /\ req' \in [Tasks -> Reqs]
      BY <1>0, <2>1, <3>1 DEF OpenWrite, Begin, WriteTypeOK, Labels
    <3> QED BY <1>0, <2>1, <3>2 DEF OpenWrite, WriteTypeOK, handleVars
  <2>2. ASSUME NEW h \in HandleIds, NEW offset \in Lengths, NEW n \in 1 .. MaxSize,
               WriteAt(t, h, offset, n)
        PROVE  WriteTypeOK'
    <3>0. n \in Nat
      BY HandleAssumption
    <3>1. [NoReq EXCEPT !.h = h, !.at = offset, !.n = n] \in Reqs
      BY <3>0, NoReqType DEF Reqs
    <3>2. loc' \in [Tasks -> Labels] /\ req' \in [Tasks -> Reqs]
      BY <1>0, <2>2, <3>1 DEF WriteAt, Begin, WriteTypeOK, Labels
    <3> QED BY <1>0, <2>2, <3>2 DEF WriteAt, WriteTypeOK, handleVars
  <2>3. ASSUME NEW h \in HandleIds, NEW length \in Lengths, SetHandleLength(t, h, length)
        PROVE  WriteTypeOK'
    <3>1. [NoReq EXCEPT !.h = h, !.at = length] \in Reqs
      BY NoReqType DEF Reqs
    <3>2. loc' \in [Tasks -> Labels] /\ req' \in [Tasks -> Reqs]
      BY <1>0, <2>3, <3>1 DEF SetHandleLength, Begin, WriteTypeOK, Labels
    <3> QED BY <1>0, <2>3, <3>2 DEF SetHandleLength, WriteTypeOK, handleVars
  <2>4. ASSUME NEW f \in Paths, NEW length \in Lengths, SetPathLength(t, f, length)
        PROVE  WriteTypeOK'
    <3>1. [NoReq EXCEPT !.f = f, !.at = length] \in Reqs
      BY NoReqType DEF Reqs
    <3>2. loc' \in [Tasks -> Labels] /\ req' \in [Tasks -> Reqs]
      BY <1>0, <2>4, <3>1 DEF SetPathLength, Begin, WriteTypeOK, Labels
    <3> QED BY <1>0, <2>4, <3>2 DEF SetPathLength, WriteTypeOK, handleVars
  <2>5. ASSUME NEW h \in HandleIds, Close(t, h) PROVE WriteTypeOK'
    <3>1. [NoReq EXCEPT !.h = h] \in Reqs
      BY NoReqType DEF Reqs
    <3>2. loc' \in [Tasks -> Labels] /\ req' \in [Tasks -> Reqs]
      BY <1>0, <2>5, <3>1 DEF Close, Begin, WriteTypeOK, Labels
    <3> QED BY <1>0, <2>5, <3>2 DEF Close, WriteTypeOK, Lives
  <2> QED BY <1>1, <2>1, <2>2, <2>3, <2>4, <2>5 DEF WriteRequest
<1>2. ASSUME NEW t \in Tasks, OpenLock(t) PROVE WriteTypeOK'
  BY <1>0, <1>2, LocalType, GotoMoves DEF OpenLock, Moves, WriteTypeOK, handleVars, Labels
<1>3. ASSUME NEW t \in Tasks, OpenScan(t) PROVE WriteTypeOK'
  <2>1. loc' \in [Tasks -> Labels] /\ req' \in [Tasks -> Reqs]
    <3>1. CASE Return(t)
      BY <1>0, <3>1, ReturnMoves DEF Moves
    <3>2. CASE /\ loc' = [loc EXCEPT ![t] = "open_file"]
               /\ req' = [req EXCEPT ![t].local = InitialLen(t), ![t].n = ScannedBase(t)]
      <4>1. req' = [req EXCEPT ![t] = [req[t] EXCEPT !.local = InitialLen(t), !.n = ScannedBase(t)]]
        BY <1>0, <3>2 DEF WriteTypeOK
      <4>2. [req[t] EXCEPT !.local = InitialLen(t), !.n = ScannedBase(t)] \in Reqs
        <5>1. req[t] \in Reqs
          BY <1>0 DEF WriteTypeOK
        <5>2. InitialLen(t) \in Nat /\ ScannedBase(t) \in Nat
          BY <1>0, LocalType
        <5> QED BY <5>1, <5>2 DEF Reqs
      <4> QED BY <1>0, <3>2, <4>1, <4>2 DEF WriteTypeOK, Labels
    <3> QED BY <1>3, <3>1, <3>2 DEF OpenScan
  <2> QED BY <1>0, <1>3, <2>1 DEF OpenScan, WriteTypeOK, handleVars
<1>4. ASSUME NEW t \in Tasks, NEW h \in HandleIds, OpenFile(t, h) PROVE WriteTypeOK'
  <2>1. req[t].n \in 0 .. MaxBytes /\ req[t].local \in 0 .. MaxBytes
    BY <1>0, <1>4, LocalType, HandleAssumption DEF OpenFile, WriteInv, Fits
  <2>2. /\ size' \in [Paths -> Nat] /\ path' \in [HandleIds -> Paths]
        /\ append' \in [HandleIds -> BOOLEAN] /\ handles' \subseteq HandleIds
    BY <1>0, <1>4, LocalType DEF OpenFile, WriteTypeOK
  <2>3. /\ base' \in [HandleIds -> 0 .. MaxBytes] /\ hlen' \in [HandleIds -> 0 .. MaxBytes]
        /\ life' \in [HandleIds -> Lives]
    BY <1>0, <1>4, <2>1 DEF OpenFile, WriteTypeOK, Lives
  <2> QED BY <1>0, <1>4, <2>2, <2>3, ReturnMoves DEF OpenFile, WriteTypeOK, Moves
<1>5. ASSUME NEW t \in Tasks, WriteLock(t) \/ SetLengthLock(t) PROVE WriteTypeOK'
  <2>1. loc' \in [Tasks -> Labels] /\ req' \in [Tasks -> Reqs]
    BY <1>0, <1>5, ReturnMoves, GotoMoves DEF WriteLock, SetLengthLock, Moves, Labels
  <2>2. guard' \in [HandleIds -> Tasks \cup {Nobody}]
    BY <1>0, <1>5 DEF WriteLock, SetLengthLock, WriteTypeOK
  <2> QED BY <1>0, <1>5, <2>1, <2>2 DEF WriteLock, SetLengthLock, WriteTypeOK
<1>6. ASSUME NEW t \in Tasks, WriteCheck(t) PROVE WriteTypeOK'
  <2>1. loc' \in [Tasks -> Labels] /\ req' \in [Tasks -> Reqs]
    BY <1>0, <1>6, LocalType, ReturnMoves, GotoMoves DEF WriteCheck, Moves, Labels
  <2>2. guard' \in [HandleIds -> Tasks \cup {Nobody}]
    BY <1>0, <1>6 DEF WriteCheck, WriteTypeOK
  <2> QED BY <1>0, <1>6, <2>1, <2>2 DEF WriteCheck, WriteTypeOK
<1>7. ASSUME NEW t \in Tasks, WriteData(t) PROVE WriteTypeOK'
  <2>1. loc' \in [Tasks -> Labels] /\ req' \in [Tasks -> Reqs]
    BY <1>0, <1>7, LocalType, GotoMoves DEF WriteData, Moves, Labels
  <2>2. size' \in [Paths -> Nat] /\ unsynced' \in [HandleIds -> BOOLEAN]
    BY <1>0, <1>7, LocalType DEF WriteData, WriteTypeOK, Larger
  <2> QED BY <1>0, <1>7, <2>1, <2>2 DEF WriteData, WriteTypeOK
<1>8. ASSUME NEW t \in Tasks, WriteDone(t) PROVE WriteTypeOK'
  <2>1. Larger(hlen[req[t].h], req[t].local + req[t].n) \in 0 .. MaxBytes
    BY <1>0, <1>8, LocalType, HandleAssumption DEF WriteDone, WriteInv, Fits, WriteTypeOK, Larger
  <2>2. hlen' \in [HandleIds -> 0 .. MaxBytes] /\ guard' \in [HandleIds -> Tasks \cup {Nobody}]
    BY <1>0, <1>8, <2>1 DEF WriteDone, WriteTypeOK
  <2> QED BY <1>0, <1>8, <2>2, ReturnMoves DEF WriteDone, WriteTypeOK, Moves
<1>9. ASSUME NEW t \in Tasks, SetLen(t) PROVE WriteTypeOK'
  <2>1. req[t].at \in 0 .. MaxBytes
    BY <1>0, <1>9, LocalType, HandleAssumption DEF SetLen, WriteInv, Fits, WriteTypeOK
  <2>2. /\ hlen' \in [HandleIds -> 0 .. MaxBytes] /\ size' \in [Paths -> Nat]
        /\ guard' \in [HandleIds -> Tasks \cup {Nobody}] /\ unsynced' \in [HandleIds -> BOOLEAN]
    BY <1>0, <1>9, <2>1, LocalType DEF SetLen, WriteTypeOK
  <2> QED BY <1>0, <1>9, <2>2, ReturnMoves DEF SetLen, WriteTypeOK, Moves
<1>10. ASSUME NEW t \in Tasks, PathLock(t) PROVE WriteTypeOK'
  BY <1>0, <1>10, LocalType, GotoMoves DEF PathLock, Moves, WriteTypeOK, handleVars, Labels
<1>11. ASSUME NEW t \in Tasks, PathCheck(t) PROVE WriteTypeOK'
  <2>1. loc' \in [Tasks -> Labels] /\ req' \in [Tasks -> Reqs]
    BY <1>0, <1>11, ReturnMoves, GotoMoves DEF PathCheck, Moves, Labels
  <2> QED BY <1>0, <1>11, <2>1 DEF PathCheck, WriteTypeOK, handleVars
<1>12. ASSUME NEW t \in Tasks, PathSet(t) PROVE WriteTypeOK'
  BY <1>0, <1>12, LocalType, ReturnMoves DEF PathSet, Moves, WriteTypeOK, handleVars
<1>13. ASSUME NEW t \in Tasks, NEW synced \in BOOLEAN, CloseSync(t, synced) PROVE WriteTypeOK'
  <2>1. life' \in [HandleIds -> Lives] /\ unsynced' \in [HandleIds -> BOOLEAN]
    BY <1>0, <1>13 DEF CloseSync, Finalize, WriteTypeOK, Lives
  <2> QED BY <1>0, <1>13, <2>1, ReturnMoves DEF CloseSync, Moves, WriteTypeOK
<1>14. ASSUME NEW t \in Tasks, Cancel(t) PROVE WriteTypeOK'
  <2>1. life' \in [HandleIds -> Lives] /\ guard' \in [HandleIds -> Tasks \cup {Nobody}]
    BY <1>0, <1>14 DEF Cancel, WriteTypeOK, Lives
  <2> QED BY <1>0, <1>14, <2>1, ReturnMoves DEF Cancel, Moves, WriteTypeOK
<1>15. ASSUME NEW h \in HandleIds, Evict(h) PROVE WriteTypeOK'
  BY <1>0, <1>15 DEF Evict, WriteTypeOK, Lives
<1>16. ASSUME NEW h \in HandleIds, EvictExpire(h) PROVE WriteTypeOK'
  BY <1>0, <1>16 DEF EvictExpire, WriteTypeOK, Lives
<1>17. ASSUME NEW h \in HandleIds, NEW synced \in BOOLEAN, EvictSync(h, synced) PROVE WriteTypeOK'
  BY <1>0, <1>17 DEF EvictSync, Finalize, WriteTypeOK, Lives
<1>18. CASE Shutdown \/ ShutdownClear \/ Exit
  BY <1>0, <1>18 DEF Shutdown, ShutdownClear, Exit, WriteTypeOK, handleVars
<1>19. ASSUME NEW h \in HandleIds, NEW synced \in BOOLEAN, ShutdownClose(h, synced) PROVE WriteTypeOK'
  BY <1>0, <1>19 DEF ShutdownClose, Finalize, WriteTypeOK, Lives
<1>20. CASE UNCHANGED writeVars
  BY <1>0, <1>20 DEF writeVars, WriteTypeOK
<1> QED
  BY <1>1, <1>2, <1>3, <1>4, <1>5, <1>6, <1>7, <1>8, <1>9, <1>10, <1>11, <1>12, <1>13, <1>14,
     <1>15, <1>16, <1>17, <1>18, <1>19, <1>20
  DEF WriteNext, TaskStep, CloserStep, ShutdownStep

-----------------------------------------------------------------------------
(* The other conjuncts, one lemma for each way a step touches them. *)

Rest == WriteControlInv /\ Fits /\ SafeInv

\* A request that holds no mutex moves, and no handle changes.
LEMMA QuietMove ==
  ASSUME WriteInv, NEW t \in Tasks, NEW label \in Labels \ (WriteWriting \cup {"close"}), NEW r \in Reqs,
         Moves(t, label, r), loc[t] \notin WriteWriting,
         label \in WriteUsing => life[r.h] # "new",
         label = "open_file" => r.n + r.local <= MaxBytes,
         stop = "serving", UNCHANGED <<handleVars, stop>>
  PROVE  Rest'
<1> USE DEF handleVars
<1>1. GuardHeld'
  BY DEF WriteInv, WriteTypeOK, WriteControlInv, GuardHeld, Moves
<1>2. WriteOpened' /\ Stopped' /\ MapOpen'
  BY DEF WriteInv, WriteTypeOK, WriteControlInv, WriteOpened, Stopped, MapOpen, Moves
<1>3. ClosedOnce'
  BY DEF WriteInv, WriteTypeOK, WriteControlInv, ClosedOnce, Moves
<1>4. Fits'
  BY DEF WriteInv, WriteTypeOK, Fits, Moves, WriteWriting
<1>5. SafeInv'
  BY DEF WriteInv, WriteTypeOK, SafeInv, ExpiredFirst, ClosedIsFree, SyncedWhenClosed, Moves
<1> QED BY <1>1, <1>2, <1>3, <1>4, <1>5 DEF WriteControlInv, Rest

\* A request takes the mutex of a handle that is not expired.
LEMMA TakeGuard ==
  ASSUME WriteInv, NEW t \in Tasks, NEW label \in {"write_check", "len_set"},
         loc[t] \in {"write_lock", "len_lock"}, WriteGoto(t, label, 0),
         guard[req[t].h] = Nobody, guard' = [guard EXCEPT ![req[t].h] = t], ~ expired[req[t].h],
         label = "len_set" => base[req[t].h] + req[t].at <= MaxBytes,
         UNCHANGED <<handles, path, append, base, hlen, expired, life, unsynced, stop, collected>>
  PROVE  Rest'
<1> DEFINE h == req[t].h
<1>0. /\ WriteTypeOK /\ h \in HandleIds /\ label \in Labels
      /\ Moves(t, label, [req[t] EXCEPT !.local = 0])
  BY LocalType, GotoMoves DEF WriteInv, Labels
<1>1. /\ req'[t].h = h /\ req'[t].at = req[t].at
      /\ \A u \in Tasks : req'[u].h = req[u].h
  BY <1>0 DEF Moves, WriteTypeOK, Reqs
<1> HIDE DEF h
<1>2. GuardHeld'
  <2>1. ASSUME NEW u \in Tasks, loc'[u] \in WriteWriting PROVE guard'[req'[u].h] = u
    <3>1. CASE u = t
      BY <1>0, <1>1, <3>1 DEF WriteTypeOK, h
    <3>2. CASE u # t
      BY <1>0, <1>1, <2>1, <3>2, HandleAssumption
      DEF WriteInv, WriteControlInv, GuardHeld, WriteTypeOK, Moves, h
    <3> QED BY <3>1, <3>2
  <2>2. ASSUME NEW k \in HandleIds, guard'[k] # Nobody
        PROVE  loc'[guard'[k]] \in WriteWriting /\ req'[guard'[k]].h = k
    <3>1. CASE k = h
      BY <1>0, <1>1, <3>1 DEF WriteTypeOK, h, Moves, WriteWriting
    <3>2. CASE k # h
      <4>1. guard'[k] = guard[k] /\ guard[k] \in Tasks
        BY <1>0, <2>2, <3>2 DEF WriteTypeOK, h
      <4>2. guard[k] # t
        BY <2>2, <4>1 DEF WriteInv, WriteControlInv, GuardHeld, WriteWriting
      <4> QED BY <1>0, <1>1, <2>2, <4>1, <4>2 DEF WriteInv, WriteControlInv, GuardHeld, Moves
    <3> QED BY <3>1, <3>2
  <2> QED BY <2>1, <2>2 DEF GuardHeld
<1>3. WriteOpened' /\ Stopped' /\ MapOpen'
  BY <1>0, <1>1 DEF WriteInv, WriteControlInv, WriteOpened, Stopped, MapOpen, Moves, WriteUsing, h
<1>4. ClosedOnce'
  BY <1>0, <1>1 DEF WriteInv, WriteControlInv, ClosedOnce, Moves
<1>5. Fits'
  <2>1. \A k \in HandleIds : base'[k] + hlen'[k] <= MaxBytes
    BY DEF WriteInv, Fits
  <2>2. ASSUME NEW u \in Tasks
        PROVE  /\ loc'[u] = "open_file" => req'[u].n + req'[u].local <= MaxBytes
               /\ loc'[u] \in {"write_data", "write_done"} =>
                    base'[req'[u].h] + (req'[u].local + req'[u].n) <= MaxBytes
               /\ loc'[u] = "len_set" => base'[req'[u].h] + req'[u].at <= MaxBytes
    <3>1. CASE u = t
      BY <1>0, <1>1, <3>1 DEF Moves, h
    <3>2. CASE u # t
      BY <1>0, <3>2 DEF WriteInv, Fits, Moves
    <3> QED BY <3>1, <3>2
  <2> QED BY <2>1, <2>2 DEF Fits
<1>6. SafeInv'
  <2>1. ExpiredFirst' /\ SyncedWhenClosed'
    BY DEF WriteInv, SafeInv, ExpiredFirst, SyncedWhenClosed
  <2>2. ClosedIsFree'
    BY <1>0, <1>1 DEF WriteInv, SafeInv, ExpiredFirst, ClosedIsFree, Moves, h, WriteTypeOK
  <2> QED BY <2>1, <2>2 DEF SafeInv
<1> QED BY <1>2, <1>3, <1>4, <1>5, <1>6 DEF WriteControlInv, Rest

\* A write goes on under the mutex.
LEMMA KeepGuard ==
  ASSUME WriteInv, NEW t \in Tasks, NEW label \in {"write_data", "write_done"}, NEW local \in Nat,
         loc[t] \in WriteWriting, WriteGoto(t, label, local),
         base[req[t].h] + (local + req[t].n) <= MaxBytes,
         unsynced' \in {unsynced, [unsynced EXCEPT ![req[t].h] = TRUE]},
         UNCHANGED <<handles, path, append, base, hlen, expired, guard, life, stop, collected>>
  PROVE  Rest'
<1>0. /\ WriteTypeOK /\ label \in Labels /\ req[t].h \in HandleIds
      /\ Moves(t, label, [req[t] EXCEPT !.local = local])
  BY LocalType, GotoMoves DEF WriteInv, Labels
<1>1. /\ req'[t].h = req[t].h /\ req'[t].n = req[t].n /\ req'[t].local = local
      /\ \A u \in Tasks : req'[u].h = req[u].h
  BY <1>0 DEF Moves, WriteTypeOK, Reqs
<1>2. \A u \in Tasks : loc'[u] \in WriteWriting <=> loc[u] \in WriteWriting
  BY <1>0 DEF Moves, WriteWriting
<1>3. GuardHeld'
  BY <1>0, <1>1, <1>2 DEF WriteInv, WriteControlInv, GuardHeld, WriteTypeOK
<1>4. WriteOpened' /\ Stopped' /\ MapOpen'
  BY <1>0, <1>1 DEF WriteInv, WriteControlInv, WriteOpened, Stopped, MapOpen, Moves, WriteUsing, WriteWriting
<1>5. ClosedOnce'
  BY <1>0, <1>1 DEF WriteInv, WriteControlInv, ClosedOnce, Moves
<1>6. Fits'
  <2>1. \A k \in HandleIds : base'[k] + hlen'[k] <= MaxBytes
    BY DEF WriteInv, Fits
  <2>2. ASSUME NEW u \in Tasks
        PROVE  /\ loc'[u] = "open_file" => req'[u].n + req'[u].local <= MaxBytes
               /\ loc'[u] \in {"write_data", "write_done"} =>
                    base'[req'[u].h] + (req'[u].local + req'[u].n) <= MaxBytes
               /\ loc'[u] = "len_set" => base'[req'[u].h] + req'[u].at <= MaxBytes
    <3>1. CASE u = t
      BY <1>0, <1>1, <3>1 DEF Moves
    <3>2. CASE u # t
      BY <1>0, <3>2 DEF WriteInv, Fits, Moves
    <3> QED BY <3>1, <3>2
  <2> QED BY <2>1, <2>2 DEF Fits
<1>7. SafeInv'
  BY <1>0, <1>1, <1>2 DEF WriteInv, SafeInv, ExpiredFirst, SyncedWhenClosed, ClosedIsFree, WriteTypeOK
<1> QED BY <1>3, <1>4, <1>5, <1>6, <1>7 DEF WriteControlInv, Rest

\* A write ends, having made the handle's length what its check allowed.
LEMMA DropGuard ==
  ASSUME WriteInv, NEW t \in Tasks, loc[t] \in WriteWriting, Return(t),
         guard' = [guard EXCEPT ![req[t].h] = Nobody],
         NEW n \in Nat, hlen' \in {hlen, [hlen EXCEPT ![req[t].h] = n]},
         base[req[t].h] + n <= MaxBytes,
         unsynced' \in {unsynced, [unsynced EXCEPT ![req[t].h] = TRUE]},
         UNCHANGED <<handles, path, append, base, expired, life, stop, collected>>
  PROVE  Rest'
<1> DEFINE h == req[t].h
<1>0. WriteTypeOK /\ h \in HandleIds /\ Moves(t, "idle", NoReq)
  BY LocalType, ReturnMoves DEF WriteInv
<1>1. \A u \in Tasks \ {t} : loc[u] \in WriteWriting => req[u].h # h
  BY DEF WriteInv, WriteControlInv, GuardHeld
<1> HIDE DEF h
<1>2. GuardHeld'
  <2>1. ASSUME NEW u \in Tasks, loc'[u] \in WriteWriting PROVE guard'[req'[u].h] = u
    <3>1. u # t /\ loc'[u] = loc[u] /\ req'[u] = req[u]
      BY <1>0, <2>1 DEF Moves, WriteWriting, WriteTypeOK
    <3>2. guard[req[u].h] = u /\ req[u].h # h
      BY <1>1, <2>1, <3>1 DEF WriteInv, WriteControlInv, GuardHeld
    <3>3. guard' = [guard EXCEPT ![h] = Nobody] /\ guard \in [HandleIds -> Tasks \cup {Nobody}]
      BY <1>0 DEF WriteTypeOK, h
    <3>4. req[u].h \in HandleIds
      BY <1>0, <2>1, <3>1, LocalType
    <3> QED BY <3>1, <3>2, <3>3, <3>4
  <2>2. ASSUME NEW k \in HandleIds, guard'[k] # Nobody
        PROVE  loc'[guard'[k]] \in WriteWriting /\ req'[guard'[k]].h = k
    <3>1. k # h /\ guard'[k] = guard[k] /\ guard[k] \in Tasks
      BY <1>0, <2>2 DEF WriteTypeOK, h
    <3>2. guard[k] # t
      BY <2>2, <3>1 DEF WriteInv, WriteControlInv, GuardHeld, h
    <3> QED BY <1>0, <2>2, <3>1, <3>2 DEF WriteInv, WriteControlInv, GuardHeld, Moves
  <2> QED BY <2>1, <2>2 DEF GuardHeld
<1>3. WriteOpened' /\ Stopped' /\ MapOpen'
  BY <1>0 DEF WriteInv, WriteControlInv, WriteOpened, Stopped, MapOpen, Moves, WriteUsing, WriteWriting
<1>4. ClosedOnce'
  BY <1>0 DEF WriteInv, WriteControlInv, ClosedOnce, Moves
<1>5. Fits'
  <2>1. ASSUME NEW k \in HandleIds PROVE base'[k] + hlen'[k] <= MaxBytes
    BY <1>0 DEF WriteInv, Fits, WriteTypeOK, h
  <2>2. ASSUME NEW u \in Tasks
        PROVE  /\ loc'[u] = "open_file" => req'[u].n + req'[u].local <= MaxBytes
               /\ loc'[u] \in {"write_data", "write_done"} =>
                    base'[req'[u].h] + (req'[u].local + req'[u].n) <= MaxBytes
               /\ loc'[u] = "len_set" => base'[req'[u].h] + req'[u].at <= MaxBytes
    BY <1>0 DEF WriteInv, Fits, Moves
  <2> QED BY <2>1, <2>2 DEF Fits
<1>6. SafeInv'
  <2>1. ExpiredFirst'
    BY DEF WriteInv, SafeInv, ExpiredFirst
  <2>2. ClosedIsFree'
    BY <1>0 DEF WriteInv, SafeInv, ClosedIsFree, Moves, WriteWriting
  <2>3. SyncedWhenClosed'
    BY <1>0 DEF WriteInv, SafeInv, ClosedIsFree, SyncedWhenClosed, WriteTypeOK, h
  <2> QED BY <2>1, <2>2, <2>3 DEF SafeInv
<1> QED BY <1>2, <1>3, <1>4, <1>5, <1>6 DEF WriteControlInv, Rest

\* finalize_write_state, when no other request closes the handle.
LEMMA FinalizeKeeps ==
  ASSUME WriteInv, NEW h \in HandleIds, NEW synced \in BOOLEAN, Finalize(h, synced), h \notin handles,
         expired' \in {expired, [expired EXCEPT ![h] = TRUE]}, expired'[h],
         \A u \in Tasks : \/ loc'[u] = loc[u] /\ req'[u] = req[u]
                          \/ loc'[u] = "idle" /\ loc[u] \notin WriteWriting,
         \A u \in Tasks : loc'[u] = "close" => req'[u].h # h,
         UNCHANGED <<handles, path, append, base, hlen, guard, stop>>
  PROVE  Rest'
<1>0. WriteTypeOK
  BY DEF WriteInv
<1>1. /\ guard[h] = Nobody /\ life'[h] = (IF synced THEN "closed" ELSE "lost")
      /\ unsynced'[h] = (unsynced[h] /\ ~ synced)
      /\ \A k \in HandleIds \ {h} : life'[k] = life[k] /\ unsynced'[k] = unsynced[k]
                                 /\ expired'[k] = expired[k]
  BY <1>0 DEF Finalize, WriteTypeOK
<1>2. GuardHeld'
  BY <1>0, HandleAssumption DEF WriteInv, WriteControlInv, GuardHeld, WriteTypeOK, WriteWriting
<1>3. \A u \in Tasks : loc'[u] \in WriteWriting => req'[u].h = req[u].h /\ req[u].h # h /\ loc[u] \in WriteWriting
  BY <1>1, HandleAssumption DEF WriteInv, WriteControlInv, GuardHeld, WriteWriting
<1>4. WriteOpened'
  BY <1>0, <1>1, LocalType DEF WriteInv, WriteControlInv, WriteOpened, WriteUsing, WriteWriting
<1>5. Stopped' /\ MapOpen'
  BY <1>0, <1>1 DEF WriteInv, WriteControlInv, Stopped, MapOpen, WriteTypeOK
<1>6. ClosedOnce'
  BY <1>0, <1>1, LocalType DEF WriteInv, WriteControlInv, ClosedOnce
<1>7. Fits'
  BY <1>0 DEF WriteInv, Fits
<1>8. ExpiredFirst' /\ SyncedWhenClosed'
  <2>1. ExpiredFirst'
    BY <1>0, <1>1 DEF WriteInv, SafeInv, ExpiredFirst, WriteTypeOK
  <2>2. SyncedWhenClosed'
    BY <1>0, <1>1 DEF WriteInv, SafeInv, SyncedWhenClosed, WriteTypeOK
  <2> QED BY <2>1, <2>2
<1>9. ClosedIsFree'
  BY <1>0, <1>1, <1>3, LocalType DEF WriteInv, SafeInv, ClosedIsFree
<1> QED BY <1>2, <1>4, <1>5, <1>6, <1>7, <1>8, <1>9 DEF WriteControlInv, SafeInv, Rest

\* A new handle enters the map.
LEMMA OpenFileKeeps ==
  ASSUME WriteInv, NEW t \in Tasks, NEW h \in HandleIds, OpenFile(t, h)
  PROVE  Rest'
<1>0. WriteTypeOK /\ Moves(t, "idle", NoReq) /\ loc[t] = "open_file" /\ life[h] = "new"
  BY ReturnMoves DEF WriteInv, OpenFile
<1>1. /\ base'[h] = req[t].n /\ hlen'[h] = req[t].local /\ life'[h] = "open"
      /\ \A k \in HandleIds \ {h} : base'[k] = base[k] /\ hlen'[k] = hlen[k] /\ life'[k] = life[k]
      /\ handles' = handles \cup {h} /\ UNCHANGED <<expired, guard, unsynced, stop>>
  BY <1>0 DEF OpenFile, WriteTypeOK
<1>2. \A u \in Tasks : loc[u] \in WriteUsing => req[u].h \in HandleIds \ {h}
  BY <1>0, LocalType DEF WriteInv, WriteControlInv, WriteOpened
<1>3. GuardHeld'
  BY <1>0, <1>1 DEF WriteInv, WriteControlInv, GuardHeld, Moves, WriteWriting, WriteTypeOK
<1>4. WriteOpened'
  BY <1>0, <1>1, <1>2 DEF WriteInv, WriteControlInv, WriteOpened, Moves, WriteUsing, WriteWriting
<1>5. Stopped'
  BY <1>0, <1>1 DEF WriteInv, WriteControlInv, Stopped, Moves
<1>6. MapOpen'
  BY <1>0, <1>1 DEF WriteInv, WriteControlInv, MapOpen, WriteTypeOK
<1>7. ClosedOnce'
  BY <1>0, <1>1, <1>2 DEF WriteInv, WriteControlInv, ClosedOnce, Moves, WriteUsing
<1>8. Fits'
  <2>1. ASSUME NEW k \in HandleIds PROVE base'[k] + hlen'[k] <= MaxBytes
    BY <1>0, <1>1 DEF WriteInv, Fits
  <2>2. ASSUME NEW u \in Tasks
        PROVE  /\ loc'[u] = "open_file" => req'[u].n + req'[u].local <= MaxBytes
               /\ loc'[u] \in {"write_data", "write_done"} =>
                    base'[req'[u].h] + (req'[u].local + req'[u].n) <= MaxBytes
               /\ loc'[u] = "len_set" => base'[req'[u].h] + req'[u].at <= MaxBytes
    BY <1>0, <1>1, <1>2 DEF WriteInv, Fits, Moves, WriteUsing, WriteWriting
  <2> QED BY <2>1, <2>2 DEF Fits
<1>9. SafeInv'
  BY <1>0, <1>1, <1>2
  DEF WriteInv, SafeInv, ExpiredFirst, SyncedWhenClosed, ClosedIsFree, Moves, WriteUsing, WriteWriting, WriteTypeOK
<1> QED BY <1>3, <1>4, <1>5, <1>6, <1>7, <1>8, <1>9 DEF WriteControlInv, Rest

\* CloseWrite takes the handle out of the map: whoever comes later does not
\* find it.
LEMMA CloseKeeps ==
  ASSUME WriteInv, NEW t \in Tasks, NEW h \in HandleIds, Close(t, h)
  PROVE  Rest'
<1>0. /\ WriteTypeOK /\ h \in handles /\ loc[t] = "idle" /\ stop = "serving"
      /\ life[h] = "open" /\ UNCHANGED <<path, append, base, hlen, guard, unsynced, stop>>
  BY DEF WriteInv, WriteControlInv, MapOpen, Close, Begin
<1>1. [NoReq EXCEPT !.h = h] \in Reqs /\ [NoReq EXCEPT !.h = h].h = h
  BY NoReqType DEF Reqs
<1>2. Moves(t, "close", [NoReq EXCEPT !.h = h])
  BY <1>0, <1>1, BeginMoves DEF Close, Labels
<1>3. /\ req'[t].h = h /\ loc'[t] = "close"
      /\ \A u \in Tasks \ {t} : loc'[u] = loc[u] /\ req'[u] = req[u]
  BY <1>1, <1>2 DEF Moves
<1>4. /\ handles' = handles \ {h} /\ life'[h] = "closing" /\ expired'[h]
      /\ \A k \in HandleIds \ {h} : life'[k] = life[k] /\ expired'[k] = expired[k]
  BY <1>0 DEF Close, WriteTypeOK
<1>5. GuardHeld'
  BY <1>0, <1>3 DEF WriteInv, WriteControlInv, GuardHeld, WriteWriting, WriteTypeOK
<1>6. WriteOpened' /\ Stopped' /\ MapOpen'
  BY <1>0, <1>3, <1>4, LocalType DEF WriteInv, WriteControlInv, WriteOpened, Stopped, MapOpen, WriteTypeOK
<1>7. ClosedOnce'
  BY <1>0, <1>3, <1>4, LocalType DEF WriteInv, WriteControlInv, ClosedOnce
<1>8. Fits'
  BY <1>0, <1>3 DEF WriteInv, Fits
<1>9. SafeInv'
  BY <1>0, <1>3, <1>4, LocalType
  DEF WriteInv, SafeInv, ExpiredFirst, SyncedWhenClosed, ClosedIsFree, WriteWriting
<1> QED BY <1>5, <1>6, <1>7, <1>8, <1>9 DEF WriteControlInv, Rest

\* A request is dropped: its mutex is free again, and the handle it was
\* closing stays unfinalized.
LEMMA CancelKeeps ==
  ASSUME WriteInv, NEW t \in Tasks, Cancel(t)
  PROVE  Rest'
<1> DEFINE h == req[t].h
<1>0. /\ WriteTypeOK /\ h \in HandleIds /\ Moves(t, "idle", NoReq) /\ loc[t] # "idle"
      /\ UNCHANGED <<handles, base, hlen, expired, unsynced, stop>>
  BY LocalType, ReturnMoves DEF WriteInv, Cancel
<1>1. /\ guard'[h] = (IF guard[h] = t THEN Nobody ELSE guard[h])
      /\ \A k \in HandleIds \ {h} : guard'[k] = guard[k] /\ life'[k] = life[k]
      /\ life'[h] = (IF loc[t] = "close" THEN "lost" ELSE life[h])
  BY <1>0 DEF Cancel, WriteTypeOK
<1> HIDE DEF h
<1>2. GuardHeld'
  <2>1. ASSUME NEW u \in Tasks, loc'[u] \in WriteWriting PROVE guard'[req'[u].h] = u
    <3>1. u # t /\ loc[u] \in WriteWriting /\ req'[u] = req[u]
      BY <1>0, <2>1 DEF Moves, WriteWriting
    <3>2. guard[req[u].h] = u /\ req[u].h \in HandleIds
      BY <1>0, <3>1, LocalType DEF WriteInv, WriteControlInv, GuardHeld
    <3> QED BY <1>1, <3>1, <3>2
  <2>2. ASSUME NEW k \in HandleIds, guard'[k] # Nobody
        PROVE  loc'[guard'[k]] \in WriteWriting /\ req'[guard'[k]].h = k
    <3>1. guard'[k] = guard[k] /\ guard[k] \in Tasks
      BY <1>0, <1>1, <2>2 DEF WriteTypeOK
    <3>2. guard[k] # t
      BY <1>1, <2>2, <3>1 DEF WriteInv, WriteControlInv, GuardHeld, h
    <3> QED BY <1>0, <2>2, <3>1, <3>2 DEF WriteInv, WriteControlInv, GuardHeld, Moves
  <2> QED BY <2>1, <2>2 DEF GuardHeld
<1>3. WriteOpened'
  BY <1>0, <1>1, LocalType DEF WriteInv, WriteControlInv, WriteOpened, Moves, WriteUsing, WriteWriting
<1>4. Stopped'
  BY <1>0 DEF WriteInv, WriteControlInv, Stopped, Moves
<1>5. MapOpen'
  BY <1>0, <1>1 DEF WriteInv, WriteControlInv, MapOpen, ClosedOnce, WriteTypeOK, h
<1>6. ClosedOnce'
  BY <1>0, <1>1, LocalType DEF WriteInv, WriteControlInv, ClosedOnce, Moves, h
<1>7. Fits'
  BY <1>0 DEF WriteInv, Fits, Moves
<1>8. ExpiredFirst'
  <2>1. loc[t] = "close" => expired[h]
    BY <1>0 DEF WriteInv, WriteControlInv, ClosedOnce, SafeInv, ExpiredFirst, h
  <2> QED BY <1>0, <1>1, <2>1 DEF WriteInv, SafeInv, ExpiredFirst
<1>9. SyncedWhenClosed' /\ ClosedIsFree'
  BY <1>0, <1>1, LocalType
  DEF WriteInv, SafeInv, SyncedWhenClosed, ClosedIsFree, Moves, WriteWriting
<1> QED BY <1>2, <1>3, <1>4, <1>5, <1>6, <1>7, <1>8, <1>9 DEF WriteControlInv, SafeInv, Rest

\* The reaper, SetVfs and shutdown move handles along before they are
\* finalized.
LEMMA HandleMoves ==
  ASSUME WriteInv, UNCHANGED <<path, append, base, hlen, guard, unsynced, loc, req>>,
         handles' \subseteq handles, Stopped',
         \A k \in HandleIds :
           \/ life'[k] = life[k] /\ expired'[k] = expired[k]
           \/ life[k] = "open" /\ life'[k] = "evicted" /\ k \notin handles'
           \/ life[k] = "evicted" /\ life'[k] = "closing" /\ expired'[k]
  PROVE  Rest'
<1>0. WriteTypeOK
  BY DEF WriteInv
<1>1. GuardHeld' /\ Fits'
  BY DEF WriteInv, WriteControlInv, GuardHeld, Fits
<1>2. WriteOpened' /\ MapOpen'
  BY <1>0, LocalType DEF WriteInv, WriteControlInv, WriteOpened, MapOpen, WriteTypeOK
<1>3. ClosedOnce'
  BY <1>0, LocalType DEF WriteInv, WriteControlInv, ClosedOnce
<1>4. SafeInv'
  BY <1>0, LocalType DEF WriteInv, SafeInv, ExpiredFirst, SyncedWhenClosed, ClosedIsFree
<1> QED BY <1>1, <1>2, <1>3, <1>4 DEF WriteControlInv, Rest

-----------------------------------------------------------------------------
LEMMA RestStep == WriteInv /\ [WriteNext]_writeVars => Rest'
<1> SUFFICES ASSUME WriteInv, [WriteNext]_writeVars PROVE Rest'
  OBVIOUS
<1>0. WriteTypeOK /\ \A t \in Tasks : loc[t] # "idle" => stop = "serving"
  BY DEF WriteInv, WriteControlInv, Stopped
<1>1. ASSUME NEW t \in Tasks, WriteRequest(t) PROVE Rest'
  <2>1. ASSUME NEW f \in Paths, NEW overwrite \in BOOLEAN, NEW app \in BOOLEAN,
               OpenWrite(t, f, overwrite, app)
        PROVE  Rest'
    <3>1. [NoReq EXCEPT !.f = f, !.overwrite = overwrite, !.append = app] \in Reqs
      BY NoReqType DEF Reqs
    <3>2. Moves(t, "open_lock", [NoReq EXCEPT !.f = f, !.overwrite = overwrite, !.append = app])
      BY <1>0, <2>1, <3>1, BeginMoves DEF OpenWrite, Labels
    <3> QED BY <2>1, <3>1, <3>2, QuietMove DEF OpenWrite, Begin, Labels, WriteWriting, WriteUsing
  <2>2. ASSUME NEW h \in HandleIds, NEW offset \in Lengths, NEW n \in 1 .. MaxSize,
               WriteAt(t, h, offset, n)
        PROVE  Rest'
    <3>0. n \in Nat
      BY HandleAssumption
    <3>1. /\ [NoReq EXCEPT !.h = h, !.at = offset, !.n = n] \in Reqs
          /\ [NoReq EXCEPT !.h = h, !.at = offset, !.n = n].h = h
      BY <3>0, NoReqType DEF Reqs
    <3>2. Moves(t, "write_lock", [NoReq EXCEPT !.h = h, !.at = offset, !.n = n])
      BY <1>0, <2>2, <3>1, BeginMoves DEF WriteAt, Labels
    <3>3. life[h] # "new"
      BY <2>2 DEF WriteAt, WriteInv, WriteControlInv, MapOpen
    <3> QED BY <2>2, <3>1, <3>2, <3>3, QuietMove DEF WriteAt, Begin, Labels, WriteWriting
  <2>3. ASSUME NEW h \in HandleIds, NEW length \in Lengths, SetHandleLength(t, h, length)
        PROVE  Rest'
    <3>1. [NoReq EXCEPT !.h = h, !.at = length] \in Reqs /\ [NoReq EXCEPT !.h = h, !.at = length].h = h
      BY NoReqType DEF Reqs
    <3>2. Moves(t, "len_lock", [NoReq EXCEPT !.h = h, !.at = length])
      BY <1>0, <2>3, <3>1, BeginMoves DEF SetHandleLength, Labels
    <3>3. life[h] # "new"
      BY <2>3 DEF SetHandleLength, WriteInv, WriteControlInv, MapOpen
    <3> QED BY <2>3, <3>1, <3>2, <3>3, QuietMove DEF SetHandleLength, Begin, Labels, WriteWriting
  <2>4. ASSUME NEW f \in Paths, NEW length \in Lengths, SetPathLength(t, f, length)
        PROVE  Rest'
    <3>1. [NoReq EXCEPT !.f = f, !.at = length] \in Reqs
      BY NoReqType DEF Reqs
    <3>2. Moves(t, "path_lock", [NoReq EXCEPT !.f = f, !.at = length])
      BY <1>0, <2>4, <3>1, BeginMoves DEF SetPathLength, Labels
    <3> QED BY <2>4, <3>1, <3>2, QuietMove DEF SetPathLength, Begin, Labels, WriteWriting, WriteUsing
  <2> QED BY <1>1, <2>1, <2>2, <2>3, <2>4, CloseKeeps DEF WriteRequest
<1>2. ASSUME NEW t \in Tasks, Return(t), loc[t] \notin WriteWriting, loc[t] # "idle",
             UNCHANGED <<handleVars, stop>>
      PROVE  Rest'
  BY <1>0, <1>2, ReturnMoves, NoReqType, QuietMove DEF Labels, WriteWriting, WriteUsing
<1>3. ASSUME NEW t \in Tasks, NEW label \in {"open_scan", "path_check", "path_set"},
             NEW local \in Nat, WriteGoto(t, label, local), loc[t] \notin WriteWriting, loc[t] # "idle",
             UNCHANGED <<handleVars, stop>>
      PROVE  Rest'
  <2>1. label \in Labels \ (WriteWriting \cup {"close"}) /\ label \notin WriteUsing
    BY DEF Labels, WriteWriting, WriteUsing
  <2>2. Moves(t, label, [req[t] EXCEPT !.local = local])
    BY <1>0, <1>3, <2>1, GotoMoves
  <2>3. [req[t] EXCEPT !.local = local] \in Reqs
    BY <1>0 DEF WriteTypeOK, Reqs
  <2> QED BY <1>0, <1>3, <2>1, <2>2, <2>3, QuietMove
<1>4. ASSUME NEW t \in Tasks, OpenLock(t) \/ PathLock(t) PROVE Rest'
  BY <1>0, <1>3, <1>4, LocalType DEF OpenLock, PathLock, WriteWriting
<1>5. ASSUME NEW t \in Tasks, PathCheck(t) PROVE Rest'
  BY <1>2, <1>3, <1>5 DEF PathCheck, WriteWriting
<1>6. ASSUME NEW t \in Tasks, PathSet(t) PROVE Rest'
  BY <1>2, <1>6 DEF PathSet, WriteWriting
<1>7. ASSUME NEW t \in Tasks, OpenScan(t) PROVE Rest'
  <2>1. CASE ScannedBase(t) + InitialLen(t) > MaxBytes
    BY <1>2, <1>7, <2>1 DEF OpenScan, WriteWriting
  <2>2. CASE ~ (ScannedBase(t) + InitialLen(t) > MaxBytes)
    <3> DEFINE r == [req[t] EXCEPT !.local = InitialLen(t), !.n = ScannedBase(t)]
    <3>0. ScannedBase(t) \in Nat /\ InitialLen(t) \in Nat
      BY <1>0, LocalType
    <3>1. r \in Reqs /\ r.n = ScannedBase(t) /\ r.local = InitialLen(t)
      <4>1. req[t] \in Reqs
        BY <1>0 DEF WriteTypeOK
      <4> QED BY <3>0, <4>1 DEF Reqs
    <3>2. Moves(t, "open_file", r)
      <4>1. /\ loc' = [loc EXCEPT ![t] = "open_file"]
            /\ req' = [req EXCEPT ![t].local = InitialLen(t), ![t].n = ScannedBase(t)]
        BY <1>7, <2>2 DEF OpenScan
      <4>2. req' = [req EXCEPT ![t] = r]
        BY <1>0, <4>1 DEF WriteTypeOK
      <4> QED BY <1>0, <3>1, <4>1, <4>2 DEF Moves, WriteTypeOK, Labels
    <3>3. r.n + r.local <= MaxBytes
      BY <2>2, <3>0, <3>1, HandleAssumption
    <3> HIDE DEF r
    <3> QED BY <1>0, <1>7, <3>1, <3>2, <3>3, QuietMove DEF OpenScan, Labels, WriteWriting, WriteUsing
  <2> QED BY <2>1, <2>2
<1>8. ASSUME NEW t \in Tasks, WriteLock(t) PROVE Rest'
  <2>1. CASE expired[req[t].h]
    BY <1>2, <1>8, <2>1 DEF WriteLock, handleVars, WriteWriting
  <2>2. CASE ~ expired[req[t].h]
    BY <1>8, <2>2, TakeGuard DEF WriteLock
  <2> QED BY <2>1, <2>2
<1>9. ASSUME NEW t \in Tasks, SetLengthLock(t) PROVE Rest'
  <2>1. CASE expired[req[t].h] \/ base[req[t].h] + req[t].at > MaxBytes
    BY <1>2, <1>9, <2>1 DEF SetLengthLock, handleVars, WriteWriting
  <2>2. CASE ~ (expired[req[t].h] \/ base[req[t].h] + req[t].at > MaxBytes)
    <3>1. base[req[t].h] + req[t].at <= MaxBytes
      BY <1>0, <2>2, LocalType, HandleAssumption DEF WriteTypeOK
    <3> QED BY <1>9, <2>2, <3>1, TakeGuard DEF SetLengthLock
  <2> QED BY <2>1, <2>2
<1>10. ASSUME NEW t \in Tasks, WriteCheck(t) PROVE Rest'
  <2> DEFINE h == req[t].h
  <2>0. /\ h \in HandleIds /\ base[h] \in Nat /\ hlen[h] \in Nat /\ WriteOffset(t) \in Nat
        /\ req[t].n \in Nat /\ MaxBytes \in Nat
    BY <1>0, LocalType, HandleAssumption DEF WriteTypeOK
  <2>1. CASE base[h] + Larger(hlen[h], WriteOffset(t) + req[t].n) > MaxBytes
    <3>1. base[h] + hlen[h] <= MaxBytes
      BY <2>0 DEF WriteInv, Fits
    <3> QED BY <1>10, <2>0, <2>1, <3>1, DropGuard DEF WriteCheck, WriteWriting
  <2>2. CASE ~ (base[h] + Larger(hlen[h], WriteOffset(t) + req[t].n) > MaxBytes)
    <3>1. base[h] + (WriteOffset(t) + req[t].n) <= MaxBytes
      BY <2>0, <2>2 DEF Larger
    <3> QED BY <1>10, <2>0, <2>2, <3>1, KeepGuard DEF WriteCheck, WriteWriting
  <2> QED BY <2>1, <2>2
<1>11. ASSUME NEW t \in Tasks, WriteData(t) PROVE Rest'
  <2>1. base[req[t].h] + (req[t].local + req[t].n) <= MaxBytes /\ req[t].local \in Nat
    BY <1>0, <1>11, LocalType DEF WriteData, WriteInv, Fits
  <2> QED BY <1>11, <2>1, KeepGuard DEF WriteData, WriteWriting
<1>12. ASSUME NEW t \in Tasks, WriteDone(t) PROVE Rest'
  <2> DEFINE n == Larger(hlen[req[t].h], req[t].local + req[t].n)
  <2>1. n \in Nat /\ base[req[t].h] + n <= MaxBytes
    <3>1. /\ req[t].h \in HandleIds /\ req[t].local \in Nat /\ req[t].n \in Nat
          /\ base[req[t].h] \in Nat /\ hlen[req[t].h] \in Nat
      BY <1>0, LocalType, HandleAssumption DEF WriteTypeOK
    <3>2. /\ base[req[t].h] + hlen[req[t].h] <= MaxBytes
          /\ base[req[t].h] + (req[t].local + req[t].n) <= MaxBytes
      BY <1>12, <3>1 DEF WriteDone, WriteInv, Fits
    <3> QED BY <3>1, <3>2, HandleAssumption DEF Larger
  <2>2. hlen' = [hlen EXCEPT ![req[t].h] = n]
    BY <1>12 DEF WriteDone
  <2> HIDE DEF n
  <2> QED BY <1>12, <2>1, <2>2, DropGuard DEF WriteDone, WriteWriting
<1>13. ASSUME NEW t \in Tasks, SetLen(t) PROVE Rest'
  <2>1. req[t].at \in Nat /\ base[req[t].h] + req[t].at <= MaxBytes
    BY <1>0, <1>13, LocalType DEF SetLen, WriteInv, Fits
  <2> QED BY <1>13, <2>1, DropGuard DEF SetLen, WriteWriting
<1>14. ASSUME NEW t \in Tasks, NEW synced \in BOOLEAN, CloseSync(t, synced) PROVE Rest'
  <2>1. /\ Moves(t, "idle", NoReq) /\ req[t].h \in HandleIds /\ req[t].h \notin handles
        /\ life[req[t].h] = "closing" /\ expired[req[t].h]
    BY <1>0, <1>14, ReturnMoves, LocalType
    DEF CloseSync, WriteInv, WriteControlInv, ClosedOnce, SafeInv, ExpiredFirst
  <2>2. \A u \in Tasks : loc'[u] = "close" => req'[u].h # req[t].h
    BY <1>14, <2>1 DEF CloseSync, Moves, WriteInv, WriteControlInv, ClosedOnce
  <2>3. \A u \in Tasks : \/ loc'[u] = loc[u] /\ req'[u] = req[u]
                         \/ loc'[u] = "idle" /\ loc[u] \notin WriteWriting
    <3>1. loc[t] = "close" /\ "close" \notin WriteWriting
      BY <1>14 DEF CloseSync, WriteWriting
    <3> QED BY <2>1, <3>1 DEF Moves
  <2> QED BY <1>14, <2>1, <2>2, <2>3, FinalizeKeeps DEF CloseSync
<1>15. ASSUME NEW h \in HandleIds, Evict(h) PROVE Rest'
  <2>1. life[h] = "open"
    BY <1>15 DEF Evict, WriteInv, WriteControlInv, MapOpen
  <2>2. Stopped'
    BY <1>15 DEF Evict, WriteInv, WriteControlInv, Stopped
  <2> QED BY <1>0, <1>15, <2>1, <2>2, HandleMoves DEF Evict, WriteTypeOK
<1>16. ASSUME NEW h \in HandleIds, EvictExpire(h) PROVE Rest'
  <2>1. Stopped'
    BY <1>16 DEF EvictExpire, WriteInv, WriteControlInv, Stopped
  <2> QED BY <1>0, <1>16, <2>1, HandleMoves DEF EvictExpire, WriteTypeOK
<1>17. ASSUME NEW h \in HandleIds, NEW synced \in BOOLEAN, EvictSync(h, synced) PROVE Rest'
  <2>1. h \notin handles /\ expired[h]
    BY <1>17 DEF EvictSync, ByCloser, WriteInv, WriteControlInv, MapOpen, SafeInv, ExpiredFirst
  <2>2. expired'[h] /\ Finalize(h, synced) /\ expired' \in {expired, [expired EXCEPT ![h] = TRUE]}
    BY <1>17, <2>1 DEF EvictSync
  <2>3. /\ \A u \in Tasks : loc'[u] = "close" => req'[u].h # h
        /\ UNCHANGED <<handles, path, append, base, hlen, guard, stop, loc, req>>
    BY <1>17 DEF EvictSync, ByCloser
  <2>4. \A u \in Tasks : \/ loc'[u] = loc[u] /\ req'[u] = req[u]
                         \/ loc'[u] = "idle" /\ loc[u] \notin WriteWriting
    BY <2>3
  <2> QED BY <2>1, <2>2, <2>3, <2>4, FinalizeKeeps
<1>18. CASE Shutdown \/ ShutdownClear \/ Exit
  <2>1. Stopped'
    BY <1>18 DEF Shutdown, ShutdownClear, Exit, WriteInv, WriteControlInv, Stopped, handleVars
  <2> QED BY <1>18, <2>1, HandleMoves DEF Shutdown, ShutdownClear, Exit, handleVars
<1>19. ASSUME NEW h \in HandleIds, NEW synced \in BOOLEAN, ShutdownClose(h, synced) PROVE Rest'
  <2>1. h \notin handles /\ \A u \in Tasks : loc[u] = "idle"
    BY <1>19 DEF ShutdownClose, WriteInv, WriteControlInv, Stopped
  <2>2. expired'[h]
    BY <1>0, <1>19 DEF ShutdownClose, WriteTypeOK
  <2>3. /\ Finalize(h, synced) /\ expired' \in {expired, [expired EXCEPT ![h] = TRUE]}
        /\ UNCHANGED <<handles, path, append, base, hlen, guard, stop, loc, req>>
    BY <1>19 DEF ShutdownClose
  <2>4. /\ \A u \in Tasks : \/ loc'[u] = loc[u] /\ req'[u] = req[u]
                            \/ loc'[u] = "idle" /\ loc[u] \notin WriteWriting
        /\ \A u \in Tasks : loc'[u] = "close" => req'[u].h # h
    BY <2>1, <2>3
  <2> QED BY <2>1, <2>2, <2>3, <2>4, FinalizeKeeps
<1>20. CASE UNCHANGED writeVars
  <2>1. Stopped'
    BY <1>20 DEF writeVars, WriteInv, WriteControlInv, Stopped
  <2> QED BY <1>20, <2>1, HandleMoves DEF writeVars
<1> QED
  BY <1>1, <1>4, <1>5, <1>6, <1>7, <1>8, <1>9, <1>10, <1>11, <1>12, <1>13, <1>14,
     <1>15, <1>16, <1>17, <1>18, <1>19, <1>20, OpenFileKeeps, CancelKeeps
  DEF WriteNext, TaskStep, CloserStep, ShutdownStep

-----------------------------------------------------------------------------
\* The invariant is inductive.
LEMMA InvAlways == WriteSpec => []WriteInv
<1>1. WriteInv /\ [WriteNext]_writeVars => WriteInv'
  BY WriteTypeStep, RestStep DEF WriteInv, Rest
<1> QED BY <1>1, WriteInvInit, PTL DEF WriteSpec

\* Type correctness of the write handles: in particular quota_base_bytes
\* and the tracked length of every handle stay within the point's
\* max_bytes, whatever requests, closes and cancellations interleave.
THEOREM WriteTypeCorrect == WriteSpec => []WriteTypeOK
<1>1. WriteInv => WriteTypeOK
  BY DEF WriteInv
<1> QED BY <1>1, InvAlways, PTL

\* What a handle may have written never exceeds what its open left of the
\* point's max_bytes: the check of vfs_write_at and vfs_set_length is made
\* and acted on under one mutex.
THEOREM WithinQuota == WriteSpec => [](\A h \in HandleIds : base[h] + hlen[h] <= MaxBytes)
<1>1. WriteInv => \A h \in HandleIds : base[h] + hlen[h] <= MaxBytes
  BY DEF WriteInv, Fits
<1> QED BY <1>1, InvAlways, PTL

\* Nothing is written through a handle after the sync_all of its close has
\* succeeded: vfs_write_at and vfs_set_length look at `expired` under the
\* mutex that close_write_handle takes after setting it.
THEOREM NothingAfterSync == WriteSpec => []SyncedWhenClosed
<1>1. WriteInv => SyncedWhenClosed
  BY DEF WriteInv, SafeInv
<1> QED BY <1>1, InvAlways, PTL

\* Of the CloseWrites of a handle, the reaper and SetVfs, one closes it: the
\* removal from write_handles decides which.
THEOREM OneCloser == WriteSpec => []ClosedOnce
<1>1. WriteInv => ClosedOnce
  BY DEF WriteInv, WriteControlInv
<1> QED BY <1>1, InvAlways, PTL
=============================================================================
