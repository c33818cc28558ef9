------------------------- MODULE QuotaLayerProofs -------------------------
(***************************************************************************)
(* Proofs about QuotaLayer, for any number of objects and operations and   *)
(* any sizes: type correctness, and that whenever nothing is under way the *)
(* counter covers the stored objects but for the bytes that went uncounted *)
(* (StoredIsCounted), as long as no two operations work on one path.       *)
(***************************************************************************)
EXTENDS QuotaLayer, FoldTheorems

\* What is left of the replaced object, as far as the commit knew of it.
Replaced(t) == IF old[t] <= size[to[t]] THEN old[t] ELSE size[to[t]]

\* What operation t has still to do to the stored objects: before its commit
\* the staging object is not to be counted; after it the total holds the new
\* object though the replaced one may still be there; and the total still
\* holds a deleted object.
Reserve ==
  [t \in Tasks |->
     IF pc[t] \in Staged THEN 0 - size[tmp[t]]
     ELSE IF pc[t] \in Committed THEN new[t] - Replaced(t) - size[tmp[t]]
     ELSE IF pc[t] = "release" THEN old[t] ELSE 0]

\* What a rollback of operation t would add to the total at most.
Credit == [t \in Tasks |-> IF pc[t] \in Committed THEN old[t] ELSE 0]

\* No two operations work on one path.
Uses(t) == {from[t], to[t], tmp[t]}
Exclusive ==
  \A t, u \in Tasks : t # u /\ pc[t] # "idle" /\ pc[u] # "idle" => Uses(t) \cap Uses(u) = {}

\* The size to be replaced or released was not overstated, and an object is
\* staged beside its destination.
Known(t) ==
  /\ pc[t] \in {"commit", "rename", "delete"} => old[t] <= size[to[t]]
  /\ Staging(t) => tmp[t] # to[t]

\* The counter and the bytes that went uncounted cover the objects and what
\* the operations under way have still to change.
Counted == Usage + SumFunction(Reserve) <= total + uncounted

\* The rollbacks under way cannot take the total further past the limit than
\* one largest object each.
Bounded == total + SumFunction(Credit) <= Limit + Cardinality(Tasks) * MaxSize

\* Limit and sizes are so small that the saturating additions never saturate.
NoSaturation == Limit + (Cardinality(Tasks) + 1) * MaxSize <= U64Max

Inv ==
  /\ TypeOK
  /\ Exclusive
  /\ \A t \in Tasks : Known(t)
  /\ Counted
  /\ Bounded

-----------------------------------------------------------------------------
LEMMA SatTypes ==
  ASSUME NEW a \in 0 .. U64Max, NEW b \in 0 .. U64Max
  PROVE  /\ SatSub(a, b) \in 0 .. U64Max /\ SatSub(a, b) <= a /\ SatSub(a, b) >= a - b
         /\ SatAdd(a, b) \in 0 .. U64Max /\ SatAdd(a, b) <= a + b
         /\ a + b <= U64Max => SatAdd(a, b) = a + b
BY LayerAssumption DEF SatSub, SatAdd

LEMMA SizesFit == 0 \in 0 .. MaxSize /\ 0 .. MaxSize \subseteq 0 .. U64Max /\ MaxSize \in Nat
                  /\ U64Max \in Nat /\ Limit \in Nat /\ 0 .. MaxSize \subseteq Nat
BY LayerAssumption

\* The total after a commit, a rollback or a release is a u64.
LEMMA AfterType ==
  ASSUME TypeOK, NEW o \in 0 .. MaxSize, NEW n \in 0 .. MaxSize
  PROVE  After(o, n) \in 0 .. U64Max
<1>1. total \in 0 .. U64Max /\ o \in 0 .. U64Max /\ n \in 0 .. U64Max
  BY SizesFit DEF TypeOK
<1>2. SatSub(total, o) \in 0 .. U64Max
  BY <1>1, SatTypes
<1> QED BY <1>1, <1>2, SatTypes DEF After

LEMMA SomePathType == SomePath \in Paths
BY LayerAssumption DEF SomePath

LEMMA LocalTypes ==
  ASSUME TypeOK, NEW t \in Tasks
  PROVE  /\ from[t] \in Paths /\ to[t] \in Paths /\ tmp[t] \in Paths
         /\ old[t] \in 0 .. MaxSize /\ new[t] \in 0 .. MaxSize
         /\ old[t] \in Nat /\ new[t] \in Nat
         /\ size[from[t]] \in 0 .. MaxSize
         /\ size[to[t]] \in 0 .. MaxSize /\ size[tmp[t]] \in 0 .. MaxSize
         /\ size[to[t]] \in Nat /\ size[tmp[t]] \in Nat
         /\ total \in Nat /\ total \in 0 .. U64Max /\ uncounted \in Nat
BY SizesFit DEF TypeOK

LEMMA SizeOfType == ASSUME TypeOK, NEW f \in Paths PROVE SizeOf(f) \subseteq 0 .. MaxSize
BY SizesFit DEF TypeOK, SizeOf

LEMMA TypeInit == Init => TypeOK
<1> SUFFICES ASSUME Init PROVE TypeOK
  OBVIOUS
<1>1. 0 \in 0 .. U64Max /\ 0 \in 0 .. MaxSize /\ SomePath \in Paths
  BY SizesFit, SomePathType
<1>2. /\ size \in [Paths -> 0 .. MaxSize]
      /\ from \in [Tasks -> Paths] /\ to \in [Tasks -> Paths] /\ tmp \in [Tasks -> Paths]
  BY <1>1 DEF Init
<1>3. /\ old \in [Tasks -> 0 .. MaxSize]
      /\ new \in [Tasks -> 0 .. MaxSize] /\ pc \in [Tasks -> Labels]
  BY <1>1 DEF Init, Labels
<1> QED BY <1>1, <1>2, <1>3 DEF Init, TypeOK

Others(t) ==
  \A u \in Tasks \ {t} :
    /\ pc'[u] = pc[u] /\ from'[u] = from[u] /\ to'[u] = to[u] /\ tmp'[u] = tmp[u]
    /\ old'[u] = old[u] /\ new'[u] = new[u]

\* What the end of an operation leaves well typed.
LEMMA ReturnTyped ==
  ASSUME TypeOK, NEW t \in Tasks, Return(t)
  PROVE  /\ pc' \in [Tasks -> Labels]
         /\ from' \in [Tasks -> Paths] /\ to' \in [Tasks -> Paths] /\ tmp' \in [Tasks -> Paths]
         /\ old' \in [Tasks -> 0 .. MaxSize] /\ new' \in [Tasks -> 0 .. MaxSize]
         /\ pc'[t] = "idle"
         /\ Others(t)
BY SizesFit, SomePathType DEF TypeOK, Return, Goto, Labels, Others

LEMMA LeaveTyped ==
  ASSUME TypeOK, NEW t \in Tasks, NEW k \in 0 .. MaxSize, Leave(t, k),
         total' \in 0 .. U64Max, loaded' \in BOOLEAN
  PROVE  TypeOK'
<1>1. size' \in [Paths -> 0 .. MaxSize]
  BY DEF Leave, TypeOK
<1>2. uncounted' \in Nat
  BY SizesFit DEF Leave, Uncount, TypeOK
<1> QED BY <1>1, <1>2, ReturnTyped DEF Leave, TypeOK

LEMMA TypeStep == TypeOK /\ [Next]_vars => TypeOK'
<1> SUFFICES ASSUME TypeOK, [Next]_vars PROVE TypeOK'
  OBVIOUS
<1>0. 0 \in 0 .. MaxSize /\ 0 .. MaxSize \subseteq 0 .. U64Max /\ MaxSize \in Nat
  BY SizesFit
<1>1. ASSUME NEW t \in Tasks, NEW op, NEW f \in Paths, NEW g \in Paths, NEW h \in Paths,
             NEW label \in Labels, Begin(t, op, f, g, h, label), size' \in [Paths -> 0 .. MaxSize]
      PROVE  TypeOK'
  BY <1>1 DEF Begin, Goto, TypeOK
<1>2. ASSUME NEW t \in Tasks, NEW op, NEW f \in Paths, NEW g \in Paths, NEW h \in Paths,
             NEW label \in Labels, NEW n \in 0 .. MaxSize, Stage(t, op, f, g, h, label, n)
      PROVE  TypeOK'
  <2>1. size' \in [Paths -> 0 .. MaxSize]
    BY <1>2 DEF Stage, TypeOK
  <2> QED BY <1>1, <1>2, <2>1 DEF Stage
<1>3. ASSUME NEW t \in Tasks, NEW f \in Paths, NEW h \in Paths, NEW n \in 0 .. MaxSize,
             Write(t, f, h, n)
      PROVE  TypeOK'
  BY <1>2, <1>3 DEF Write, Labels, Staged
<1>4. ASSUME NEW t \in Tasks, NEW f \in Paths, NEW g \in Paths, NEW h \in Paths, Copy(t, f, g, h)
      PROVE  TypeOK'
  <2>1. size[f] \in 0 .. MaxSize
    BY DEF TypeOK
  <2> QED BY <1>2, <1>4, <2>1 DEF Copy, Labels, Staged
<1>5. ASSUME NEW t \in Tasks, NEW f \in Paths, Delete(t, f) PROVE TypeOK'
  BY <1>1, <1>5 DEF Delete, Labels, TypeOK
<1>6. ASSUME NEW t \in Tasks, NEW f \in Paths, NEW g \in Paths, RenameObject(t, f, g)
      PROVE  TypeOK'
  <2>1. size' = [size EXCEPT ![f] = 0, ![g] = size[f]]
    BY <1>6 DEF RenameObject
  <2>2. size' \in [Paths -> 0 .. MaxSize]
    BY <1>0, <2>1 DEF TypeOK
  <2> QED BY <1>6, <2>2 DEF RenameObject, TypeOK
<1>7. ASSUME NEW t \in Tasks, Abort(t) PROVE TypeOK'
  <2>1. PICK k \in 0 .. size[tmp[t]] : Leave(t, k)
    BY <1>7 DEF Abort
  <2>2. k \in 0 .. MaxSize
    BY <1>0, LocalTypes
  <2> QED BY <1>7, <2>1, <2>2, LeaveTyped DEF Abort, TypeOK
<1>8. ASSUME NEW t \in Tasks, Cancel(t) PROVE TypeOK'
  <2>1. /\ Uncount(size[tmp[t]] + IF pc[t] \in Committed THEN SatSub(old[t], new[t]) ELSE 0)
        /\ Return(t) /\ UNCHANGED <<size, total, loaded>>
    BY <1>8 DEF Cancel
  <2>2. uncounted' \in Nat
    <3>1. SatSub(old[t], new[t]) \in Nat
      BY LocalTypes DEF SatSub
    <3> QED BY <2>1, <3>1, LocalTypes DEF Uncount
  <2> QED BY <2>1, <2>2, ReturnTyped DEF TypeOK
<1>9. ASSUME NEW t \in Tasks, FromSize(t) PROVE TypeOK'
  <2>1. SizeOf(from[t]) \subseteq 0 .. MaxSize
    BY SizeOfType, LocalTypes
  <2> QED BY <1>9, <2>1 DEF FromSize, Goto, TypeOK, fileVars, Labels, Staged
<1>10. ASSUME NEW t \in Tasks, ToSize(t) PROVE TypeOK'
  <2>1. SizeOf(to[t]) \subseteq 0 .. MaxSize
    BY SizeOfType, LocalTypes
  <2>2. old' \in [Tasks -> 0 .. MaxSize] /\ new' \in [Tasks -> 0 .. MaxSize]
    BY <1>10, <2>1, LocalTypes DEF ToSize, TypeOK
  <2> QED BY <1>10, <2>2 DEF ToSize, Goto, TypeOK, fileVars, Labels, Staged
<1>11. ASSUME NEW t \in Tasks, Commit(t) PROVE TypeOK'
  <2>1. After(old[t], new[t]) \in 0 .. U64Max
    BY LocalTypes, AfterType
  <2> QED BY <1>11, <2>1 DEF Commit, Goto, TypeOK, Labels, Committed
<1>12. ASSUME NEW t \in Tasks, Refuse(t) PROVE TypeOK'
  <2>1. PICK k \in {0, size[tmp[t]]} : Leave(t, k)
    BY <1>12 DEF Refuse
  <2>2. k \in 0 .. MaxSize
    BY <1>0, LocalTypes
  <2> QED BY <1>12, <2>1, <2>2, LeaveTyped DEF Refuse, TypeOK
<1>13. ASSUME NEW t \in Tasks, Rename(t) PROVE TypeOK'
  <2>1. size' \in [Paths -> 0 .. MaxSize]
    <3>1. size' = [size EXCEPT ![to[t]] = size[tmp[t]], ![tmp[t]] = 0]
      BY <1>13 DEF Rename
    <3> QED BY <1>0, <3>1, LocalTypes DEF TypeOK
  <2>2. uncounted' \in Nat
    <3>1. SatSub(size[tmp[t]], new[t]) \in Nat
      BY LocalTypes DEF SatSub
    <3> QED BY <1>13, <3>1, LocalTypes DEF Rename
  <2> QED BY <1>13, <2>1, <2>2, ReturnTyped DEF Rename, TypeOK
<1>14. ASSUME NEW t \in Tasks, RenameFails(t) PROVE TypeOK'
  <2>1. size' \in [Paths -> 0 .. MaxSize]
    BY <1>0, <1>14 DEF RenameFails, TypeOK
  <2> QED BY <1>14, <2>1 DEF RenameFails, Goto, TypeOK, Labels, Committed
<1>15. ASSUME NEW t \in Tasks, RenameFailsAgain(t) PROVE TypeOK'
  BY <1>15 DEF RenameFailsAgain, Goto, TypeOK, fileVars, Labels, Committed
<1>16. ASSUME NEW t \in Tasks, Rollback(t) PROVE TypeOK'
  <2>1. PICK k \in {0, size[tmp[t]]} : Leave(t, k)
    BY <1>16 DEF Rollback
  <2>2. k \in 0 .. MaxSize /\ total' \in 0 .. U64Max
    BY <1>0, <1>16, LocalTypes, AfterType DEF Rollback
  <2> QED BY <1>16, <2>1, <2>2, LeaveTyped DEF Rollback, TypeOK
<1>17. ASSUME NEW t \in Tasks, DeleteSize(t) PROVE TypeOK'
  <2>1. SizeOf(to[t]) \subseteq 0 .. MaxSize
    BY SizeOfType, LocalTypes
  <2> QED BY <1>17, <2>1 DEF DeleteSize, Goto, TypeOK, fileVars, Labels
<1>18. ASSUME NEW t \in Tasks, DeleteObject(t) PROVE TypeOK'
  BY <1>0, <1>18 DEF DeleteObject, Goto, TypeOK, Labels
<1>19. ASSUME NEW t \in Tasks, DeleteFails(t) PROVE TypeOK'
  <2>1. size' \in [Paths -> 0 .. MaxSize]
    BY <1>0, <1>19 DEF DeleteFails, TypeOK
  <2> QED BY <1>19, <2>1, ReturnTyped DEF DeleteFails, TypeOK
<1>20. ASSUME NEW t \in Tasks, Release(t) PROVE TypeOK'
  <2>1. total' \in 0 .. U64Max /\ loaded' \in BOOLEAN
    BY <1>0, <1>20, LocalTypes, AfterType DEF Release, TypeOK
  <2> QED BY <1>20, <2>1, ReturnTyped DEF Release, TypeOK
<1>21. CASE UNCHANGED vars
  BY <1>21 DEF vars, TypeOK
<1> QED
  BY <1>3, <1>4, <1>5, <1>6, <1>7, <1>8, <1>9, <1>10, <1>11, <1>12, <1>13, <1>14, <1>15,
     <1>16, <1>17, <1>18, <1>19, <1>20, <1>21
  DEF Next

\* Type correctness: the saturating arithmetic keeps the total within u64,
\* also when an object that was never counted is overwritten or deleted.
THEOREM TypeCorrect == Spec => []TypeOK
BY TypeInit, TypeStep, PTL DEF Spec

-----------------------------------------------------------------------------
(* What a step of one operation leaves to the others. *)

\* The objects other operations work on keep their sizes.
Untouched(t) ==
  \A u \in Tasks \ {t} :
    pc[u] # "idle" => size'[to[u]] = size[to[u]] /\ size'[tmp[u]] = size[tmp[u]]

\* Operation t, if it goes on, works on paths nobody else works on.
Apart(t) ==
  pc'[t] # "idle" =>
    \A u \in Tasks \ {t} : pc[u] # "idle" => {from'[t], to'[t], tmp'[t]} \cap Uses(u) = {}

SumTypes == Reserve \in [Tasks -> Int] /\ Credit \in [Tasks -> Nat] /\ Usage \in Nat

LEMMA ReserveType == TypeOK => SumTypes
<1> SUFFICES ASSUME TypeOK PROVE SumTypes
  OBVIOUS
<1>1. \A t \in Tasks : /\ new[t] \in Nat /\ old[t] \in Nat
                       /\ size[to[t]] \in Nat /\ size[tmp[t]] \in Nat
  BY LocalTypes
<1>2. Reserve \in [Tasks -> Int] /\ Credit \in [Tasks -> Nat]
  BY <1>1 DEF Reserve, Credit, Replaced
<1>3. size \in [Paths -> Nat]
  BY SizesFit DEF TypeOK
<1> QED BY <1>2, <1>3, LayerAssumption, SumFunctionType DEF Usage, SumTypes

LEMMA ReserveTypeNext == TypeOK' => SumTypes'
BY ReserveType, PTL

LEMMA OthersKeep ==
  ASSUME TypeOK, NEW t \in Tasks, Others(t), Untouched(t), NEW u \in Tasks \ {t}
  PROVE  /\ Known(u) => Known(u)'
         /\ Reserve'[u] = Reserve[u] /\ Credit'[u] = Credit[u]
<1>1. /\ pc'[u] = pc[u] /\ from'[u] = from[u] /\ to'[u] = to[u] /\ tmp'[u] = tmp[u]
      /\ old'[u] = old[u] /\ new'[u] = new[u]
      /\ pc[u] # "idle" => size'[to[u]] = size[to[u]] /\ size'[tmp[u]] = size[tmp[u]]
  BY DEF Others, Untouched
<1>2. Known(u) => Known(u)'
  BY <1>1 DEF Known, Staging
<1>3. Reserve'[u] = Reserve[u] /\ Credit'[u] = Credit[u]
  BY <1>1 DEF Reserve, Credit, Replaced, Committed, Staged
<1> QED BY <1>2, <1>3

\* The sums move with the entry of the operation that steps.
LEMMA SumsMove ==
  ASSUME TypeOK, TypeOK', NEW t \in Tasks, Others(t), Untouched(t)
  PROVE  /\ SumFunction(Reserve') = SumFunction(Reserve) - Reserve[t] + Reserve'[t]
         /\ SumFunction(Credit') = SumFunction(Credit) - Credit[t] + Credit'[t]
         /\ SumFunction(Reserve) \in Int /\ SumFunction(Credit) \in Nat
         /\ SumFunction(Reserve') \in Int /\ SumFunction(Credit') \in Nat
<1>1. /\ Reserve \in [Tasks -> Int] /\ Credit \in [Tasks -> Nat]
      /\ Reserve' \in [Tasks -> Int] /\ Credit' \in [Tasks -> Nat]
  <2>1. Reserve \in [Tasks -> Int] /\ Credit \in [Tasks -> Nat]
    BY ReserveType DEF SumTypes
  <2>2. Reserve' \in [Tasks -> Int] /\ Credit' \in [Tasks -> Nat]
    BY ReserveTypeNext DEF SumTypes
  <2> QED BY <2>1, <2>2
<1>2. \A u \in Tasks \ {t} : Reserve'[u] = Reserve[u] /\ Credit'[u] = Credit[u]
  BY OthersKeep
<1>3. Reserve' = [Reserve EXCEPT ![t] = Reserve'[t]] /\ Credit' = [Credit EXCEPT ![t] = Credit'[t]]
  BY <1>1, <1>2
<1>4. /\ Reserve'[t] \in Int /\ Credit'[t] \in Int /\ Credit \in [Tasks -> Int]
      /\ Credit[t] \in Nat /\ Reserve[t] \in Int
  BY <1>1
<1>5. SumFunction([Reserve EXCEPT ![t] = Reserve'[t]]) = SumFunction(Reserve) - Reserve[t] + Reserve'[t]
  BY <1>1, <1>4, LayerAssumption, SumFunctionUpdate
<1>6. SumFunction([Credit EXCEPT ![t] = Credit'[t]]) = SumFunction(Credit) - Credit[t] + Credit'[t]
  BY <1>1, <1>4, LayerAssumption, SumFunctionUpdate
<1>7. /\ SumFunction(Reserve) \in Int /\ SumFunction(Credit) \in Nat
      /\ SumFunction(Reserve') \in Int /\ SumFunction(Credit') \in Nat
  BY <1>1, LayerAssumption, SumFunctionType
<1> QED BY <1>3, <1>5, <1>6, <1>7

LEMMA UsageMoves ==
  ASSUME TypeOK, NEW f \in Paths, NEW n \in Nat, size' = [size EXCEPT ![f] = n]
  PROVE  Usage' = Usage - size[f] + n
<1>1. size \in [Paths -> Int] /\ n \in Int
  BY SizesFit DEF TypeOK
<1>2. SumFunction([size EXCEPT ![f] = n]) = SumFunction(size) - size[f] + n
  BY <1>1, LayerAssumption, SumFunctionUpdate
<1> QED BY <1>2 DEF Usage

\* A rename empties f and replaces the object at g.
LEMMA UsageRenamed ==
  ASSUME TypeOK, NEW f \in Paths, NEW g \in Paths, f # g
  PROVE  SumFunction([size EXCEPT ![f] = 0, ![g] = size[f]]) = Usage - size[g]
<1> DEFINE s == [size EXCEPT ![f] = 0]
<1>1. /\ size \in [Paths -> Int] /\ s \in [Paths -> Int] /\ s[g] = size[g]
      /\ size[f] \in Int /\ size[g] \in Int
  BY SizesFit DEF TypeOK
<1>2. [size EXCEPT ![f] = 0, ![g] = size[f]] = [s EXCEPT ![g] = size[f]]
  OBVIOUS
<1>3. SumFunction(s) = SumFunction(size) - size[f] + 0
  <2>1. \A n \in Int : SumFunction([size EXCEPT ![f] = n]) = SumFunction(size) - size[f] + n
    <3> HIDE DEF s
    <3> TAKE n \in Int
    <3> QED BY <1>1, LayerAssumption, SumFunctionUpdate
  <2> QED BY <2>1
<1> HIDE DEF s
<1>4. SumFunction([s EXCEPT ![g] = size[f]]) = SumFunction(s) - s[g] + size[f]
  BY <1>1, LayerAssumption, SumFunctionUpdate
<1>5. SumFunction(size) \in Int
  BY <1>1, LayerAssumption, SumFunctionType
<1> QED BY <1>1, <1>2, <1>3, <1>4, <1>5 DEF Usage

\* A step of one operation keeps the invariant if it keeps its own part and
\* changes the total, and what is known to go uncounted, by no less than it
\* changes what is stored or reserved.
Balanced(t) ==
  /\ Usage' + Reserve'[t] - total' - uncounted' <= Usage + Reserve[t] - total - uncounted
  /\ total' + Credit'[t] <= total + Credit[t] \/ total' <= Limit

LEMMA StepKeeps ==
  ASSUME Inv, TypeOK', NEW t \in Tasks, Others(t), Untouched(t), Apart(t), Known(t)', Balanced(t)
  PROVE  Inv'
<1>0. TypeOK
  BY DEF Inv
<1>1. Exclusive'
  BY DEF Inv, Exclusive, Others, Apart, Uses
<1>2. \A u \in Tasks : Known(u)'
  BY <1>0, OthersKeep DEF Inv
<1>3. /\ SumFunction(Reserve') = SumFunction(Reserve) - Reserve[t] + Reserve'[t]
      /\ SumFunction(Credit') = SumFunction(Credit) - Credit[t] + Credit'[t]
      /\ SumFunction(Reserve) \in Int /\ SumFunction(Credit) \in Nat
      /\ SumFunction(Reserve') \in Int /\ SumFunction(Credit') \in Nat
  BY <1>0, SumsMove
<1>4. /\ Reserve[t] \in Int /\ Credit[t] \in Nat /\ Usage \in Nat
      /\ total \in Nat /\ uncounted \in Nat
  BY <1>0, ReserveType, LocalTypes DEF SumTypes
<1>5. /\ Reserve'[t] \in Int /\ Credit' \in [Tasks -> Nat] /\ Usage' \in Nat
      /\ total' \in Nat /\ uncounted' \in Nat
  <2>1. Reserve' \in [Tasks -> Int] /\ Credit' \in [Tasks -> Nat] /\ Usage' \in Nat
    BY ReserveTypeNext DEF SumTypes
  <2> QED BY <2>1, SizesFit DEF TypeOK
<1>6. Counted'
  BY <1>3, <1>4, <1>5 DEF Inv, Counted, Balanced
<1>7. Bounded'
  <2>0. Cardinality(Tasks) * MaxSize \in Nat /\ Limit \in Nat
    BY LayerAssumption, SizesFit, FS_CardinalityType
  <2>1. CASE total' + Credit'[t] <= total + Credit[t]
    <3>1. total + SumFunction(Credit) <= Limit + Cardinality(Tasks) * MaxSize
      BY DEF Inv, Bounded
    <3>2. Credit'[t] \in Nat
      BY <1>5
    <3> QED BY <1>3, <1>4, <1>5, <2>0, <2>1, <3>1, <3>2 DEF Bounded
  <2>2. CASE total' <= Limit
    <3>1. \A u \in Tasks : Credit'[u] <= MaxSize
      BY SizesFit DEF Credit, TypeOK
    <3>2. SumFunction(Credit') <= Cardinality(Tasks) * MaxSize
      BY <1>5, <3>1, SizesFit, LayerAssumption, SumFunctionBound
    <3> QED BY <1>3, <1>5, <2>0, <2>2, <3>2 DEF Bounded
  <2> QED BY <2>1, <2>2 DEF Balanced
<1> QED BY <1>1, <1>2, <1>6, <1>7 DEF Inv

LEMMA ExclusiveApart ==
  ASSUME Inv, NEW t \in Tasks, pc[t] # "idle"
  PROVE  /\ (pc'[t] # "idle" => from'[t] = from[t] /\ to'[t] = to[t] /\ tmp'[t] = tmp[t]) => Apart(t)
         /\ (\A f \in Paths \ Uses(t) : size'[f] = size[f]) => Untouched(t)
<1>1. \A u \in Tasks \ {t} : pc[u] # "idle" => Uses(t) \cap Uses(u) = {}
  BY DEF Inv, Exclusive
<1>2. \A u \in Tasks : to[u] \in Paths /\ tmp[u] \in Paths
  BY DEF Inv, TypeOK
<1> QED BY <1>1, <1>2 DEF Apart, Untouched, Uses

\* A step that only looks, or goes on, changes neither the objects nor the
\* total.
LEMMA QuietKeeps ==
  ASSUME Inv, TypeOK', NEW t \in Tasks, Others(t), Apart(t), UNCHANGED <<size, total, uncounted>>,
         Reserve'[t] = Reserve[t], Credit'[t] = Credit[t], Known(t)'
  PROVE  Inv'
<1>1. Untouched(t) /\ Usage' = Usage
  BY DEF Untouched, Usage
<1>2. /\ Usage \in Nat /\ total \in Nat /\ uncounted \in Nat
      /\ Reserve[t] \in Int /\ Credit[t] \in Nat
  BY ReserveType, LocalTypes DEF Inv, SumTypes
<1>3. Balanced(t)
  BY <1>1, <1>2 DEF Balanced
<1> QED BY <1>1, <1>3, StepKeeps

-----------------------------------------------------------------------------
(* The steps that change objects or the total, one by one. *)

LEMMA CommitKeeps ==
  ASSUME NoSaturation, Inv, TypeOK', NEW t \in Tasks, Commit(t)
  PROVE  Inv'
<1>0. TypeOK /\ Known(t) /\ Usage \in Nat
  BY ReserveType DEF Inv, SumTypes
<1>1. /\ pc[t] = "commit" /\ pc'[t] = "rename"
      /\ total' = After(old[t], new[t]) /\ After(old[t], new[t]) <= Limit
      /\ UNCHANGED <<size, from, to, tmp, old, new, uncounted>> /\ Others(t)
  BY <1>0 DEF Commit, Goto, TypeOK, Others
<1>2. Apart(t) /\ Untouched(t)
  BY <1>1, ExclusiveApart
<1>3. old[t] <= size[to[t]]
  BY <1>0, <1>1 DEF Known
<1>4. total' >= total - old[t] + new[t] /\ total' \in Nat
  <2>1. /\ old[t] \in 0 .. U64Max /\ new[t] \in 0 .. U64Max /\ new[t] <= MaxSize
        /\ total \in 0 .. U64Max
    BY <1>0, LocalTypes, SizesFit
  <2>2. /\ SatSub(total, old[t]) \in 0 .. U64Max /\ SatSub(total, old[t]) >= total - old[t]
        /\ SatSub(total, old[t]) <= total
    BY <2>1, SatTypes
  <2>3. total + new[t] <= U64Max
    <3>1. SumFunction(Credit) \in Nat
      BY <1>0, ReserveType, LayerAssumption, SumFunctionType DEF SumTypes
    <3>2. Cardinality(Tasks) \in Nat
      BY LayerAssumption, FS_CardinalityType
    <3>3. /\ (Cardinality(Tasks) + 1) * MaxSize = Cardinality(Tasks) * MaxSize + MaxSize
          /\ Cardinality(Tasks) * MaxSize \in Nat
      BY <3>2, SizesFit
    <3> QED BY <2>1, <3>1, <3>3, SizesFit DEF Inv, Bounded, NoSaturation
  <2>4. SatSub(total, old[t]) + new[t] <= U64Max
    BY <2>1, <2>2, <2>3, SizesFit
  <2>5. After(old[t], new[t]) = SatSub(total, old[t]) + new[t]
    BY <2>1, <2>2, <2>4, SatTypes DEF After
  <2> QED BY <1>1, <2>1, <2>2, <2>5, SizesFit
<1>5. /\ Reserve[t] = 0 - size[tmp[t]] /\ Reserve'[t] = new[t] - old[t] - size[tmp[t]]
      /\ Usage' = Usage
  BY <1>1, <1>3 DEF Reserve, Replaced, Committed, Staged, Usage
<1>6. Known(t)'
  BY <1>0, <1>1, <1>3 DEF Known, Staging, Staged, Committed
<1>7. Balanced(t)
  BY <1>0, <1>1, <1>4, <1>5, LocalTypes DEF Balanced
<1> QED BY <1>1, <1>2, <1>6, <1>7, StepKeeps

\* The end of an operation that leaves k bytes of its staging object.
LEMMA LeaveKeeps ==
  ASSUME Inv, TypeOK', NEW t \in Tasks, pc[t] \in Staged \cup Committed, NEW k \in Nat,
         Leave(t, k),
         total' + new[t] >= total + old[t] \/ (total' = total /\ pc[t] \in Staged),
         total' <= total + old[t], pc[t] \in Staged => total' = total
  PROVE  Inv'
<1>0. TypeOK /\ Known(t) /\ Usage \in Nat /\ total' \in Nat
  BY ReserveType, SizesFit DEF Inv, SumTypes, TypeOK
<1>1. /\ size' = [size EXCEPT ![tmp[t]] = k] /\ uncounted' = uncounted + k
      /\ pc'[t] = "idle" /\ Others(t)
  BY <1>0, ReturnTyped DEF Leave, Uncount
<1>2. pc[t] # "idle"
  BY DEF Staged, Committed
<1>3. Apart(t) /\ Untouched(t)
  <2>1. \A f \in Paths \ Uses(t) : size'[f] = size[f]
    BY <1>0, <1>1 DEF Uses, TypeOK
  <2> QED BY <1>1, <1>2, <2>1, ExclusiveApart
<1>4. Usage' = Usage - size[tmp[t]] + k
  BY <1>0, <1>1, LocalTypes, UsageMoves
<1>5. Known(t)' /\ Reserve'[t] = 0 /\ Credit'[t] = 0
  BY <1>1 DEF Known, Staging, Reserve, Credit, Staged, Committed
<1>6. CASE pc[t] \in Staged
  <2>1. Reserve[t] = 0 - size[tmp[t]] /\ Credit[t] = 0 /\ total' = total
    BY <1>6 DEF Reserve, Credit, Staged, Committed
  <2>2. Balanced(t)
    BY <1>0, <1>1, <1>4, <1>5, <2>1, LocalTypes DEF Balanced
  <2> QED BY <1>1, <1>3, <1>5, <2>2, StepKeeps
<1>7. CASE pc[t] \in Committed
  <2>1. /\ Reserve[t] = new[t] - Replaced(t) - size[tmp[t]] /\ Credit[t] = old[t]
        /\ pc[t] \notin Staged
    BY <1>7 DEF Reserve, Credit, Staged, Committed
  <2>2. Replaced(t) \in Nat /\ Replaced(t) <= old[t]
    BY <1>0, LocalTypes DEF Replaced
  <2>3. Balanced(t)
    BY <1>0, <1>1, <1>4, <1>5, <2>1, <2>2, LocalTypes DEF Balanced
  <2> QED BY <1>1, <1>3, <1>5, <2>3, StepKeeps
<1> QED BY <1>6, <1>7

LEMMA AbortKeeps ==
  ASSUME Inv, TypeOK', NEW t \in Tasks, Abort(t) \/ Refuse(t)
  PROVE  Inv'
<1>0. TypeOK
  BY DEF Inv
<1>1. PICK k \in 0 .. size[tmp[t]] : Leave(t, k)
  BY <1>0, LocalTypes DEF Abort, Refuse
<1>2. k \in Nat /\ pc[t] \in Staged /\ total' = total
  BY <1>0, LocalTypes DEF Abort, Refuse, Staged
<1> QED BY <1>0, <1>1, <1>2, LocalTypes, LeaveKeeps

LEMMA RollbackKeeps ==
  ASSUME NoSaturation, Inv, TypeOK', NEW t \in Tasks, Rollback(t)
  PROVE  Inv'
<1>0. TypeOK
  BY DEF Inv
<1>1. PICK k \in {0, size[tmp[t]]} : Leave(t, k)
  BY DEF Rollback
<1>2. k \in Nat /\ pc[t] = "rollback" /\ total' = After(new[t], old[t])
  BY <1>0, LocalTypes DEF Rollback
<1>3. /\ old[t] \in 0 .. U64Max /\ new[t] \in 0 .. U64Max /\ old[t] <= MaxSize
      /\ total \in 0 .. U64Max
  BY <1>0, LocalTypes, SizesFit
<1>4. /\ SatSub(total, new[t]) \in 0 .. U64Max /\ SatSub(total, new[t]) >= total - new[t]
      /\ SatSub(total, new[t]) <= total
  BY <1>3, SatTypes
<1>5. total + old[t] <= U64Max
  <2>1. SumFunction(Credit) \in Nat
    BY <1>0, ReserveType, LayerAssumption, SumFunctionType DEF SumTypes
  <2>2. Cardinality(Tasks) \in Nat
    BY LayerAssumption, FS_CardinalityType
  <2>3. /\ (Cardinality(Tasks) + 1) * MaxSize = Cardinality(Tasks) * MaxSize + MaxSize
        /\ Cardinality(Tasks) * MaxSize \in Nat
    BY <2>2, SizesFit
  <2> QED BY <1>3, <2>1, <2>3, SizesFit DEF Inv, Bounded, NoSaturation
<1>6. SatSub(total, new[t]) + old[t] <= U64Max
  BY <1>3, <1>4, <1>5, SizesFit
<1>7. total' = SatSub(total, new[t]) + old[t]
  BY <1>2, <1>3, <1>4, <1>6, SatTypes DEF After
<1>8. total' + new[t] >= total + old[t] /\ total' <= total + old[t]
  BY <1>3, <1>4, <1>7, SizesFit
<1>9. pc[t] \in Staged \cup Committed /\ pc[t] \notin Staged
  BY <1>2 DEF Staged, Committed
<1> QED BY <1>1, <1>2, <1>8, <1>9, LeaveKeeps

LEMMA CancelKeeps ==
  ASSUME Inv, TypeOK', NEW t \in Tasks, Cancel(t)
  PROVE  Inv'
<1>0. TypeOK /\ Usage \in Nat
  BY ReserveType DEF Inv, SumTypes
<1>1. /\ pc[t] \in Staged \cup {"rename", "rename_again"} /\ pc'[t] = "idle" /\ Others(t)
      /\ UNCHANGED <<size, total>>
      /\ uncounted' = uncounted + (size[tmp[t]] + IF pc[t] \in Committed
                                                  THEN SatSub(old[t], new[t]) ELSE 0)
  BY <1>0, ReturnTyped DEF Cancel, Uncount
<1>2. pc[t] # "idle"
  BY <1>1 DEF Staged
<1>3. Apart(t) /\ Untouched(t)
  BY <1>1, <1>2, ExclusiveApart
<1>4. Known(t)' /\ Reserve'[t] = 0 /\ Credit'[t] = 0 /\ Usage' = Usage
  BY <1>1 DEF Known, Staging, Reserve, Credit, Staged, Committed, Usage
<1>5. CASE pc[t] \in Staged
  <2>1. Reserve[t] = 0 - size[tmp[t]] /\ Credit[t] = 0 /\ pc[t] \notin Committed
    BY <1>5 DEF Reserve, Credit, Staged, Committed
  <2>2. Balanced(t)
    BY <1>0, <1>1, <1>4, <2>1, LocalTypes DEF Balanced
  <2> QED BY <1>1, <1>3, <1>4, <2>2, StepKeeps
<1>6. CASE pc[t] \in Committed
  <2>1. Reserve[t] = new[t] - Replaced(t) - size[tmp[t]] /\ Credit[t] = old[t]
    BY <1>6 DEF Reserve, Credit, Staged, Committed
  <2>2. Replaced(t) \in Nat /\ Replaced(t) <= old[t]
    BY <1>0, LocalTypes DEF Replaced
  <2>3. SatSub(old[t], new[t]) \in Nat /\ SatSub(old[t], new[t]) >= old[t] - new[t]
    BY <1>0, LocalTypes DEF SatSub
  <2>4. Balanced(t)
    BY <1>0, <1>1, <1>4, <1>6, <2>1, <2>2, <2>3, LocalTypes DEF Balanced
  <2> QED BY <1>1, <1>3, <1>4, <2>4, StepKeeps
<1> QED BY <1>1, <1>5, <1>6 DEF Committed

LEMMA RenameKeeps ==
  ASSUME Inv, TypeOK', NEW t \in Tasks, Rename(t)
  PROVE  Inv'
<1>0. TypeOK /\ Known(t) /\ Usage \in Nat
  BY ReserveType DEF Inv, SumTypes
<1>1. /\ pc[t] \in {"rename", "rename_again"} /\ pc'[t] = "idle" /\ total' = total
      /\ size' = [size EXCEPT ![to[t]] = size[tmp[t]], ![tmp[t]] = 0] /\ Others(t)
      /\ uncounted' = uncounted + SatSub(size[tmp[t]], new[t])
  BY <1>0, ReturnTyped DEF Rename
<1>2. tmp[t] # to[t] /\ tmp[t] \in Paths /\ to[t] \in Paths
  BY <1>0, <1>1, LocalTypes DEF Known, Staging, Committed
<1>3. size' = [size EXCEPT ![tmp[t]] = 0, ![to[t]] = size[tmp[t]]]
  BY <1>0, <1>1, <1>2 DEF TypeOK
<1>4. Apart(t) /\ Untouched(t)
  <2>1. \A f \in Paths \ Uses(t) : size'[f] = size[f]
    BY <1>0, <1>1 DEF Uses, TypeOK
  <2> QED BY <1>1, <2>1, ExclusiveApart
<1>5. Usage' = Usage - size[to[t]]
  <2>1. SumFunction([size EXCEPT ![tmp[t]] = 0, ![to[t]] = size[tmp[t]]]) = Usage - size[to[t]]
    BY <1>0, <1>2, UsageRenamed
  <2> QED BY <1>3, <2>1 DEF Usage
<1>6. /\ Reserve[t] = new[t] - Replaced(t) - size[tmp[t]] /\ Credit[t] = old[t]
      /\ Known(t)' /\ Reserve'[t] = 0 /\ Credit'[t] = 0
  BY <1>1 DEF Known, Staging, Reserve, Credit, Committed, Staged
<1>7. Replaced(t) \in Nat /\ Replaced(t) <= size[to[t]]
  BY <1>0, LocalTypes DEF Replaced
<1>8. /\ SatSub(size[tmp[t]], new[t]) \in Nat
      /\ SatSub(size[tmp[t]], new[t]) >= size[tmp[t]] - new[t]
  BY <1>0, LocalTypes DEF SatSub
<1>9. Balanced(t)
  BY <1>0, <1>1, <1>5, <1>6, <1>7, <1>8, LocalTypes DEF Balanced
<1> QED BY <1>1, <1>4, <1>6, <1>9, StepKeeps

LEMMA RenameFailsKeeps ==
  ASSUME Inv, TypeOK', NEW t \in Tasks, RenameFails(t)
  PROVE  Inv'
<1>0. TypeOK /\ Known(t) /\ Usage \in Nat
  BY ReserveType DEF Inv, SumTypes
<1>1. /\ pc[t] = "rename" /\ pc'[t] = "rename_again" /\ total' = total
      /\ size' \in {size, [size EXCEPT ![to[t]] = 0]} /\ Others(t)
      /\ UNCHANGED <<from, to, tmp, old, new, uncounted>>
  BY <1>0 DEF RenameFails, Goto, TypeOK, Others
<1>2. Apart(t) /\ Untouched(t)
  <2>1. \A f \in Paths \ Uses(t) : size'[f] = size[f]
    BY <1>0, <1>1 DEF Uses, TypeOK
  <2> QED BY <1>1, <2>1, ExclusiveApart
<1>3. old[t] <= size[to[t]] /\ tmp[t] # to[t]
  BY <1>0, <1>1 DEF Known, Staging, Committed
<1>4. Known(t)' /\ Credit[t] = old[t] /\ Credit'[t] = old[t]
  BY <1>1, <1>3 DEF Known, Staging, Committed, Staged, Credit
<1>5. CASE size' = size
  <2>1. Usage' = Usage /\ Reserve'[t] = Reserve[t] /\ Reserve[t] \in Int
    BY <1>0, <1>1, <1>5, ReserveType DEF Reserve, Replaced, Committed, Staged, Usage, SumTypes
  <2>2. Balanced(t)
    BY <1>0, <1>1, <1>4, <2>1, LocalTypes DEF Balanced
  <2> QED BY <1>1, <1>2, <1>4, <2>2, StepKeeps
<1>6. CASE size' = [size EXCEPT ![to[t]] = 0]
  <2>1. size'[to[t]] = 0 /\ size'[tmp[t]] = size[tmp[t]]
    BY <1>0, <1>3, <1>6, LocalTypes DEF TypeOK
  <2>2. Usage' = Usage - size[to[t]] + 0
    BY <1>0, <1>6, LocalTypes, UsageMoves
  <2>3. Reserve[t] = new[t] - old[t] - size[tmp[t]]
    BY <1>1, <1>3 DEF Reserve, Replaced, Committed, Staged
  <2>4. Replaced(t)' = 0
    BY <1>0, <1>1, <2>1, LocalTypes DEF Replaced
  <2>5. Reserve'[t] = new[t] - 0 - size[tmp[t]]
    BY <1>1, <2>1, <2>4 DEF Reserve, Committed, Staged
  <2>6. Balanced(t)
    BY <1>0, <1>1, <1>3, <1>4, <2>2, <2>3, <2>5, LocalTypes DEF Balanced
  <2> QED BY <1>1, <1>2, <1>4, <2>6, StepKeeps
<1> QED BY <1>1, <1>5, <1>6

LEMMA RenameFailsAgainKeeps ==
  ASSUME Inv, TypeOK', NEW t \in Tasks, RenameFailsAgain(t)
  PROVE  Inv'
<1>0. TypeOK /\ Known(t)
  BY DEF Inv
<1>1. /\ pc[t] = "rename_again" /\ pc'[t] = "rollback" /\ Others(t)
      /\ UNCHANGED <<size, total, uncounted, from, to, tmp, old, new>>
  BY <1>0 DEF RenameFailsAgain, Goto, TypeOK, Others, fileVars
<1>2. Apart(t)
  BY <1>1, ExclusiveApart
<1>3. /\ Reserve'[t] = Reserve[t] /\ Credit'[t] = Credit[t] /\ Known(t)'
  BY <1>0, <1>1 DEF Reserve, Replaced, Credit, Committed, Staged, Known, Staging
<1> QED BY <1>1, <1>2, <1>3, QuietKeeps

LEMMA DeleteObjectKeeps ==
  ASSUME Inv, TypeOK', NEW t \in Tasks, DeleteObject(t)
  PROVE  Inv'
<1>0. TypeOK /\ Known(t) /\ Usage \in Nat
  BY ReserveType DEF Inv, SumTypes
<1>1. /\ pc[t] = "delete" /\ pc'[t] = "release" /\ Others(t) /\ total' = total
      /\ size' = [size EXCEPT ![to[t]] = 0] /\ UNCHANGED <<from, to, tmp, old, new, uncounted>>
  BY <1>0 DEF DeleteObject, Goto, TypeOK, Others
<1>2. Apart(t) /\ Untouched(t)
  <2>1. \A f \in Paths \ Uses(t) : size'[f] = size[f]
    BY <1>0, <1>1 DEF Uses, TypeOK
  <2> QED BY <1>1, <2>1, ExclusiveApart
<1>3. Usage' = Usage - size[to[t]] + 0
  BY <1>0, <1>1, LocalTypes, UsageMoves
<1>4. /\ Reserve[t] = 0 /\ Reserve'[t] = old[t] /\ old[t] <= size[to[t]]
      /\ Credit[t] = 0 /\ Credit'[t] = 0
  BY <1>0, <1>1 DEF Reserve, Credit, Committed, Staged, Known
<1>5. Balanced(t)
  BY <1>0, <1>1, <1>3, <1>4, LocalTypes DEF Balanced
<1>6. Known(t)'
  BY <1>1 DEF Known, Staging, Committed, Staged
<1> QED BY <1>1, <1>2, <1>5, <1>6, StepKeeps

LEMMA DeleteFailsKeeps ==
  ASSUME Inv, TypeOK', NEW t \in Tasks, DeleteFails(t)
  PROVE  Inv'
<1>0. TypeOK /\ Usage \in Nat
  BY ReserveType DEF Inv, SumTypes
<1>1. /\ pc[t] = "delete" /\ pc'[t] = "idle" /\ Others(t) /\ total' = total
      /\ size' \in {size, [size EXCEPT ![to[t]] = 0]} /\ uncounted' = uncounted
  BY <1>0, ReturnTyped DEF DeleteFails
<1>2. Apart(t) /\ Untouched(t)
  <2>1. \A f \in Paths \ Uses(t) : size'[f] = size[f]
    BY <1>0, <1>1 DEF Uses, TypeOK
  <2> QED BY <1>1, <2>1, ExclusiveApart
<1>3. Usage' = Usage \/ Usage' = Usage - size[to[t]]
  <2>1. CASE size' = size
    BY <2>1 DEF Usage
  <2>2. CASE size' = [size EXCEPT ![to[t]] = 0]
    <3>1. Usage' = Usage - size[to[t]] + 0
      BY <1>0, <2>2, LocalTypes, UsageMoves
    <3> QED BY <1>0, <3>1, LocalTypes
  <2> QED BY <1>1, <2>1, <2>2
<1>4. Reserve[t] = 0 /\ Reserve'[t] = 0 /\ Credit[t] = 0 /\ Credit'[t] = 0 /\ Known(t)'
  BY <1>1 DEF Reserve, Credit, Committed, Staged, Known, Staging
<1>5. Balanced(t)
  BY <1>0, <1>1, <1>3, <1>4, LocalTypes DEF Balanced
<1> QED BY <1>1, <1>2, <1>4, <1>5, StepKeeps

LEMMA ReleaseKeeps ==
  ASSUME Inv, TypeOK', NEW t \in Tasks, Release(t)
  PROVE  Inv'
<1>0. TypeOK /\ Usage \in Nat
  BY ReserveType DEF Inv, SumTypes
<1>1. /\ pc[t] = "release" /\ pc'[t] = "idle" /\ Others(t) /\ size' = size
      /\ total' \in {total, After(old[t], 0)} /\ uncounted' = uncounted
  BY <1>0, ReturnTyped DEF Release
<1>2. Apart(t) /\ Untouched(t)
  BY <1>1, ExclusiveApart
<1>3. total' \in Nat /\ total' <= total /\ total' >= total - old[t]
  <2>1. old[t] \in Nat /\ total \in 0 .. U64Max /\ U64Max \in Nat
    BY <1>0, LocalTypes, SizesFit
  <2> QED BY <1>1, <2>1 DEF After, SatSub, SatAdd
<1>4. /\ Reserve[t] = old[t] /\ Reserve'[t] = 0 /\ Credit[t] = 0 /\ Credit'[t] = 0
      /\ Usage' = Usage /\ Known(t)'
  BY <1>1 DEF Reserve, Credit, Committed, Staged, Usage, Known, Staging
<1>5. Balanced(t)
  <2>1. uncounted' = uncounted /\ uncounted \in Nat /\ old[t] \in Nat /\ total \in Nat
    BY <1>0, <1>1, LocalTypes
  <2> QED BY <1>0, <1>3, <1>4, <2>1 DEF Balanced
<1> QED BY <1>1, <1>2, <1>4, <1>5, StepKeeps

LEMMA RenameObjectKeeps ==
  ASSUME ~ SharedPaths, Inv, TypeOK', NEW t \in Tasks, NEW f \in Paths, NEW g \in Paths,
         RenameObject(t, f, g)
  PROVE  Inv'
<1>0. TypeOK /\ Known(t) /\ Usage \in Nat
  BY ReserveType DEF Inv, SumTypes
<1>1. /\ pc[t] = "idle" /\ f # g /\ UNCHANGED <<total, uncounted, pc, from, to, tmp, old, new>>
      /\ size' = [size EXCEPT ![f] = 0, ![g] = size[f]]
      /\ \A u \in Tasks \ {t} : pc[u] # "idle" => Uses(u) \cap {f, g} = {}
  BY DEF RenameObject, Free, Uses
<1>2. Others(t) /\ Apart(t)
  BY <1>1 DEF Others, Apart
<1>3. Untouched(t)
  BY <1>0, <1>1, LocalTypes DEF Untouched, Uses, TypeOK
<1>4. Usage' = Usage - size[g] /\ size[g] \in Nat
  <2>1. SumFunction([size EXCEPT ![f] = 0, ![g] = size[f]]) = Usage - size[g]
    BY <1>0, <1>1, UsageRenamed
  <2>2. size[g] \in Nat
    BY <1>0, SizesFit DEF TypeOK
  <2>3. Usage' = SumFunction([size EXCEPT ![f] = 0, ![g] = size[f]])
    BY <1>1 DEF Usage
  <2> QED BY <2>1, <2>2, <2>3
<1>5. Reserve[t] = 0 /\ Reserve'[t] = 0 /\ Credit[t] = 0 /\ Credit'[t] = 0 /\ Known(t)'
  BY <1>1 DEF Reserve, Credit, Committed, Staged, Known, Staging
<1>6. Balanced(t)
  BY <1>0, <1>1, <1>4, <1>5, LocalTypes DEF Balanced
<1> QED BY <1>2, <1>3, <1>5, <1>6, StepKeeps

\* An operation begins on paths that are free and a staging path that is new.
LEMMA StageKeeps ==
  ASSUME ~ SharedPaths, Inv, TypeOK', NEW t \in Tasks, NEW op,
         NEW f \in Paths, NEW g \in Paths, NEW h \in Paths,
         NEW label \in {"close", "from_size"}, NEW n \in Nat, Stage(t, op, f, g, h, label, n)
  PROVE  Inv'
<1>0. TypeOK /\ Usage \in Nat
  BY ReserveType DEF Inv, SumTypes
<1>1. /\ pc[t] = "idle" /\ pc'[t] = label /\ from'[t] = f /\ to'[t] = g /\ tmp'[t] = h
      /\ UNCHANGED <<total, uncounted>> /\ Others(t)
      /\ \A u \in Tasks \ {t} : pc[u] # "idle" => Uses(u) \cap {f, g} = {} /\ h \notin Uses(u)
      /\ size' = [size EXCEPT ![h] = n] /\ size[h] = 0 /\ h # g
  BY <1>0 DEF Stage, Fresh, Begin, Goto, Free, TypeOK, Others, Uses
<1>2. Apart(t)
  BY <1>1 DEF Apart
<1>3. Untouched(t)
  BY <1>0, <1>1, LocalTypes DEF Untouched, Uses, TypeOK
<1>4. Usage' = Usage - size[h] + n /\ size'[h] = n
  BY <1>0, <1>1, UsageMoves DEF TypeOK
<1>5. /\ Reserve[t] = 0 /\ Reserve'[t] = 0 - n /\ Credit[t] = 0 /\ Credit'[t] = 0
      /\ Known(t)'
  BY <1>1, <1>4 DEF Reserve, Credit, Committed, Staged, Known, Staging
<1>6. Balanced(t)
  BY <1>0, <1>1, <1>4, <1>5, LocalTypes DEF Balanced
<1> QED BY <1>1, <1>2, <1>3, <1>5, <1>6, StepKeeps

LEMMA DeleteKeeps ==
  ASSUME ~ SharedPaths, Inv, TypeOK', NEW t \in Tasks, NEW f \in Paths, Delete(t, f)
  PROVE  Inv'
<1>0. TypeOK
  BY DEF Inv
<1>1. /\ pc[t] = "idle" /\ pc'[t] = "delete_size" /\ Others(t)
      /\ from'[t] = f /\ to'[t] = f /\ tmp'[t] = f
      /\ UNCHANGED <<size, total, uncounted>>
      /\ \A u \in Tasks \ {t} : pc[u] # "idle" => Uses(u) \cap {f} = {}
  BY <1>0 DEF Delete, Begin, Goto, Free, TypeOK, Others, Uses
<1>2. Apart(t) /\ Known(t)' /\ Reserve'[t] = Reserve[t] /\ Credit'[t] = Credit[t]
  BY <1>1 DEF Apart, Known, Staging, Reserve, Credit, Staged, Committed
<1> QED BY <1>1, <1>2, QuietKeeps

\* Looking at a size: what is read does not exceed what is there.
LEMMA LookKeeps ==
  ASSUME Inv, TypeOK', NEW t \in Tasks, FromSize(t) \/ ToSize(t) \/ DeleteSize(t)
  PROVE  Inv'
<1>0. TypeOK /\ Known(t)
  BY DEF Inv
<1>1. /\ \/ pc[t] = "from_size" /\ pc'[t] = "to_size"
         \/ pc[t] \in {"close", "to_size"} /\ pc'[t] = "commit" /\ old'[t] \in SizeOf(to[t])
         \/ pc[t] = "delete_size" /\ pc'[t] = "delete" /\ old'[t] \in SizeOf(to[t])
      /\ Others(t) /\ UNCHANGED <<size, total, uncounted, from, to, tmp>>
  BY <1>0 DEF FromSize, ToSize, DeleteSize, Goto, TypeOK, Others, fileVars
<1>2. Apart(t)
  BY <1>1, ExclusiveApart
<1>3. \A s \in SizeOf(to[t]) : s <= size[to[t]]
  BY <1>0, LocalTypes DEF SizeOf
<1>4. Known(t)'
  BY <1>0, <1>1, <1>3 DEF Known, Staging, Staged, Committed
<1>5. Reserve'[t] = Reserve[t] /\ Credit'[t] = Credit[t]
  BY <1>1 DEF Reserve, Credit, Staged, Committed
<1> QED BY <1>1, <1>2, <1>4, <1>5, QuietKeeps

LEMMA InvStep ==
  ASSUME ~ SharedPaths, NoSaturation, Inv, [Next]_vars
  PROVE  Inv'
<1>0. TypeOK /\ TypeOK' /\ 0 .. MaxSize \subseteq Nat
  BY TypeStep, SizesFit DEF Inv
<1>1. ASSUME NEW t \in Tasks, NEW f \in Paths, NEW h \in Paths, NEW n \in 0 .. MaxSize,
             Write(t, f, h, n)
      PROVE  Inv'
  BY <1>0, <1>1, StageKeeps DEF Write
<1>2. ASSUME NEW t \in Tasks, NEW f \in Paths, NEW g \in Paths, NEW h \in Paths, Copy(t, f, g, h)
      PROVE  Inv'
  <2>1. size[f] \in Nat
    BY <1>0 DEF TypeOK
  <2> QED BY <1>0, <1>2, <2>1, StageKeeps DEF Copy
<1>3. CASE UNCHANGED vars
  BY <1>3
  DEF vars, Inv, TypeOK, Exclusive, Uses, Known, Staging, Counted, Bounded, Usage, Reserve,
      Replaced, Credit
<1> QED
  BY <1>0, <1>1, <1>2, <1>3, DeleteKeeps, AbortKeeps, CancelKeeps, LookKeeps, CommitKeeps,
     RenameKeeps, RenameFailsKeeps, RenameFailsAgainKeeps, RollbackKeeps, DeleteObjectKeeps,
     DeleteFailsKeeps, ReleaseKeeps, RenameObjectKeeps
  DEF Next

LEMMA InvInit == Init => Inv
<1> SUFFICES ASSUME Init PROVE Inv
  OBVIOUS
<1>1. TypeOK
  BY TypeInit
<1>2. Exclusive /\ \A t \in Tasks : Known(t)
  BY DEF Init, Exclusive, Known, Staging, Staged, Committed
<1>3. Reserve = [t \in Tasks |-> 0] /\ Credit = [t \in Tasks |-> 0] /\ size = [f \in Paths |-> 0]
  BY DEF Init, Reserve, Credit, Committed, Staged
<1>4. SumFunction([t \in Tasks |-> 0]) = 0 /\ SumFunction([f \in Paths |-> 0]) = 0
  <2>1. ASSUME NEW S, IsFiniteSet(S) PROVE SumFunction([x \in S |-> 0]) = 0
    <3>1. [x \in S |-> 0] \in [S -> Nat] /\ \A y \in S : [x \in S |-> 0][y] <= 0
      OBVIOUS
    <3>2. SumFunction([x \in S |-> 0]) \in Nat
      BY <2>1, <3>1, SumFunctionType
    <3>3. SumFunction([x \in S |-> 0]) <= Cardinality(S) * 0 /\ Cardinality(S) \in Nat
      BY <2>1, <3>1, SumFunctionBound, FS_CardinalityType
    <3> QED BY <3>2, <3>3
  <2> QED BY <2>1, LayerAssumption
<1>5. Counted
  BY <1>3, <1>4 DEF Counted, Usage, Init
<1>6. Bounded
  <2>1. Cardinality(Tasks) * MaxSize \in Nat /\ Limit \in Nat
    BY LayerAssumption, SizesFit, FS_CardinalityType
  <2> QED BY <1>3, <1>4, <2>1 DEF Bounded, Init
<1> QED BY <1>1, <1>2, <1>5, <1>6 DEF Inv

LEMMA CoveredAtRest == Inv => StoredIsCounted
<1> SUFFICES ASSUME Inv, AtRest PROVE Usage <= total + uncounted
  BY DEF StoredIsCounted
<1>1. Reserve \in [Tasks -> Nat]
  BY DEF AtRest, Reserve, Committed, Staged
<1>2. SumFunction(Reserve) \in Nat
  BY <1>1, LayerAssumption, SumFunctionType
<1>3. Usage \in Nat /\ total \in Nat /\ uncounted \in Nat
  BY ReserveType, SizesFit DEF Inv, TypeOK, SumTypes
<1> QED BY <1>2, <1>3 DEF Inv, Counted

\* Whenever nothing is under way the running total covers the stored
\* objects, but for the bytes that went uncounted: staging objects that stay
\* when their removal fails or the client goes away, copies whose source
\* could not be statted, commits of a smaller object that was then not put in
\* place.  So no overwrite, copy, rename, delete, refusal or rollback loses a
\* byte in any other way, however many run at once, fail or find their sizes
\* unknown (QuotaWriter::close, QuotaCopier::close, QuotaDeleter::close,
\* QuotaAccessor::rename).  It takes callers that keep to one operation per
\* path; where they do not, QuotaLayerShared.cfg has the trace that loses bytes.
THEOREM StoredAlwaysCounted ==
  ASSUME ~ SharedPaths, NoSaturation
  PROVE  Spec => []StoredIsCounted
<1>1. Inv /\ [Next]_vars => Inv'
  BY InvStep
<1> QED BY <1>1, InvInit, CoveredAtRest, PTL DEF Spec
=============================================================================
