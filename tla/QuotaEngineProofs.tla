------------------------- MODULE QuotaEngineProofs -------------------------
(***************************************************************************)
(* Proofs about QuotaEngine, for any ids, threads, sizes and limits: type  *)
(* correctness, the durability invariant and the implementation of         *)
(* QuotaLedger.                                                            *)
(***************************************************************************)
EXTENDS QuotaEngine, TLAPS

\* What every request carries.
LEMMA RequestParts ==
  ASSUME NEW r \in Requests
  PROVE  /\ r.id \in Ids
         /\ r.old \in Sizes /\ r.new \in Sizes /\ r.limit \in Limits \cup {U64Max}
         /\ r.old \in Total64 /\ r.new \in Total64 /\ r.limit \in Total64
<1> DEFINE Commits == [op : {"commit"}, id : Ids, old : Sizes, new : Sizes,
                       limit : Limits \cup {U64Max}]
           Plain == [op : {"reset", "read"}, id : Ids, old : {0}, new : {0}, limit : {U64Max}]
<1>1. Sizes \subseteq Total64 /\ Limits \cup {U64Max} \subseteq Total64 /\ 0 \in Sizes
  BY QuotaAssumption DEF Total64
<1>2. CASE r \in Commits
  BY <1>1, <1>2
<1>3. CASE r \in Plain
  BY <1>1, <1>3
<1>4. QED
  BY <1>2, <1>3 DEF Requests

\* The filler values are of the right type.
LEMMA Fillers == SomeId \in Ids /\ NoReq \in Requests
  BY QuotaAssumption DEF SomeId, NoReq, Requests

\* Saturating arithmetic stays within u64.
LEMMA Saturating ==
  ASSUME NEW a \in Total64, NEW b \in Total64, NEW c \in Total64
  PROVE  SatAdd(SatSub(a, b), c) \in Total64
  BY QuotaAssumption DEF SatAdd, SatSub, Total64

\* The total a thread is about to exchange is a u64.
LEMMA NewTotalType ==
  ASSUME TypeOK, NEW t \in Threads
  PROVE  NewTotal(t) \in Total64
<1>1. /\ current[t] \in Total64
      /\ req[t].old \in Total64
      /\ req[t].new \in Total64
  BY RequestParts DEF TypeOK
<1>2. QED
  BY <1>1, Saturating DEF NewTotal

\* Every step keeps every variable in its type.
LEMMA TypeStep == TypeOK /\ [Next]_vars => TypeOK'
<1> SUFFICES ASSUME TypeOK, [Next]_vars PROVE TypeOK'
  OBVIOUS
<1> USE Fillers
<1>0. 0 \in Total64
  BY QuotaAssumption DEF Total64
<1>1. ASSUME NEW t \in Threads, NEW r \in Requests, Call(t, r) PROVE TypeOK'
  BY <1>1, RequestParts DEF TypeOK, Call, Entry, syncVars
<1>2. ASSUME NEW t \in Threads, ThreadStep(t) PROVE TypeOK'
  <2> req[t].id \in Ids
    BY RequestParts DEF TypeOK
  <2> USE <1>0
  <2>1. CASE BucketReady(t)
    BY <2>1 DEF TypeOK, BucketReady, UseBucket, Goto, Return, bucketVars, syncVars
  <2>2. CASE BeginLoad(t)
    BY <2>2 DEF TypeOK, BeginLoad, Goto, bucketVars, syncVars
  <2>3. CASE GetBytes(t)
    BY <2>3 DEF TypeOK, GetBytes, Goto, bucketVars, syncVars
  <2>4. CASE LoadFails(t)
    BY <2>4 DEF TypeOK, LoadFails, Return, bucketVars, syncVars
  <2>5. CASE SetCell(t)
    BY <2>5 DEF TypeOK, SetCell, UseBucket, Goto, Return, syncVars
  <2>6. CASE Load(t)
    BY <2>6 DEF TypeOK, Load, Goto, bucketVars, syncVars
  <2>7. CASE Reject(t)
    BY <2>7 DEF TypeOK, Reject, Return, bucketVars, syncVars
  <2>8. CASE CasOk(t)
    BY <2>8, NewTotalType DEF TypeOK, CasOk, Goto, syncVars
  <2>9. CASE CasFail(t)
    BY <2>9 DEF TypeOK, CasFail, bucketVars, syncVars
  <2>10. CASE Mark(t)
    BY <2>10 DEF TypeOK, Mark, Return, syncVars
  <2>11. CASE ResetGet(t)
    BY <2>11 DEF TypeOK, ResetGet, Goto, bucketVars, syncVars
  <2>12. CASE ResetSet(t)
    <3>1. CASE cell[req[t].id] = "empty" /\ ~ PermitHeld(req[t].id)
      <4>1. /\ cell' = [cell EXCEPT ![req[t].id] = "ready"]
            /\ bytes' = [bytes EXCEPT ![req[t].id] = 0]
            /\ dirty' = [dirty EXCEPT ![req[t].id] = TRUE]
            /\ Return(t)
            /\ UNCHANGED <<persisted, syncVars>>
        BY <2>12, <3>1, Zenon DEF ResetSet
      <4>2. QED
        BY <4>1 DEF TypeOK, Return, syncVars
    <3>2. CASE ~ (cell[req[t].id] = "empty" /\ ~ PermitHeld(req[t].id))
      BY <2>12, <3>2 DEF TypeOK, ResetSet, Goto, bucketVars, syncVars
    <3>3. QED
      BY <3>1, <3>2
  <2>13. CASE ResetAgain(t)
    BY <2>13 DEF TypeOK, ResetAgain, Goto, Return, bucketVars, syncVars
  <2>14. CASE ResetStore(t)
    BY <2>14 DEF TypeOK, ResetStore, Goto, syncVars
  <2>15. QED
    BY <1>2, <2>1, <2>2, <2>3, <2>4, <2>5, <2>6, <2>7, <2>8, <2>9, <2>10, <2>11,
       <2>12, <2>13, <2>14 DEF ThreadStep
<1>3. ASSUME SyncStep PROVE TypeOK'
  BY <1>3, <1>0 DEF TypeOK, SyncStep, SyncNext, Tick, SyncVisit, SyncEnd, SyncGet,
     SetBytesOk, SetBytesFails, Remark, bucketVars, threadVars
<1>4. CASE Restart
  BY <1>4, <1>0 DEF TypeOK, Restart
<1>5. CASE UNCHANGED vars
  BY <1>5 DEF TypeOK, vars
<1>6. QED
  BY <1>1, <1>2, <1>3, <1>4, <1>5 DEF Next

\* TypeOK for every instance: in particular a counter is always a u64 and a
\* persisted total always one that was read from a counter.
THEOREM TypeCorrect == Spec => []TypeOK
<1>1. Init => TypeOK
  BY QuotaAssumption, Fillers DEF Init, TypeOK, Total64
<1>2. QED
  BY <1>1, TypeStep, PTL DEF Spec

-----------------------------------------------------------------------------
\* Unfolding the actions whose branch depends on the cell, for the provers.
LEMMA ResetSetCases ==
  ASSUME NEW t \in Threads, ResetSet(t)
  PROVE  \/ /\ cell[req[t].id] = "empty" /\ ~ PermitHeld(req[t].id)
            /\ cell' = [cell EXCEPT ![req[t].id] = "ready"]
            /\ bytes' = [bytes EXCEPT ![req[t].id] = 0]
            /\ dirty' = [dirty EXCEPT ![req[t].id] = TRUE]
            /\ Return(t)
            /\ UNCHANGED <<persisted, syncVars>>
         \/ /\ Goto(t, "rst_again")
            /\ UNCHANGED <<bucketVars, persisted, current, syncVars>>
  BY Zenon DEF ResetSet, bucketVars, syncVars

\* Every step keeps the initialiser alone on its empty cell.
LEMMA InitialiserStep ==
  EngineInv /\ [Next]_vars => InitialiserAlone'
<1> SUFFICES ASSUME EngineInv, [Next]_vars PROVE InitialiserAlone'
  OBVIOUS
<1> USE DEF InitialiserAlone, Initialising
<1>t. TypeOK /\ InitialiserAlone /\ BucketLoaded
  BY DEF EngineInv
<1>1. ASSUME NEW t \in Threads, NEW r \in Requests, Call(t, r) PROVE InitialiserAlone'
  BY <1>t, <1>1, RequestParts DEF TypeOK, Call, Entry, syncVars
<1>2. ASSUME NEW t \in Threads, ThreadStep(t) PROVE InitialiserAlone'
  <2> req[t].id \in Ids
    BY <1>t, RequestParts DEF TypeOK
  <2>1. CASE BucketReady(t)
    BY <1>t, <2>1 DEF TypeOK, BucketReady, UseBucket, Goto, Return, bucketVars, syncVars
  <2>2. CASE BeginLoad(t)
    BY <1>t, <2>2 DEF TypeOK, BeginLoad, PermitHeld, Goto, bucketVars, syncVars
  <2>3. CASE GetBytes(t)
    BY <1>t, <2>3 DEF TypeOK, GetBytes, Goto, bucketVars, syncVars
  <2>4. CASE LoadFails(t)
    BY <1>t, <2>4 DEF TypeOK, LoadFails, Return, bucketVars, syncVars
  <2>5. CASE SetCell(t)
    BY <1>t, <2>5 DEF TypeOK, SetCell, UseBucket, Goto, Return, syncVars
  <2>6. CASE Load(t)
    BY <1>t, <2>6 DEF TypeOK, Load, Goto, bucketVars, syncVars
  <2>7. CASE Reject(t)
    BY <1>t, <2>7 DEF TypeOK, Reject, Return, bucketVars, syncVars
  <2>8. CASE CasOk(t)
    BY <1>t, <2>8 DEF TypeOK, CasOk, Goto, syncVars
  <2>9. CASE CasFail(t)
    BY <1>t, <2>9 DEF TypeOK, CasFail, bucketVars, syncVars
  <2>10. CASE Mark(t)
    BY <1>t, <2>10 DEF TypeOK, Mark, Return, syncVars
  <2>11. CASE ResetGet(t)
    BY <1>t, <2>11 DEF TypeOK, ResetGet, Goto, bucketVars, syncVars
  <2>12. CASE ResetSet(t)
    <3>1. CASE Goto(t, "rst_again") /\ UNCHANGED <<bucketVars, persisted, current, syncVars>>
      BY <1>t, <3>1 DEF TypeOK, Goto, bucketVars, syncVars
    <3>2. CASE /\ ~ PermitHeld(req[t].id)
               /\ cell' = [cell EXCEPT ![req[t].id] = "ready"]
               /\ Return(t)
               /\ UNCHANGED persisted
      BY <1>t, <3>2 DEF TypeOK, PermitHeld, Return
    <3>3. QED
      BY <2>12, <3>1, <3>2, ResetSetCases, Zenon
  <2>13. CASE ResetAgain(t)
    BY <1>t, <2>13 DEF TypeOK, ResetAgain, Goto, Return, bucketVars, syncVars
  <2>14. CASE ResetStore(t)
    BY <1>t, <2>14 DEF TypeOK, ResetStore, Goto, syncVars
  <2>15. QED
    BY <1>2, <2>1, <2>2, <2>3, <2>4, <2>5, <2>6, <2>7, <2>8, <2>9, <2>10, <2>11,
       <2>12, <2>13, <2>14 DEF ThreadStep
<1>3. ASSUME SyncStep PROVE InitialiserAlone'
  <2>1. CASE SetBytesOk
    BY <1>t, <2>1 DEF TypeOK, BucketLoaded, SetBytesOk, SyncNext, bucketVars, threadVars
  <2>2. CASE Tick \/ SyncEnd \/ SyncGet \/ SetBytesFails \/ Remark
    BY <1>t, <2>2 DEF Tick, SyncEnd, SyncGet, SetBytesFails, Remark, bucketVars, threadVars
  <2>3. ASSUME NEW i \in Ids, SyncVisit(i) PROVE InitialiserAlone'
    BY <1>t, <2>3 DEF SyncVisit, threadVars
  <2>4. QED
    BY <1>3, <2>1, <2>2, <2>3 DEF SyncStep
<1>4. CASE Restart
  BY <1>4 DEF Restart
<1>5. CASE UNCHANGED vars
  BY <1>t, <1>5 DEF vars
<1>6. QED
  BY <1>1, <1>2, <1>3, <1>4, <1>5 DEF Next

\* Every step leaves whoever works on a bucket with a loaded one: a loaded
\* cell stays loaded until the process restarts.
LEMMA BucketStep ==
  EngineInv /\ [Next]_vars => BucketLoaded'
<1> SUFFICES ASSUME EngineInv, [Next]_vars PROVE BucketLoaded'
  OBVIOUS
<1> USE DEF BucketLoaded
<1>t. TypeOK /\ BucketLoaded
  BY DEF EngineInv
<1>1. ASSUME NEW t \in Threads, NEW r \in Requests, Call(t, r) PROVE BucketLoaded'
  BY <1>t, <1>1, RequestParts DEF TypeOK, Call, Entry, syncVars
<1>2. ASSUME NEW t \in Threads, ThreadStep(t) PROVE BucketLoaded'
  <2> req[t].id \in Ids
    BY <1>t, RequestParts DEF TypeOK
  <2>1. CASE BucketReady(t)
    BY <1>t, <2>1 DEF TypeOK, BucketReady, UseBucket, Goto, Return, bucketVars, syncVars
  <2>2. CASE BeginLoad(t)
    BY <1>t, <2>2 DEF TypeOK, BeginLoad, Goto, bucketVars, syncVars
  <2>3. CASE GetBytes(t)
    BY <1>t, <2>3 DEF TypeOK, GetBytes, Goto, bucketVars, syncVars
  <2>4. CASE LoadFails(t)
    BY <1>t, <2>4 DEF TypeOK, LoadFails, Return, bucketVars, syncVars
  <2>5. CASE SetCell(t)
    BY <1>t, <2>5 DEF TypeOK, SetCell, UseBucket, Goto, Return, syncVars
  <2>6. CASE Load(t)
    BY <1>t, <2>6 DEF TypeOK, Load, Goto, bucketVars, syncVars
  <2>7. CASE Reject(t)
    BY <1>t, <2>7 DEF TypeOK, Reject, Return, bucketVars, syncVars
  <2>8. CASE CasOk(t)
    BY <1>t, <2>8 DEF TypeOK, CasOk, Goto, syncVars
  <2>9. CASE CasFail(t)
    BY <1>t, <2>9 DEF TypeOK, CasFail, bucketVars, syncVars
  <2>10. CASE Mark(t)
    BY <1>t, <2>10 DEF TypeOK, Mark, Return, syncVars
  <2>11. CASE ResetGet(t)
    BY <1>t, <2>11 DEF TypeOK, ResetGet, Goto, bucketVars, syncVars
  <2>12. CASE ResetSet(t)
    <3>1. CASE Goto(t, "rst_again") /\ UNCHANGED <<bucketVars, persisted, current, syncVars>>
      BY <1>t, <3>1 DEF TypeOK, Goto, bucketVars, syncVars
    <3>2. CASE /\ cell' = [cell EXCEPT ![req[t].id] = "ready"]
               /\ Return(t)
               /\ UNCHANGED <<persisted, syncVars>>
      BY <1>t, <3>2 DEF TypeOK, Return, syncVars
    <3>3. QED
      BY <2>12, <3>1, <3>2, ResetSetCases, Zenon
  <2>13. CASE ResetAgain(t)
    BY <1>t, <2>13 DEF TypeOK, ResetAgain, Goto, Return, bucketVars, syncVars
  <2>14. CASE ResetStore(t)
    BY <1>t, <2>14 DEF TypeOK, ResetStore, Goto, syncVars
  <2>15. QED
    BY <1>2, <2>1, <2>2, <2>3, <2>4, <2>5, <2>6, <2>7, <2>8, <2>9, <2>10, <2>11,
       <2>12, <2>13, <2>14 DEF ThreadStep
<1>3. ASSUME SyncStep PROVE BucketLoaded'
  BY <1>t, <1>3 DEF TypeOK, SyncStep, SyncNext, Tick, SyncVisit, SyncEnd, SyncGet,
     SetBytesOk, SetBytesFails, Remark, bucketVars, threadVars
<1>4. CASE Restart
  BY <1>4 DEF Restart
<1>5. CASE UNCHANGED vars
  BY <1>t, <1>5 DEF vars
<1>6. QED
  BY <1>1, <1>2, <1>3, <1>4, <1>5 DEF Next

\* A thread step that leaves the buckets, the database and every pending mark
\* alone cannot lose an unsynced total.
LEMMA QuietStep ==
  ASSUME EngineInv, UNCHANGED <<bucketVars, persisted, syncVars>>,
         \A i \in Ids : MarkPending(i) => MarkPending(i)'
  PROVE  UnsyncedIsRemembered'
  BY DEF EngineInv, UnsyncedIsRemembered, SyncPending, bucketVars, syncVars

\* Every step keeps an unsynced total remembered.
LEMMA RememberStep ==
  EngineInv /\ [Next]_vars => UnsyncedIsRemembered'
<1> SUFFICES ASSUME EngineInv, [Next]_vars PROVE UnsyncedIsRemembered'
  OBVIOUS
<1>t. EngineInv /\ TypeOK /\ InitialiserAlone /\ UnsyncedIsRemembered /\ StaleCopyIsRemembered
  BY DEF EngineInv
<1>1. ASSUME NEW t \in Threads, NEW r \in Requests, Call(t, r)
      PROVE  UnsyncedIsRemembered'
  <2>1. \A i \in Ids : MarkPending(i) => MarkPending(i)'
    BY <1>t, <1>1 DEF TypeOK, Call, MarkPending
  <2>2. \A i \in Ids : cell'[i] = "ready" => cell[i] = "ready"
    BY <1>t, <1>1, RequestParts DEF TypeOK, Call, Entry
  <2>3. QED
    BY <1>t, <1>1, <2>1, <2>2 DEF Call, UnsyncedIsRemembered, SyncPending, syncVars
<1>2. ASSUME NEW t \in Threads, ThreadStep(t) PROVE UnsyncedIsRemembered'
  <2> req[t].id \in Ids
    BY <1>t, RequestParts DEF TypeOK
  <2>k. pc[t] # "mark" /\ pc' = [pc EXCEPT ![t] = pc'[t]] /\ req' = [req EXCEPT ![t] = req'[t]]
          => \A i \in Ids : MarkPending(i) => MarkPending(i)'
    BY <1>t DEF TypeOK, MarkPending
  <2>1. CASE BucketReady(t)
    BY <2>k, <1>t, <2>1, QuietStep DEF TypeOK, BucketReady, UseBucket, Goto, Return
  <2>2. CASE BeginLoad(t)
    BY <2>k, <1>t, <2>2, QuietStep DEF TypeOK, BeginLoad, Goto
  <2>3. CASE GetBytes(t)
    BY <2>k, <1>t, <2>3, QuietStep DEF TypeOK, GetBytes, Goto
  <2>4. CASE LoadFails(t)
    BY <2>k, <1>t, <2>4, QuietStep DEF TypeOK, LoadFails, Return
  <2>5. CASE SetCell(t)
    <3>1. \A i \in Ids : MarkPending(i) => MarkPending(i)'
      BY <2>k, <1>t, <2>5 DEF TypeOK, SetCell, UseBucket, Goto, Return
    <3>2. cell[req[t].id] = "empty" /\ current[t] = persisted[req[t].id]
      BY <1>t, <2>5 DEF InitialiserAlone, Initialising, SetCell
    <3>3. bytes'[req[t].id] = persisted'[req[t].id]
      BY <1>t, <2>5, <3>2 DEF TypeOK, SetCell
    <3>4. QED
      BY <1>t, <2>5, <3>1, <3>3
      DEF TypeOK, SetCell, UnsyncedIsRemembered, SyncPending, syncVars
  <2>6. CASE Load(t)
    BY <2>k, <1>t, <2>6, QuietStep DEF TypeOK, Load, Goto
  <2>7. CASE Reject(t)
    BY <2>k, <1>t, <2>7, QuietStep DEF TypeOK, Reject, Return
  <2>8. CASE CasOk(t)
    <3>1. \A i \in Ids : MarkPending(i) => MarkPending(i)'
      BY <2>k, <1>t, <2>8 DEF TypeOK, CasOk, Goto
    <3>2. \A i \in Ids : i = req[t].id => MarkPending(i)'
      BY <1>t, <2>8 DEF TypeOK, CasOk, Goto, MarkPending
    <3>3. \A i \in Ids : i # req[t].id => bytes'[i] = bytes[i]
      BY <1>t, <2>8 DEF TypeOK, CasOk
    <3>4. ASSUME NEW i \in Ids, i # req[t].id, cell'[i] = "ready", bytes'[i] # persisted'[i]
          PROVE  dirty'[i] \/ MarkPending(i)' \/ SyncPending(i)'
      <4>1. dirty[i] \/ MarkPending(i) \/ SyncPending(i)
        BY <1>t, <2>8, <3>3, <3>4 DEF CasOk, UnsyncedIsRemembered
      <4>2. SyncPending(i) => SyncPending(i)'
        BY <2>8, <3>3, <3>4 DEF CasOk, SyncPending, syncVars
      <4>3. QED
        BY <2>8, <3>1, <4>1, <4>2 DEF CasOk
    <3>5. QED
      BY <3>2, <3>4 DEF UnsyncedIsRemembered
  <2>9. CASE CasFail(t)
    BY <2>9, QuietStep DEF CasFail, MarkPending
  <2>10. CASE Mark(t)
    <3>1. \A i \in Ids : i # req[t].id /\ MarkPending(i) => MarkPending(i)'
      BY <1>t, <2>10 DEF TypeOK, Mark, Return, MarkPending
    <3>2. dirty'[req[t].id]
      BY <1>t, <2>10 DEF TypeOK, Mark
    <3>3. \A i \in Ids : i # req[t].id => dirty'[i] = dirty[i]
      BY <1>t, <2>10 DEF TypeOK, Mark
    <3>4. QED
      BY <1>t, <2>10, <3>1, <3>2, <3>3
      DEF Mark, UnsyncedIsRemembered, SyncPending, syncVars
  <2>11. CASE ResetGet(t)
    BY <2>k, <1>t, <2>11, QuietStep DEF TypeOK, ResetGet, Goto
  <2>12. CASE ResetSet(t)
    <3>0. pc[t] = "rst_set"
      BY <2>12 DEF ResetSet
    <3>1. CASE Goto(t, "rst_again") /\ UNCHANGED <<bucketVars, persisted, current, syncVars>>
      BY <2>k, <1>t, <3>0, <3>1, QuietStep DEF TypeOK, Goto
    <3>2. CASE /\ cell' = [cell EXCEPT ![req[t].id] = "ready"]
               /\ bytes' = [bytes EXCEPT ![req[t].id] = 0]
               /\ dirty' = [dirty EXCEPT ![req[t].id] = TRUE]
               /\ Return(t)
               /\ UNCHANGED <<persisted, syncVars>>
      <4>1. \A i \in Ids : MarkPending(i) => MarkPending(i)'
        BY <2>k, <1>t, <3>0, <3>2 DEF TypeOK, Return
      <4>2. dirty'[req[t].id]
        BY <1>t, <3>2 DEF TypeOK
      <4>3. \A i \in Ids : i # req[t].id =>
              dirty'[i] = dirty[i] /\ bytes'[i] = bytes[i] /\ cell'[i] = cell[i]
        BY <1>t, <3>2 DEF TypeOK
      <4>4. QED
        BY <1>t, <3>2, <4>1, <4>2, <4>3 DEF UnsyncedIsRemembered, SyncPending, syncVars
    <3>3. QED
      BY <2>12, <3>1, <3>2, ResetSetCases, Zenon
  <2>13. CASE ResetAgain(t)
    BY <2>k, <1>t, <2>13, QuietStep DEF TypeOK, ResetAgain, Goto, Return
  <2>14. CASE ResetStore(t)
    <3>1. \A i \in Ids : MarkPending(i) => MarkPending(i)'
      BY <2>k, <1>t, <2>14 DEF TypeOK, ResetStore, Goto
    <3>2. \A i \in Ids : i = req[t].id => MarkPending(i)'
      BY <1>t, <2>14 DEF TypeOK, ResetStore, Goto, MarkPending
    <3>3. \A i \in Ids : i # req[t].id => bytes'[i] = bytes[i]
      BY <1>t, <2>14 DEF TypeOK, ResetStore
    <3>4. ASSUME NEW i \in Ids, i # req[t].id, cell'[i] = "ready", bytes'[i] # persisted'[i]
          PROVE  dirty'[i] \/ MarkPending(i)' \/ SyncPending(i)'
      <4>1. dirty[i] \/ MarkPending(i) \/ SyncPending(i)
        BY <1>t, <2>14, <3>3, <3>4 DEF ResetStore, UnsyncedIsRemembered
      <4>2. SyncPending(i) => SyncPending(i)'
        BY <2>14, <3>3, <3>4 DEF ResetStore, SyncPending, syncVars
      <4>3. QED
        BY <2>14, <3>1, <4>1, <4>2 DEF ResetStore
    <3>5. QED
      BY <3>2, <3>4 DEF UnsyncedIsRemembered
  <2>15. QED
    BY <1>2, <2>1, <2>2, <2>3, <2>4, <2>5, <2>6, <2>7, <2>8, <2>9, <2>10, <2>11,
       <2>12, <2>13, <2>14 DEF ThreadStep
<1>3. ASSUME SyncStep PROVE UnsyncedIsRemembered'
  <2>0. \A i \in Ids : UNCHANGED threadVars => (MarkPending(i) <=> MarkPending(i)')
    BY DEF MarkPending, threadVars
  <2>1. CASE Tick \/ SyncEnd
    BY <1>t, <2>0, <2>1 DEF Tick, SyncEnd, UnsyncedIsRemembered, SyncPending, bucketVars
  <2>2. ASSUME NEW i \in Ids, SyncVisit(i) PROVE UnsyncedIsRemembered'
    BY <1>t, <2>0, <2>2 DEF TypeOK, SyncVisit, UnsyncedIsRemembered, SyncPending
  <2>3. CASE SyncGet
    BY <1>t, <2>0, <2>3 DEF TypeOK, SyncGet, UnsyncedIsRemembered, SyncPending, bucketVars
  <2>4. CASE SetBytesOk
    <3>1. persisted'[syncId] = snap /\ \A i \in Ids : i # syncId => persisted'[i] = persisted[i]
      BY <1>t, <2>4 DEF TypeOK, SetBytesOk
    <3>2. snap = bytes[syncId] \/ dirty[syncId] \/ MarkPending(syncId)
      BY <1>t, <2>4 DEF StaleCopyIsRemembered, SetBytesOk
    <3>3. ASSUME NEW i \in Ids, cell'[i] = "ready", bytes'[i] # persisted'[i]
          PROVE  dirty'[i] \/ MarkPending(i)'
      <4>1. CASE i = syncId
        BY <2>0, <2>4, <3>1, <3>2, <3>3, <4>1 DEF SetBytesOk, bucketVars
      <4>2. CASE i # syncId
        BY <1>t, <2>0, <2>4, <3>1, <3>3, <4>2
        DEF SetBytesOk, bucketVars, UnsyncedIsRemembered, SyncPending
      <4>3. QED
        BY <4>1, <4>2
    <3>4. QED
      BY <3>3 DEF UnsyncedIsRemembered
  <2>5. CASE SetBytesFails
    BY <1>t, <2>0, <2>5 DEF TypeOK, SetBytesFails, UnsyncedIsRemembered, SyncPending, bucketVars
  <2>6. CASE Remark
    BY <1>t, <2>0, <2>6 DEF TypeOK, Remark, SyncNext, UnsyncedIsRemembered, SyncPending
  <2>7. QED
    BY <1>3, <2>1, <2>2, <2>3, <2>4, <2>5, <2>6 DEF SyncStep
<1>4. CASE Restart
  BY <1>4 DEF Restart, UnsyncedIsRemembered
<1>5. CASE UNCHANGED vars
  BY <1>t, <1>5, QuietStep DEF vars, bucketVars, syncVars, MarkPending
<1>6. QED
  BY <1>1, <1>2, <1>3, <1>4, <1>5 DEF Next

\* Every step keeps a stale copy remembered.
LEMMA StaleCopyStep ==
  EngineInv /\ [Next]_vars => StaleCopyIsRemembered'
<1> SUFFICES ASSUME EngineInv, [Next]_vars, syncPc' = "set_bytes"
             PROVE  (snap = bytes[syncId] \/ dirty[syncId] \/ MarkPending(syncId))'
  BY DEF StaleCopyIsRemembered
<1>t. TypeOK /\ InitialiserAlone /\ BucketLoaded /\ StaleCopyIsRemembered
  BY DEF EngineInv
<1>1. ASSUME NEW t \in Threads, NEW r \in Requests, Call(t, r)
      PROVE  (snap = bytes[syncId] \/ dirty[syncId] \/ MarkPending(syncId))'
  BY <1>t, <1>1 DEF TypeOK, Call, StaleCopyIsRemembered, MarkPending, syncVars
<1>2. ASSUME NEW t \in Threads, ThreadStep(t)
      PROVE  (snap = bytes[syncId] \/ dirty[syncId] \/ MarkPending(syncId))'
  <2>0. /\ UNCHANGED syncVars
        /\ cell[syncId] = "ready"
        /\ snap = bytes[syncId] \/ dirty[syncId] \/ MarkPending(syncId)
    <3>1. UNCHANGED syncVars
      BY <1>2 DEF ThreadStep, BucketReady, BeginLoad, GetBytes, LoadFails, SetCell, Load,
         Reject, CasOk, CasFail, Mark, ResetGet, ResetSet, ResetAgain, ResetStore
    <3>2. QED
      BY <1>t, <3>1 DEF StaleCopyIsRemembered, BucketLoaded, syncVars
  <2>1. req[t].id \in Ids /\ syncId' = syncId /\ snap' = snap
    BY <1>t, <2>0, RequestParts DEF TypeOK, syncVars
  <2>2. CASE CasOk(t) \/ ResetStore(t)
    <3>1. CASE req[t].id = syncId
      BY <1>t, <2>1, <2>2, <3>1 DEF TypeOK, CasOk, ResetStore, Goto, MarkPending
    <3>2. CASE req[t].id # syncId
      BY <1>t, <2>0, <2>1, <2>2, <3>2 DEF TypeOK, CasOk, ResetStore, Goto, MarkPending
    <3>3. QED
      BY <3>1, <3>2
  <2>3. CASE Mark(t)
    <3>1. CASE req[t].id = syncId
      BY <1>t, <2>1, <2>3, <3>1 DEF TypeOK, Mark
    <3>2. CASE req[t].id # syncId
      BY <1>t, <2>0, <2>1, <2>3, <3>2 DEF TypeOK, Mark, Return, MarkPending
    <3>3. QED
      BY <3>1, <3>2
  <2>4. CASE SetCell(t)
    <3>1. req[t].id # syncId
      BY <1>t, <2>0, <2>4 DEF SetCell, InitialiserAlone, Initialising
    <3>2. QED
      BY <1>t, <2>0, <2>1, <2>4, <3>1
      DEF TypeOK, SetCell, UseBucket, Goto, Return, MarkPending
  <2>5. CASE ResetSet(t)
    <3>0. pc[t] = "rst_set"
      BY <2>5 DEF ResetSet
    <3>1. CASE Goto(t, "rst_again") /\ UNCHANGED <<bucketVars, persisted, current, syncVars>>
      BY <1>t, <2>0, <2>1, <3>0, <3>1 DEF TypeOK, Goto, MarkPending, bucketVars
    <3>2. CASE /\ cell[req[t].id] = "empty"
               /\ bytes' = [bytes EXCEPT ![req[t].id] = 0]
               /\ dirty' = [dirty EXCEPT ![req[t].id] = TRUE]
               /\ Return(t)
      BY <1>t, <2>0, <2>1, <3>0, <3>2 DEF TypeOK, Return, MarkPending
    <3>3. QED
      BY <2>5, <3>1, <3>2, ResetSetCases, Zenon
  <2>6. CASE \/ BucketReady(t) \/ BeginLoad(t) \/ GetBytes(t) \/ LoadFails(t) \/ Load(t)
             \/ Reject(t) \/ CasFail(t) \/ ResetGet(t) \/ ResetAgain(t)
    BY <1>t, <2>0, <2>1, <2>6
    DEF TypeOK, BucketReady, BeginLoad, GetBytes, LoadFails, Load, Reject, CasFail, ResetGet,
        ResetAgain, UseBucket, Goto, Return, MarkPending, bucketVars
  <2>7. QED
    BY <1>2, <2>2, <2>3, <2>4, <2>5, <2>6 DEF ThreadStep
<1>3. ASSUME SyncStep
      PROVE  (snap = bytes[syncId] \/ dirty[syncId] \/ MarkPending(syncId))'
  BY <1>t, <1>3 DEF TypeOK, SyncStep, SyncNext, Tick, SyncVisit, SyncEnd, SyncGet,
     SetBytesOk, SetBytesFails, Remark, bucketVars
<1>4. CASE Restart
  BY <1>4 DEF Restart
<1>5. CASE UNCHANGED vars
  BY <1>t, <1>5 DEF vars, StaleCopyIsRemembered, MarkPending
<1>6. QED
  BY <1>1, <1>2, <1>3, <1>4, <1>5 DEF Next

\* Every step leaves a call on its own operation's path.
LEMMA CallShapeStep ==
  EngineInv /\ [Next]_vars => CallShape'
<1> SUFFICES ASSUME EngineInv, [Next]_vars PROVE CallShape'
  OBVIOUS
<1> USE DEF CallShape
<1>t. TypeOK /\ CallShape
  BY DEF EngineInv
<1>1. ASSUME NEW t \in Threads, NEW r \in Requests, Call(t, r) PROVE CallShape'
  BY <1>t, <1>1 DEF TypeOK, Call
<1>2. ASSUME NEW t \in Threads, ThreadStep(t) PROVE CallShape'
  <2>1. CASE BucketReady(t) \/ SetCell(t)
    BY <1>t, <2>1 DEF TypeOK, BucketReady, SetCell, UseBucket, Goto, Return
  <2>2. CASE BeginLoad(t) \/ GetBytes(t) \/ Load(t) \/ CasOk(t) \/ ResetGet(t) \/ ResetStore(t)
    BY <1>t, <2>2 DEF TypeOK, BeginLoad, GetBytes, Load, CasOk, ResetGet, ResetStore, Goto
  <2>3. CASE LoadFails(t) \/ Reject(t) \/ Mark(t)
    BY <1>t, <2>3 DEF TypeOK, LoadFails, Reject, Mark, Return
  <2>4. CASE CasFail(t)
    BY <1>t, <2>4 DEF CasFail
  <2>5. CASE ResetSet(t)
    <3>1. pc[t] = "rst_set" /\ (Goto(t, "rst_again") \/ Return(t))
      BY <2>5, Zenon DEF ResetSet
    <3>2. QED
      BY <1>t, <3>1 DEF TypeOK, Goto, Return
  <2>6. CASE ResetAgain(t)
    BY <1>t, <2>6 DEF TypeOK, ResetAgain, Goto, Return
  <2>7. QED
    BY <1>2, <2>1, <2>2, <2>3, <2>4, <2>5, <2>6 DEF ThreadStep
<1>3. ASSUME SyncStep PROVE CallShape'
  BY <1>t, <1>3 DEF SyncStep, Tick, SyncVisit, SyncEnd, SyncGet, SetBytesOk, SetBytesFails,
     Remark, threadVars
<1>4. CASE Restart
  BY <1>4 DEF Restart
<1>5. CASE UNCHANGED vars
  BY <1>t, <1>5 DEF vars
<1>6. QED
  BY <1>1, <1>2, <1>3, <1>4, <1>5 DEF Next

\* The six parts hold together in every reachable state.
THEOREM EngineCorrect == Spec => []EngineInv
<1>1. Init => EngineInv
  BY QuotaAssumption, Fillers
  DEF Init, EngineInv, TypeOK, Total64, InitialiserAlone, Initialising, BucketLoaded,
      UnsyncedIsRemembered, StaleCopyIsRemembered, CallShape
<1>2. EngineInv /\ [Next]_vars => EngineInv'
  BY TypeStep, InitialiserStep, BucketStep, RememberStep, StaleCopyStep, CallShapeStep
  DEF EngineInv
<1>3. QED
  BY <1>1, <1>2, PTL DEF Spec

\* Durability for every instance: an unsynced total is carried by the dirty
\* flag, by a thread about to set it, or by the sync in flight.
THEOREM Durability == Spec => []UnsyncedIsRemembered
<1>1. EngineInv => UnsyncedIsRemembered
  BY DEF EngineInv
<1>2. QED
  BY <1>1, EngineCorrect, PTL

-----------------------------------------------------------------------------
(* The refinement: which ledger step, if any, each engine step is. *)

\* A step that moves no total, no row, no copy and no call is invisible.
LEMMA Stutter ==
  ASSUME UNCHANGED <<Totals, persisted, InFlight, Asked>>
  PROVE  UNCHANGED Ledger!ledgerVars
  BY DEF Ledger!ledgerVars

\* Whoever leaves the sync task alone leaves the copies alone.
LEMMA SameCopy ==
  ASSUME UNCHANGED syncVars
  PROVE  InFlight' = InFlight
  BY DEF InFlight, syncVars

\* Whoever leaves buckets and rows alone leaves the totals alone.
LEMMA SameTotals ==
  ASSUME UNCHANGED <<cell, bytes, persisted>>
  PROVE  Totals' = Totals
  BY DEF Totals, Total

\* Whoever leaves the threads alone leaves the calls alone.
LEMMA SameAsked ==
  ASSUME UNCHANGED threadVars
  PROVE  Asked' = Asked
  BY DEF Asked, Pending, Admitted, NewTotal, threadVars

\* A step of one thread changes the call of that thread only.
LEMMA OneCall ==
  ASSUME NEW t \in Threads,
         \A u \in Threads \ {t} :
           pc'[u] = pc[u] /\ req'[u] = req[u] /\ current'[u] = current[u]
  PROVE  /\ Pending(t)' => Asked' = [Asked EXCEPT ![t] = req'[t]]
         /\ Admitted(t)' => Asked' = [Asked EXCEPT ![t] = [req'[t] EXCEPT !.op = "admitted"]]
         /\ ~ Pending(t)' /\ ~ Admitted(t)' => Asked' = [Asked EXCEPT ![t] = [op |-> "none"]]
<1>1. \A u \in Threads \ {t} : Pending(u)' = Pending(u) /\ Admitted(u)' = Admitted(u)
  BY DEF Pending, Admitted, NewTotal
<1>2. Admitted(t)' => ~ Pending(t)'
  BY DEF Admitted, Pending
<1>3. \A u \in Threads \ {t} : Asked'[u] = Asked[u]
  BY <1>1 DEF Asked
<1>4. /\ Pending(t)' => Asked'[t] = req'[t]
      /\ Admitted(t)' => Asked'[t] = [req'[t] EXCEPT !.op = "admitted"]
      /\ ~ Pending(t)' /\ ~ Admitted(t)' => Asked'[t] = [op |-> "none"]
  BY <1>2 DEF Asked
<1>5. ASSUME NEW v, Asked'[t] = v PROVE Asked' = [Asked EXCEPT ![t] = v]
  <2>1. /\ Asked' = [u \in Threads |-> Asked'[u]]
        /\ Asked = [u \in Threads |-> Asked[u]]
    BY DEF Asked
  <2>2. QED
    BY <1>3, <1>5, <2>1
<1>6. QED
  BY <1>4, <1>5

\* A pending thread's call is still asked, an admitted one's is marked so, a
\* settled one's is gone.
LEMMA AskedNow ==
  ASSUME NEW t \in Threads
  PROVE  /\ Pending(t) => Asked[t] = req[t]
         /\ Admitted(t) => Asked[t] = [req[t] EXCEPT !.op = "admitted"]
         /\ ~ Pending(t) /\ ~ Admitted(t) => Asked[t] = [op |-> "none"]
<1>1. Admitted(t) => ~ Pending(t)
  BY DEF Admitted, Pending
<1>2. QED
  BY <1>1 DEF Asked

\* The parts of an admitted call.
LEMMA AdmittedParts ==
  ASSUME TypeOK, NEW t \in Threads, Admitted(t)
  PROVE  /\ Asked[t].op = "admitted"
         /\ Asked[t].id = req[t].id
         /\ Asked[t].old = req[t].old
         /\ Asked[t].new = req[t].new
         /\ Asked[t].limit = req[t].limit
<1>1. req[t] \in Requests
  BY DEF TypeOK
<1>2. req[t] = [op |-> req[t].op, id |-> req[t].id, old |-> req[t].old,
                new |-> req[t].new, limit |-> req[t].limit]
  BY <1>1 DEF Requests
<1>3. Asked[t] = [op |-> "admitted", id |-> req[t].id, old |-> req[t].old,
                  new |-> req[t].new, limit |-> req[t].limit]
  BY <1>2, AskedNow
<1>4. QED
  BY <1>3

\* Every thread step leaves the other threads' locals alone.
LEMMA OthersAlone ==
  ASSUME TypeOK, NEW t \in Threads, ThreadStep(t)
  PROVE  \A u \in Threads \ {t} :
           pc'[u] = pc[u] /\ req'[u] = req[u] /\ current'[u] = current[u]
<1>1. CASE BucketReady(t) \/ SetCell(t)
  BY <1>1 DEF TypeOK, BucketReady, SetCell, UseBucket, Goto, Return
<1>2. CASE BeginLoad(t) \/ GetBytes(t) \/ Load(t) \/ CasOk(t) \/ ResetGet(t) \/ ResetStore(t)
  BY <1>2 DEF TypeOK, BeginLoad, GetBytes, Load, CasOk, ResetGet, ResetStore, Goto
<1>3. CASE LoadFails(t) \/ Reject(t) \/ Mark(t)
  BY <1>3 DEF TypeOK, LoadFails, Reject, Mark, Return
<1>4. CASE CasFail(t)
  BY <1>4 DEF TypeOK, CasFail
<1>5. CASE ResetSet(t)
  <2>1. \/ Goto(t, "rst_again") /\ UNCHANGED current
        \/ Return(t)
    BY <1>5, ResetSetCases, Zenon
  <2>2. QED
    BY <2>1 DEF TypeOK, Goto, Return
<1>6. CASE ResetAgain(t)
  BY <1>6 DEF TypeOK, ResetAgain, Goto, Return
<1>7. QED
  BY <1>1, <1>2, <1>3, <1>4, <1>5, <1>6 DEF ThreadStep

\* A thread step that moves no total, row or copy and leaves the call pending,
\* admitted or settled is invisible.
LEMMA InvisibleStep ==
  ASSUME TypeOK, NEW t \in Threads, ThreadStep(t),
         UNCHANGED <<Totals, persisted, syncVars>>,
         \/ Pending(t) /\ Pending(t)' /\ req'[t] = req[t]
         \/ Admitted(t) /\ Admitted(t)' /\ req'[t] = req[t]
         \/ ~ Pending(t) /\ ~ Pending(t)' /\ ~ Admitted(t) /\ ~ Admitted(t)'
  PROVE  UNCHANGED Ledger!ledgerVars
<1>0. Asked = [u \in Threads |-> Asked[u]]
  BY DEF Asked
<1>1. Asked' = Asked
  <2>1. CASE Pending(t)
    <3>1. Asked' = [Asked EXCEPT ![t] = req[t]] /\ Asked[t] = req[t]
      BY <2>1, OthersAlone, OneCall, AskedNow DEF Pending, Admitted
    <3>2. QED
      BY <1>0, <3>1
  <2>2. CASE Admitted(t)
    <3>1. /\ Asked' = [Asked EXCEPT ![t] = [req[t] EXCEPT !.op = "admitted"]]
          /\ Asked[t] = [req[t] EXCEPT !.op = "admitted"]
      BY <2>2, OthersAlone, OneCall, AskedNow DEF Pending, Admitted
    <3>2. QED
      BY <1>0, <3>1
  <2>3. CASE ~ Pending(t) /\ ~ Admitted(t)
    <3>1. Asked' = [Asked EXCEPT ![t] = [op |-> "none"]] /\ Asked[t] = [op |-> "none"]
      BY <2>3, OthersAlone, OneCall, AskedNow
    <3>2. QED
      BY <1>0, <3>1
  <2>4. QED
    BY <2>1, <2>2, <2>3
<1>2. QED
  BY <1>1, SameCopy, Stutter

\* A thread step that moves no total, row or copy and settles a pending call
\* withdraws it.
LEMMA WithdrawStep ==
  ASSUME TypeOK, NEW t \in Threads, ThreadStep(t),
         UNCHANGED <<Totals, persisted, syncVars>>,
         Pending(t), pc'[t] = "idle"
  PROVE  Ledger!Withdraw(t)
<1>1. Asked' = [Asked EXCEPT ![t] = [op |-> "none"]]
  BY OthersAlone, OneCall DEF Pending, Admitted
<1>2. Asked[t].op \in {"commit", "reset", "read"}
  <2>1. req[t].op \in {"commit", "reset", "read"}
    BY DEF TypeOK, Requests
  <2>2. QED
    BY <2>1, AskedNow
<1>3. QED
  BY <1>1, <1>2, SameCopy DEF Ledger!Withdraw, Ledger!Done, Ledger!Nothing

\* A thread step that moves no total, row or copy and takes a pending commit to
\* its bucket admits it.
LEMMA AdmitStep ==
  ASSUME TypeOK, NEW t \in Threads, ThreadStep(t),
         UNCHANGED <<Totals, persisted, syncVars>>,
         Pending(t), req[t].op = "commit", pc'[t] = "load", req'[t] = req[t]
  PROVE  Ledger!Admit(t)
<1>1. Asked[t] = req[t]
  BY AskedNow
<1>2. Asked' = [Asked EXCEPT ![t] = [req[t] EXCEPT !.op = "admitted"]]
  BY OthersAlone, OneCall DEF Admitted
<1>3. Asked' = [Asked EXCEPT ![t].op = "admitted"]
  BY <1>1, <1>2
<1>4. QED
  BY <1>1, <1>3, SameCopy DEF Ledger!Admit

\* A step after which thread t sits on a total too large for its commit, and
\* which changes nothing else, refuses the commit.
LEMMA RefuseStep ==
  ASSUME EngineInv, NEW t \in Threads, ThreadStep(t),
         UNCHANGED <<bucketVars, persisted, syncVars, req>>,
         pc[t] \in {"load", "cas"}, pc'[t] = "cas", current'[t] = bytes[req[t].id],
         Admitted(t), ~ Admitted(t)'
  PROVE  Ledger!Refuse(t)
<1>t. TypeOK /\ BucketLoaded /\ CallShape
  BY DEF EngineInv
<1>0. req[t].id \in Ids /\ cell[req[t].id] = "ready" /\ req[t].op = "commit"
  BY <1>t, RequestParts DEF TypeOK, BucketLoaded, CallShape
<1>1. Asked' = [Asked EXCEPT ![t] = [op |-> "none"]]
  BY <1>t, OthersAlone, OneCall DEF Pending
<1>2. Totals[req[t].id] = current'[t]
  BY <1>0 DEF Totals, Total
<1>3. NewTotal(t)' = Ledger!After(Asked[t])
  BY <1>t, <1>2, AdmittedParts DEF NewTotal, SatAdd, SatSub, Ledger!After, Ledger!SatAdd, Ledger!SatSub
<1>4. NewTotal(t)' \in Total64 /\ req[t].limit \in Total64
  <2>1. current'[t] \in Total64 /\ req[t].old \in Total64 /\ req[t].new \in Total64
    BY <1>t, <1>0, RequestParts DEF TypeOK
  <2>2. QED
    BY <1>t, <2>1, Saturating, RequestParts DEF NewTotal, TypeOK
<1>5. NewTotal(t)' > req[t].limit
  BY <1>4, QuotaAssumption DEF Admitted, Total64
<1>6. Totals' = Totals /\ InFlight' = InFlight
  BY SameTotals, SameCopy DEF bucketVars
<1>7. QED
  BY <1>t, <1>1, <1>3, <1>5, <1>6, AdmittedParts DEF Ledger!Refuse, Ledger!Done, Ledger!Nothing

\* Every engine step is a ledger step or invisible.
LEMMA LedgerStep ==
  EngineInv /\ [Next]_vars => [Ledger!Next]_(Ledger!ledgerVars)
<1> SUFFICES ASSUME EngineInv, [Next]_vars PROVE [Ledger!Next]_(Ledger!ledgerVars)
  OBVIOUS
<1>t. TypeOK /\ InitialiserAlone /\ BucketLoaded /\ CallShape
  BY DEF EngineInv
<1>1. ASSUME NEW t \in Threads, NEW r \in Requests, Call(t, r)
      PROVE  Ledger!Invoke(t)
  <2>1. \A i \in Ids : cell'[i] = "ready" <=> cell[i] = "ready"
    BY <1>t, <1>1, RequestParts DEF TypeOK, Call, Entry
  <2>2. Totals' = Totals
    BY <1>1, <2>1 DEF Call, Totals, Total
  <2>3. Asked[t] = [op |-> "none"]
    BY <1>1, AskedNow DEF Call, Pending, Admitted
  <2>4. pc'[t] \in {"rst_get", "bucket"} /\ req'[t] = r
    BY <1>t, <1>1 DEF TypeOK, Call
  <2>5. \A u \in Threads \ {t} : pc'[u] = pc[u] /\ req'[u] = req[u] /\ current'[u] = current[u]
    BY <1>t, <1>1 DEF TypeOK, Call
  <2>6. Asked' = [Asked EXCEPT ![t] = r]
    BY <2>4, <2>5, OneCall DEF Pending
  <2>7. QED
    BY <1>1, <2>2, <2>3, <2>6, SameCopy DEF Call, Ledger!Invoke, Ledger!Nothing
<1>2. ASSUME NEW t \in Threads, ThreadStep(t)
      PROVE  [Ledger!Next]_(Ledger!ledgerVars)
  <2>0. req[t].id \in Ids
    BY <1>t, RequestParts DEF TypeOK
  <2>w. Ledger!Withdraw(t) => Ledger!Next
    BY DEF Ledger!Next
  <2>a. Ledger!Admit(t) => Ledger!Next
    BY DEF Ledger!Next
  <2>1. CASE BucketReady(t)
    <3>1. UNCHANGED <<Totals, persisted, syncVars>>
      BY <2>1, SameTotals DEF BucketReady, bucketVars
    <3>2. Pending(t)
      BY <2>1 DEF BucketReady, Pending
    <3>3. CASE req[t].op = "commit"
      <4>1. pc'[t] = "load" /\ req'[t] = req[t]
        BY <1>t, <2>1, <3>3 DEF TypeOK, BucketReady, UseBucket, Goto
      <4>2. QED
        BY <1>t, <1>2, <2>a, <3>1, <3>2, <3>3, <4>1, AdmitStep
    <3>4. CASE req[t].op # "commit"
      <4>1. pc'[t] = "idle"
        BY <1>t, <2>1, <3>4 DEF TypeOK, BucketReady, UseBucket, Return
      <4>2. QED
        BY <1>t, <1>2, <2>w, <3>1, <3>2, <4>1, WithdrawStep
    <3>5. QED
      BY <3>3, <3>4
  <2>2. CASE BeginLoad(t) \/ GetBytes(t) \/ ResetGet(t)
    <3>1. UNCHANGED <<Totals, persisted, syncVars>>
      BY <2>2, SameTotals DEF BeginLoad, GetBytes, ResetGet, bucketVars
    <3>2. Pending(t) /\ Pending(t)' /\ req'[t] = req[t]
      BY <1>t, <2>2 DEF TypeOK, BeginLoad, GetBytes, ResetGet, Goto, Pending
    <3>3. QED
      BY <1>t, <1>2, <3>1, <3>2, InvisibleStep
  <2>3. CASE LoadFails(t)
    <3>1. UNCHANGED <<Totals, persisted, syncVars>>
      BY <2>3, SameTotals DEF LoadFails, bucketVars
    <3>2. Pending(t) /\ pc'[t] = "idle"
      BY <1>t, <2>3 DEF TypeOK, LoadFails, Return, Pending
    <3>3. QED
      BY <1>t, <1>2, <2>w, <3>1, <3>2, WithdrawStep
  <2>4. CASE SetCell(t)
    <3>1. cell[req[t].id] = "empty" /\ current[t] = persisted[req[t].id]
      BY <1>t, <2>4 DEF SetCell, InitialiserAlone, Initialising
    <3>2. \A i \in Ids : i # req[t].id => cell'[i] = cell[i] /\ bytes'[i] = bytes[i]
      BY <1>t, <2>4 DEF TypeOK, SetCell
    <3>3. cell'[req[t].id] = "ready" /\ bytes'[req[t].id] = persisted[req[t].id]
      BY <1>t, <2>0, <2>4, <3>1 DEF TypeOK, SetCell
    <3>4. \A i \in Ids : Total(i)' = Total(i)
      BY <2>4, <3>1, <3>2, <3>3 DEF SetCell, Total
    <3>5. UNCHANGED <<Totals, persisted, syncVars>>
      BY <2>4, <3>4 DEF SetCell, Totals
    <3>6. Pending(t)
      BY <2>4 DEF SetCell, Pending
    <3>7. CASE req[t].op = "commit"
      <4>1. pc'[t] = "load" /\ req'[t] = req[t]
        BY <1>t, <2>4, <3>7 DEF TypeOK, SetCell, UseBucket, Goto
      <4>2. QED
        BY <1>t, <1>2, <2>a, <3>5, <3>6, <3>7, <4>1, AdmitStep
    <3>8. CASE req[t].op # "commit"
      <4>1. pc'[t] = "idle"
        BY <1>t, <2>4, <3>8 DEF TypeOK, SetCell, UseBucket, Return
      <4>2. QED
        BY <1>t, <1>2, <2>w, <3>5, <3>6, <4>1, WithdrawStep
    <3>9. QED
      BY <3>7, <3>8
  <2>5. CASE Load(t) \/ CasFail(t)
    <3>1. /\ UNCHANGED <<bucketVars, persisted, syncVars, req>>
          /\ pc[t] \in {"load", "cas"} /\ pc'[t] = "cas" /\ current'[t] = bytes[req[t].id]
          /\ Admitted(t)
      BY <1>t, <2>5 DEF TypeOK, Load, CasFail, Goto, Admitted
    <3>2. CASE Admitted(t)'
      BY <1>t, <1>2, <3>1, <3>2, SameTotals, InvisibleStep DEF bucketVars
    <3>3. CASE ~ Admitted(t)'
      <4>1. Ledger!Refuse(t)
        BY <1>2, <3>1, <3>3, RefuseStep
      <4>2. QED
        BY <4>1 DEF Ledger!Next
    <3>4. QED
      BY <3>2, <3>3
  <2>6. CASE Reject(t)
    <3>1. UNCHANGED <<Totals, persisted, syncVars>>
      BY <2>6, SameTotals DEF Reject, bucketVars
    <3>2. NewTotal(t) \in Int /\ req[t].limit \in Int
      BY <1>t, NewTotalType, RequestParts, QuotaAssumption DEF TypeOK, Total64
    <3>3. ~ Pending(t) /\ ~ Pending(t)' /\ ~ Admitted(t) /\ ~ Admitted(t)'
      BY <1>t, <2>6, <3>2 DEF TypeOK, Reject, Return, Pending, Admitted
    <3>4. QED
      BY <1>t, <1>2, <3>1, <3>3, InvisibleStep
  <2>7. CASE Mark(t)
    <3>1. UNCHANGED <<Totals, persisted, syncVars>>
      BY <2>7, SameTotals DEF Mark
    <3>2. ~ Pending(t) /\ ~ Pending(t)' /\ ~ Admitted(t) /\ ~ Admitted(t)'
      BY <1>t, <2>7 DEF TypeOK, Mark, Return, Pending, Admitted
    <3>3. QED
      BY <1>t, <1>2, <3>1, <3>2, InvisibleStep
  <2>8. CASE CasOk(t)
    <3> DEFINE id == req[t].id
    <3>1. /\ cell[id] = "ready" /\ bytes[id] = current[t]
          /\ cell' = cell /\ persisted' = persisted /\ InFlight' = InFlight
          /\ bytes' = [bytes EXCEPT ![id] = NewTotal(t)]
          /\ NewTotal(t) <= req[t].limit
      BY <1>t, <2>8, SameCopy DEF CasOk, BucketLoaded
    <3>2. Totals[id] = current[t]
      BY <2>0, <3>1 DEF Totals, Total
    <3>3. Totals' = [Totals EXCEPT ![id] = NewTotal(t)]
      BY <1>t, <2>0, <3>1 DEF TypeOK, Totals, Total
    <3>5. Admitted(t) /\ ~ Pending(t)' /\ ~ Admitted(t)'
      BY <1>t, <2>8 DEF TypeOK, CasOk, Goto, Pending, Admitted
    <3>4. NewTotal(t) = Ledger!After(Asked[t])
      BY <1>t, <3>2, <3>5, AdmittedParts
      DEF NewTotal, SatAdd, SatSub, Ledger!After, Ledger!SatAdd, Ledger!SatSub
    <3>6. Asked' = [Asked EXCEPT ![t] = [op |-> "none"]]
      BY <1>t, <1>2, <3>5, OthersAlone, OneCall
    <3>7. Ledger!Commit(t)
      BY <1>t, <3>1, <3>3, <3>4, <3>5, <3>6, AdmittedParts DEF Ledger!Commit, Ledger!Done, Ledger!Nothing
    <3>8. QED
      BY <3>7 DEF Ledger!Next
  <2>9. CASE ResetStore(t)
    <3> DEFINE id == req[t].id
    <3>1. /\ cell[id] = "ready"
          /\ cell' = cell /\ persisted' = persisted /\ InFlight' = InFlight
          /\ bytes' = [bytes EXCEPT ![id] = 0]
      BY <1>t, <2>9, SameCopy DEF ResetStore, BucketLoaded
    <3>2. Totals' = [Totals EXCEPT ![id] = 0]
      BY <1>t, <2>0, <3>1 DEF TypeOK, Totals, Total
    <3>3. Pending(t) /\ ~ Pending(t)' /\ ~ Admitted(t)' /\ req[t].op = "reset"
      BY <1>t, <2>9 DEF TypeOK, ResetStore, Goto, Pending, Admitted, CallShape
    <3>4. Asked[t] = req[t] /\ Asked' = [Asked EXCEPT ![t] = [op |-> "none"]]
      BY <1>t, <1>2, <3>3, OthersAlone, OneCall, AskedNow
    <3>5. Ledger!Reset(t)
      BY <3>1, <3>2, <3>3, <3>4 DEF Ledger!Reset, Ledger!Done, Ledger!Nothing
    <3>6. QED
      BY <3>5 DEF Ledger!Next
  <2>10. CASE ResetSet(t)
    <3> DEFINE id == req[t].id
    <3>0. Pending(t) /\ req[t].op = "reset"
      BY <1>t, <2>10 DEF ResetSet, Pending, CallShape
    <3>1. CASE Goto(t, "rst_again") /\ UNCHANGED <<bucketVars, persisted, current, syncVars>>
      <4>1. Pending(t)' /\ req'[t] = req[t]
        BY <1>t, <3>1 DEF TypeOK, Goto, Pending
      <4>2. QED
        BY <1>t, <1>2, <3>0, <3>1, <4>1, SameTotals, InvisibleStep DEF bucketVars
    <3>2. CASE /\ cell' = [cell EXCEPT ![id] = "ready"]
               /\ bytes' = [bytes EXCEPT ![id] = 0]
               /\ Return(t)
               /\ UNCHANGED <<persisted, syncVars>>
      <4>1. Totals' = [Totals EXCEPT ![id] = 0]
        BY <1>t, <2>0, <3>2 DEF TypeOK, Totals, Total
      <4>2. ~ Pending(t)' /\ ~ Admitted(t)'
        BY <1>t, <3>2 DEF TypeOK, Return, Pending, Admitted
      <4>3. Asked[t] = req[t] /\ Asked' = [Asked EXCEPT ![t] = [op |-> "none"]]
        BY <1>t, <1>2, <3>0, <4>2, OthersAlone, OneCall, AskedNow
      <4>4. Ledger!Reset(t)
        BY <3>0, <3>2, <4>1, <4>3, SameCopy DEF Ledger!Reset, Ledger!Done, Ledger!Nothing
      <4>5. QED
        BY <4>4 DEF Ledger!Next
    <3>3. QED
      BY <2>10, <3>1, <3>2, ResetSetCases, Zenon
  <2>11. CASE ResetAgain(t)
    <3>1. UNCHANGED <<Totals, persisted, syncVars>> /\ Pending(t)
      BY <2>11, SameTotals DEF ResetAgain, bucketVars, Pending
    <3>2. CASE cell[req[t].id] = "ready"
      <4>1. Pending(t)' /\ req'[t] = req[t]
        BY <1>t, <2>11, <3>2 DEF TypeOK, ResetAgain, Goto, Pending
      <4>2. QED
        BY <1>t, <1>2, <3>1, <4>1, InvisibleStep
    <3>3. CASE cell[req[t].id] # "ready"
      <4>1. pc'[t] = "idle"
        BY <1>t, <2>11, <3>3 DEF TypeOK, ResetAgain, Return
      <4>2. QED
        BY <1>t, <1>2, <2>w, <3>1, <4>1, WithdrawStep
    <3>4. QED
      BY <3>2, <3>3
  <2>12. QED
    BY <1>2, <2>1, <2>2, <2>3, <2>4, <2>5, <2>6, <2>7, <2>8, <2>9, <2>10, <2>11
    DEF ThreadStep
<1>3. ASSUME SyncStep PROVE [Ledger!Next]_(Ledger!ledgerVars)
  <2>0. syncId \in Ids
    BY <1>t DEF TypeOK
  <2>a. Asked' = Asked
    BY <1>3, SameAsked DEF SyncStep, Tick, SyncVisit, SyncEnd, SyncGet, SetBytesOk,
       SetBytesFails, Remark
  <2>1. CASE Tick \/ SyncEnd \/ Remark
    <3>1. InFlight' = InFlight
      BY <2>1 DEF Tick, SyncEnd, Remark, SyncNext, InFlight
    <3>2. QED
      BY <2>a, <2>1, <3>1, SameTotals, Stutter DEF Tick, SyncEnd, Remark, bucketVars
  <2>2. ASSUME NEW i \in Ids, SyncVisit(i) PROVE UNCHANGED Ledger!ledgerVars
    <3>1. InFlight' = InFlight
      BY <2>2 DEF SyncVisit, InFlight
    <3>2. QED
      BY <2>a, <2>2, <3>1, SameTotals, Stutter DEF SyncVisit
  <2>3. CASE SyncGet
    <3>1. Totals' = Totals /\ persisted' = persisted
      BY <2>3, SameTotals DEF SyncGet, bucketVars
    <3>2. InFlight' = [InFlight EXCEPT ![syncId] = Totals[syncId]]
      BY <1>t, <2>0, <2>3 DEF SyncGet, InFlight, Totals, Total, BucketLoaded
    <3>3. ASSUME NEW i \in Ids, i = syncId PROVE Ledger!Copy(i)
      BY <2>a, <3>1, <3>2, <3>3 DEF Ledger!Copy
    <3>4. QED
      BY <2>0, <3>3 DEF Ledger!Next
  <2>4. CASE SetBytesOk
    <3>1. cell[syncId] = "ready" /\ UNCHANGED <<cell, bytes>>
      BY <1>t, <2>4 DEF SetBytesOk, BucketLoaded, bucketVars
    <3>2. Totals' = Totals
      BY <1>t, <2>0, <2>4, <3>1 DEF TypeOK, SetBytesOk, Totals, Total
    <3>3. InFlight[syncId] = snap /\ snap # -1
      BY <1>t, <2>0, <2>4, QuotaAssumption DEF TypeOK, Total64, SetBytesOk, InFlight
    <3>4. InFlight' = [InFlight EXCEPT ![syncId] = -1]
      BY <2>4 DEF SetBytesOk, SyncNext, InFlight
    <3>5. persisted' = [persisted EXCEPT ![syncId] = InFlight[syncId]]
      BY <2>4, <3>3 DEF SetBytesOk
    <3>6. ASSUME NEW i \in Ids, i = syncId PROVE Ledger!Store(i)
      BY <2>a, <3>2, <3>3, <3>4, <3>5, <3>6 DEF Ledger!Store, Ledger!None
    <3>7. QED
      BY <2>0, <3>6 DEF Ledger!Next
  <2>5. CASE SetBytesFails
    <3>1. Totals' = Totals /\ persisted' = persisted
      BY <2>5, SameTotals DEF SetBytesFails, bucketVars
    <3>2. InFlight' = [InFlight EXCEPT ![syncId] = -1]
      BY <2>5 DEF SetBytesFails, InFlight
    <3>3. ASSUME NEW i \in Ids, i = syncId PROVE Ledger!Drop(i)
      BY <2>a, <3>1, <3>2, <3>3 DEF Ledger!Drop, Ledger!None
    <3>4. QED
      BY <2>0, <3>3 DEF Ledger!Next
  <2>6. QED
    BY <1>3, <2>1, <2>2, <2>3, <2>4, <2>5 DEF SyncStep
<1>4. CASE Restart
  <2>1. Totals' = persisted /\ InFlight' = [i \in Ids |-> -1] /\ persisted' = persisted
    BY <1>t, <1>4 DEF TypeOK, Restart, Totals, Total, InFlight
  <2>2. Asked' = [t \in Threads |-> [op |-> "none"]]
    BY <1>4 DEF Restart, Asked, Pending, Admitted
  <2>3. Ledger!Restart
    BY <2>1, <2>2 DEF Ledger!Restart, Ledger!None, Ledger!Nothing
  <2>4. QED
    BY <2>3 DEF Ledger!Next
<1>5. CASE UNCHANGED vars
  BY <1>5, SameTotals, SameCopy, SameAsked, Stutter DEF vars, syncVars, threadVars
<1>6. QED
  BY <1>1, <1>2, <1>3, <1>4, <1>5 DEF Next, Ledger!Next

\* The engine implements the ledger, for every instance: each call takes
\* effect at most once, atomically and with its own arguments, a commit that
\* has its bucket is refused only at a moment that leaves no room for it, a
\* lazy load is invisible, and a restart returns to a total that was copied
\* out earlier.
THEOREM EngineImplementsLedger == Spec => LedgerSpec
<1>1. Init => Ledger!Init
  BY DEF Init, Ledger!Init, Ledger!None, Ledger!Nothing, Totals, Total, InFlight,
     Asked, Pending, Admitted
<1>2. QED
  BY <1>1, EngineCorrect, LedgerStep, PTL DEF Spec, LedgerSpec, Ledger!Spec
=============================================================================
