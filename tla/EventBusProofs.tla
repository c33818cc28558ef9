-------------------------- MODULE EventBusProofs --------------------------
(***************************************************************************)
(* Jobs and their events: type correctness, GetJobSeesNoGap and            *)
(* CriticalKept, for any number of jobs and workers and any capacity.      *)
(***************************************************************************)
EXTENDS EventBus, FoldTheorems

-----------------------------------------------------------------------------
(* CriticalOf. *)

Wanted(j, e) == e.job = j /\ is_critical(e)
Others(j) == {e \in Events : e.job # j \/ ~ is_critical(e)}

LEMMA CriticalIs ==
  ASSUME NEW j
  PROVE  /\ \A s : CriticalOf(j, s) = Without(s, Others(j))
         /\ \A e \in Events : e \in Others(j) <=> ~ Wanted(j, e)
BY DEF CriticalOf, Others, Wanted

LEMMA CriticalEmpty ==
  ASSUME NEW j
  PROVE  CriticalOf(j, <<>>) = <<>>
BY CriticalIs, WithoutEmpty

LEMMA CriticalAppend ==
  ASSUME NEW j, NEW s \in Seq(Events), NEW e \in Events
  PROVE  CriticalOf(j, Append(s, e)) =
           IF Wanted(j, e) THEN Append(CriticalOf(j, s), e) ELSE CriticalOf(j, s)
<1>1. Without(Append(s, e), Others(j)) =
        IF e \in Others(j) THEN Without(s, Others(j)) ELSE Append(Without(s, Others(j)), e)
  BY WithoutAppend
<1> QED BY <1>1, CriticalIs

LEMMA CriticalType ==
  ASSUME NEW j, NEW s \in Seq(Events)
  PROVE  CriticalOf(j, s) \in Seq(Events)
<1>1. Without(s, Others(j)) \in Seq(Events \ Others(j))
  BY WithoutType
<1>2. Without(s, Others(j)) \in Seq(Events)
  <2> DEFINE F == Events \ Others(j)
  <2>1. F \subseteq Events
    OBVIOUS
  <2> HIDE DEF F
  <2> QED BY <1>1, <2>1, SeqMonotonic DEF F
<1> QED BY <1>2, CriticalIs

LEMMA CriticalConcat ==
  ASSUME NEW j, NEW s \in Seq(Events), NEW t \in Seq(Events)
  PROVE  CriticalOf(j, s \o t) = CriticalOf(j, s) \o CriticalOf(j, t)
<1>1. Without(s \o t, Others(j)) = Without(s, Others(j)) \o Without(t, Others(j))
  BY WithoutConcat
<1> QED BY <1>1, CriticalIs

\* One event.
LEMMA CriticalOne ==
  ASSUME NEW j, NEW e \in Events
  PROVE  CriticalOf(j, <<e>>) = IF Wanted(j, e) THEN <<e>> ELSE <<>>
<1>1. Without(<<e>>, Others(j)) = IF e \in Others(j) THEN <<>> ELSE <<e>>
  BY WithoutOne
<1> QED BY <1>1, CriticalIs

\* Taking an event that is not wanted out of a sequence.
LEMMA CriticalRemoved ==
  ASSUME NEW j, NEW s \in Seq(Events), NEW i \in 1 .. Len(s), ~ Wanted(j, s[i])
  PROVE  /\ RemoveAt(s, i) \in Seq(Events) /\ Len(RemoveAt(s, i)) = Len(s) - 1
         /\ CriticalOf(j, RemoveAt(s, i)) = CriticalOf(j, s)
<1> DEFINE a == SubSeq(s, 1, i - 1)
           x == s[i]
           b == SubSeq(s, i + 1, Len(s))
<1>1. Len(s) \in Nat /\ x \in Events /\ \A n \in 1 .. Len(s) : s[n] \in Events
  BY LenProperties, ElementOfSeq
<1>2. a \in Seq(Events) /\ Len(a) = i - 1
  <2>1. \A n \in 1 .. i - 1 : s[n] \in Events
    BY <1>1
  <2>2. 1 \in Int /\ i - 1 \in Int /\ i >= 1
    BY <1>1
  <2> QED BY <2>1, <2>2, SubSeqProperties
<1>3. b \in Seq(Events) /\ Len(b) = Len(s) - i
  <2>1. \A n \in i + 1 .. Len(s) : s[n] \in Events
    BY <1>1
  <2>2. i + 1 \in Int /\ Len(s) \in Int /\ i <= Len(s)
    BY <1>1
  <2> QED BY <2>1, <2>2, SubSeqProperties
<1>4. s = (a \o <<x>>) \o b
  <2>1. 1 \in 1 .. Len(s) + 1 /\ i \in 0 .. Len(s) /\ Len(s) \in i .. Len(s)
    BY <1>1
  <2>2. SubSeq(s, 1, i) \o b = SubSeq(s, 1, Len(s))
    BY <2>1, ConcatAdjacentSubSeq
  <2>3. SubSeq(s, 1, i) = a \o <<x>>
    <3>1. 1 \in 1 .. Len(s) /\ i \in 1 .. Len(s)
      BY <1>1
    <3> QED BY <3>1, SubSeqRecursiveSecond
  <2> QED BY <2>2, <2>3, SubSeqFull
<1>5. RemoveAt(s, i) = a \o b
  BY DEF RemoveAt
<1> HIDE DEF a, b
<1>6. a \o b \in Seq(Events) /\ Len(a \o b) = Len(s) - 1
  <2>1. a \o b \in Seq(Events) /\ Len(a \o b) = Len(a) + Len(b)
    BY <1>2, <1>3, ConcatProperties
  <2>2. Len(a) + Len(b) = Len(s) - 1
    BY <1>1, <1>2, <1>3
  <2> QED BY <2>1, <2>2
<1>7. <<x>> \in Seq(Events) /\ a \o <<x>> \in Seq(Events)
  BY <1>1, <1>2, ConcatProperties
<1>8. CriticalOf(j, s) = (CriticalOf(j, a) \o CriticalOf(j, <<x>>)) \o CriticalOf(j, b)
  <2>1. CriticalOf(j, (a \o <<x>>) \o b) = CriticalOf(j, a \o <<x>>) \o CriticalOf(j, b)
    BY <1>3, <1>7, CriticalConcat
  <2>2. CriticalOf(j, a \o <<x>>) = CriticalOf(j, a) \o CriticalOf(j, <<x>>)
    BY <1>2, <1>7, CriticalConcat
  <2> QED BY <1>4, <2>1, <2>2
<1>9. CriticalOf(j, <<x>>) = <<>>
  BY <1>1, CriticalOne
<1>10. CriticalOf(j, a) \in Seq(Events)
  BY <1>2, CriticalType
<1>11. CriticalOf(j, a) \o <<>> = CriticalOf(j, a)
  BY <1>10, ConcatEmptySeq
<1>12. CriticalOf(j, a \o b) = CriticalOf(j, a) \o CriticalOf(j, b)
  BY <1>2, <1>3, CriticalConcat
<1> QED BY <1>5, <1>6, <1>8, <1>9, <1>11, <1>12

\* What the bridge finds to displace.
LEMMA TelemetryIs ==
  ASSUME buf \in Seq(Events), Telemetry # 0
  PROVE  Telemetry \in 1 .. Len(buf) /\ ~ is_critical(buf[Telemetry])
<1> DEFINE I == {i \in 1 .. Len(buf) : ~ is_critical(buf[i])}
<1>1. Telemetry = IF I # {} THEN Min(I) ELSE 0
  BY DEF Telemetry, SelectInSeq
<1>2. I # {} /\ Telemetry = Min(I)
  BY <1>1
<1>3. I \in SUBSET Nat
  BY LenProperties
<1>4. \E m \in I : \A k \in I : m <= k
  <2> HIDE DEF I
  <2> QED BY <1>2, <1>3, LeastNatural
<1>5. Min(I) \in I
  <2> HIDE DEF I
  <2> QED BY <1>4 DEF Min
<1> QED BY <1>2, <1>5

-----------------------------------------------------------------------------
(* Type correctness.  The workers: each finish_job of an async job and each *)
(* GetJob between its two lookups occupies one.                             *)

Labels == {"new", "running", "done"} \cup Finishing
Results == {"none", "succeeded", "failed", "expired"}

JobTypes ==
  /\ jobs \subseteq Jobs /\ pc \in [Jobs -> Labels] /\ ok \in [Jobs -> BOOLEAN]
  /\ published \in [Jobs -> Results] /\ progress \in [Jobs -> 0 .. MaxProgress]
BusTypes ==
  /\ queue \in Seq(Events) /\ Len(queue) <= Capacity
  /\ pending \in Seq(Events) /\ Len(pending) <= 1
  /\ buf \in Seq(Events) /\ Len(buf) <= MaxEvents
  /\ polled \in [Jobs -> Seq(Events)]
WorkerTypes == asking \in Jobs \cup {NoJob} /\ Busy <= Workers

LEMMA TypeParts == TypeOK <=> JobTypes /\ BusTypes /\ WorkerTypes
BY DEF TypeOK, JobTypes, BusTypes, WorkerTypes, Labels, Results

\* The async jobs inside finish_job.
InFinish(p) == {j \in AsyncJobs : p[j] \in Finishing}

LEMMA InFinishFinite ==
  ASSUME NEW p
  PROVE  IsFiniteSet(InFinish(p)) /\ Cardinality(InFinish(p)) \in Nat
<1>1. IsFiniteSet(AsyncJobs)
  BY BusAssumption, FS_Subset
<1>2. IsFiniteSet(InFinish(p))
  BY <1>1, FS_Subset DEF InFinish
<1> QED BY <1>2, FS_CardinalityType

LEMMA BusyIs == Busy = Cardinality(InFinish(pc)) + (IF asking = NoJob THEN 0 ELSE 1)
BY DEF Busy, InFinish

\* A step after which no more jobs are inside finish_job, and no GetJob begins.
LEMMA WorkersQuiet ==
  ASSUME WorkerTypes, InFinish(pc') \subseteq InFinish(pc), asking' \in {asking, NoJob}
  PROVE  WorkerTypes'
<1>1. /\ Cardinality(InFinish(pc')) <= Cardinality(InFinish(pc))
      /\ Cardinality(InFinish(pc)) \in Nat /\ Cardinality(InFinish(pc')) \in Nat
  BY InFinishFinite, FS_Subset
<1>2. Workers \in Nat
  BY BusAssumption
<1>3. Busy' = Cardinality(InFinish(pc')) + (IF asking' = NoJob THEN 0 ELSE 1)
  BY DEF Busy, InFinish
<1>4. Busy' <= Busy /\ Busy \in Nat /\ Busy' \in Nat
  BY <1>1, <1>3, BusyIs
<1>5. Busy' <= Workers
  BY <1>2, <1>4 DEF WorkerTypes
<1> QED BY <1>5 DEF WorkerTypes

\* A job that goes from one label to another.
LEMMA GotoKeeps ==
  ASSUME NEW j \in Jobs, NEW l \in Labels, pc \in [Jobs -> Labels], Goto(j, l)
  PROVE  /\ pc' \in [Jobs -> Labels] /\ pc'[j] = l /\ \A k \in Jobs \ {j} : pc'[k] = pc[k]
         /\ (l \in Finishing => pc[j] \in Finishing) => InFinish(pc') \subseteq InFinish(pc)
BY BusAssumption DEF Goto, InFinish

LEMMA TypeRegister ==
  ASSUME TypeOK, NEW j \in Jobs, RegisterJob(j)
  PROVE  TypeOK'
<1>0. JobTypes /\ BusTypes /\ WorkerTypes
  BY TypeParts
<1>1. "running" \in Labels /\ "running" \notin Finishing
  BY DEF Labels, Finishing
<1>2. pc' \in [Jobs -> Labels] /\ InFinish(pc') \subseteq InFinish(pc)
  BY <1>0, <1>1, GotoKeeps DEF RegisterJob, JobTypes
<1>3. JobTypes'
  BY <1>0, <1>2 DEF JobTypes, RegisterJob
<1>4. BusTypes'
  BY <1>0 DEF BusTypes, RegisterJob, busVars
<1>5. WorkerTypes'
  BY <1>0, <1>2, WorkersQuiet DEF RegisterJob
<1> QED BY <1>3, <1>4, <1>5 DEF TypeOK, JobTypes, BusTypes, WorkerTypes, Labels, Results

LEMMA TypeProgress ==
  ASSUME TypeOK, NEW j \in Jobs, SendProgress(j)
  PROVE  TypeOK'
<1>0. JobTypes /\ BusTypes /\ WorkerTypes
  BY TypeParts
<1>1. JobTypes'
  <2>1. progress[j] \in 0 .. MaxProgress /\ progress[j] < MaxProgress /\ MaxProgress \in Nat
    BY <1>0, BusAssumption DEF JobTypes, SendProgress
  <2>2. progress' \in [Jobs -> 0 .. MaxProgress]
    BY <1>0, <2>1 DEF JobTypes, SendProgress
  <2> QED BY <1>0, <2>2 DEF JobTypes, SendProgress
<1>2. BusTypes'
  <2>1. [job |-> j, kind |-> "progress"] \in Events
    BY DEF Events, Kinds
  <2>2. queue' \in Seq(Events) /\ Len(queue') <= Capacity
    BY <1>0, <2>1, AppendProperties, LenProperties, BusAssumption DEF BusTypes, SendProgress, TrySend
  <2> QED BY <1>0, <2>2 DEF BusTypes, SendProgress
<1>3. WorkerTypes'
  BY <1>0, WorkersQuiet DEF SendProgress
<1> QED BY <1>1, <1>2, <1>3 DEF TypeOK, JobTypes, BusTypes, WorkerTypes, Labels, Results

LEMMA TypeBodyEnds ==
  ASSUME TypeOK, NEW j \in Jobs, NEW success \in BOOLEAN, BodyEnds(j, success)
  PROVE  TypeOK'
<1>0. JobTypes /\ BusTypes /\ WorkerTypes
  BY TypeParts
<1>1. "publish" \in Labels /\ "publish" \in Finishing
  BY DEF Labels, Finishing
<1>2. pc' \in [Jobs -> Labels] /\ pc'[j] = "publish" /\ \A k \in Jobs \ {j} : pc'[k] = pc[k]
  BY <1>0, <1>1, GotoKeeps DEF BodyEnds, JobTypes
<1>3. JobTypes'
  BY <1>0, <1>2 DEF JobTypes, BodyEnds
<1>4. BusTypes'
  BY <1>0 DEF BusTypes, BodyEnds, busVars
<1>5. CASE j \in AsyncJobs
  <2>1. Busy < Workers /\ asking' = asking /\ pc[j] \notin Finishing
    BY <1>5 DEF BodyEnds, FreeWorker, Finishing
  <2>2. InFinish(pc') = InFinish(pc) \cup {j} /\ j \notin InFinish(pc)
    BY <1>1, <1>2, <1>5, <2>1, BusAssumption DEF InFinish
  <2>3. Cardinality(InFinish(pc')) = Cardinality(InFinish(pc)) + 1
    BY <2>2, InFinishFinite, FS_AddElement
  <2>4. Busy' = Cardinality(InFinish(pc')) + (IF asking = NoJob THEN 0 ELSE 1)
    BY <2>1 DEF Busy, InFinish
  <2>5. Cardinality(InFinish(pc)) \in Nat /\ Workers \in Nat
    BY InFinishFinite, BusAssumption
  <2>6. Busy' <= Workers
    BY <2>1, <2>3, <2>4, <2>5, BusyIs
  <2> QED BY <1>0, <2>1, <2>6, <1>3, <1>4 DEF TypeOK, JobTypes, BusTypes, WorkerTypes, Labels, Results
<1>6. CASE j \notin AsyncJobs
  <2>1. InFinish(pc') \subseteq InFinish(pc)
    BY <1>2, <1>6, BusAssumption DEF InFinish
  <2>2. WorkerTypes'
    BY <1>0, <2>1, WorkersQuiet DEF BodyEnds
  <2> QED BY <2>2, <1>3, <1>4 DEF TypeOK, JobTypes, BusTypes, WorkerTypes, Labels, Results
<1> QED BY <1>5, <1>6

\* finish_job, from the result on.
LEMMA TypePublish ==
  ASSUME TypeOK, NEW j \in Jobs, PublishResult(j)
  PROVE  TypeOK'
<1>0. JobTypes /\ BusTypes /\ WorkerTypes
  BY TypeParts
<1> DEFINE l == IF ok[j] THEN "finished" ELSE "log"
<1>1. l \in Labels /\ pc[j] \in Finishing
  BY DEF Labels, Finishing, PublishResult
<1>2. pc' \in [Jobs -> Labels] /\ InFinish(pc') \subseteq InFinish(pc)
  <2> HIDE DEF l
  <2>1. Goto(j, l)
    BY DEF PublishResult, l
  <2> QED BY <1>0, <1>1, <2>1, GotoKeeps DEF JobTypes
<1>3. JobTypes'
  BY <1>0, <1>2 DEF JobTypes, PublishResult, Results
<1>4. BusTypes'
  BY <1>0 DEF BusTypes, PublishResult, busVars
<1>5. WorkerTypes'
  BY <1>0, <1>2, WorkersQuiet DEF PublishResult
<1> QED BY <1>3, <1>4, <1>5 DEF TypeOK, JobTypes, BusTypes, WorkerTypes, Labels, Results

\* The three sends have this shape.
Sends(j, kind, l) ==
  /\ SendCritical(j, kind) /\ Goto(j, l)
  /\ UNCHANGED <<jobs, ok, published, progress, pending, buf, polled, asking>>

LEMMA TypeSends ==
  ASSUME TypeOK, NEW j \in Jobs, NEW kind \in Kinds, NEW l \in Finishing, pc[j] \in Finishing,
         Sends(j, kind, l)
  PROVE  TypeOK'
<1>0. JobTypes /\ BusTypes /\ WorkerTypes
  BY TypeParts
<1>1. l \in Labels
  BY DEF Labels
<1>2. pc' \in [Jobs -> Labels] /\ InFinish(pc') \subseteq InFinish(pc)
  BY <1>0, <1>1, GotoKeeps DEF Sends, JobTypes
<1>3. JobTypes'
  BY <1>0, <1>2 DEF JobTypes, Sends
<1>4. BusTypes'
  <2>1. [job |-> j, kind |-> kind] \in Events
    BY DEF Events
  <2>2. queue' \in Seq(Events) /\ Len(queue') <= Capacity
    BY <1>0, <2>1, AppendProperties, LenProperties, BusAssumption DEF BusTypes, Sends, SendCritical
  <2> QED BY <1>0, <2>2 DEF BusTypes, Sends
<1>5. WorkerTypes'
  BY <1>0, <1>2, WorkersQuiet DEF Sends
<1> QED BY <1>3, <1>4, <1>5 DEF TypeOK, JobTypes, BusTypes, WorkerTypes, Labels, Results

LEMMA SendsAre ==
  ASSUME NEW j \in Jobs
  PROVE  /\ SendLog(j) => Sends(j, "log", "message")
         /\ SendMessage(j) => Sends(j, "message", "finished")
         /\ SendFinished(j) => Sends(j, "finished", "remove")
BY DEF SendLog, SendMessage, SendFinished, Sends

LEMMA TypeRemove ==
  ASSUME TypeOK, NEW j \in Jobs, RemoveJob(j)
  PROVE  TypeOK'
<1>0. JobTypes /\ BusTypes /\ WorkerTypes
  BY TypeParts
<1>1. "done" \in Labels /\ "done" \notin Finishing
  BY DEF Labels, Finishing
<1>2. pc' \in [Jobs -> Labels] /\ InFinish(pc') \subseteq InFinish(pc)
  BY <1>0, <1>1, GotoKeeps DEF RemoveJob, JobTypes
<1>3. JobTypes'
  BY <1>0, <1>2 DEF JobTypes, RemoveJob
<1>4. BusTypes'
  BY <1>0 DEF BusTypes, RemoveJob, busVars
<1>5. WorkerTypes'
  BY <1>0, <1>2, WorkersQuiet DEF RemoveJob
<1> QED BY <1>3, <1>4, <1>5 DEF TypeOK, JobTypes, BusTypes, WorkerTypes, Labels, Results

LEMMA TypeFinishStep ==
  ASSUME TypeOK, NEW j \in Jobs, FinishStep(j)
  PROVE  TypeOK'
<1>1. {"log", "message", "finished"} \subseteq Kinds /\ {"message", "finished", "remove"} \subseteq Finishing
  BY DEF Kinds, Finishing
<1>2. SendLog(j) \/ SendMessage(j) \/ SendFinished(j) => pc[j] \in Finishing
  BY DEF SendLog, SendMessage, SendFinished, Finishing
<1>3. CASE SendLog(j)
  BY <1>1, <1>2, <1>3, SendsAre, TypeSends
<1>4. CASE SendMessage(j)
  BY <1>1, <1>2, <1>4, SendsAre, TypeSends
<1>5. CASE SendFinished(j)
  BY <1>1, <1>2, <1>5, SendsAre, TypeSends
<1> QED BY <1>3, <1>4, <1>5, TypePublish, TypeRemove DEF FinishStep

\* The bridge thread.
LEMMA TypeBridge ==
  ASSUME TypeOK, BridgeStep
  PROVE  TypeOK'
<1>0. JobTypes /\ BusTypes /\ WorkerTypes
  BY TypeParts
<1>1. UNCHANGED <<jobs, pc, ok, published, progress, polled, asking>>
  BY DEF BridgeStep, Recv, Accept, Displace, DropTelemetry, jobVars
<1>2. JobTypes' /\ WorkerTypes'
  BY <1>0, <1>1, WorkersQuiet DEF JobTypes
<1>3. /\ queue \in Seq(Events) /\ pending \in Seq(Events) /\ buf \in Seq(Events)
      /\ Len(queue) \in Nat /\ Len(pending) \in Nat /\ Len(buf) \in Nat
      /\ Len(queue) <= Capacity /\ Len(pending) <= 1 /\ Len(buf) <= MaxEvents
      /\ Capacity \in Nat /\ MaxEvents \in Nat
  BY <1>0, BusAssumption, LenProperties DEF BusTypes
<1>4. Len(<<>>) = 0 /\ <<>> \in Seq(Events)
  BY EmptySeq
<1>5. ASSUME Recv PROVE BusTypes'
  <2>1. Head(queue) \in Events /\ Tail(queue) \in Seq(Events) /\ Len(Tail(queue)) = Len(queue) - 1
    BY <1>3, <1>5, HeadTailProperties DEF Recv
  <2>2. <<Head(queue)>> \in Seq(Events) /\ Len(<<Head(queue)>>) = 1
    BY <2>1
  <2> QED BY <1>0, <1>1, <1>3, <1>5, <2>1, <2>2 DEF BusTypes, Recv
<1>6. ASSUME Accept PROVE BusTypes'
  <2>1. buf \o pending \in Seq(Events) /\ Len(buf \o pending) = Len(buf) + Len(pending)
    BY <1>3, ConcatProperties
  <2> QED BY <1>0, <1>1, <1>3, <1>4, <1>6, <2>1 DEF BusTypes, Accept
<1>7. ASSUME Displace PROVE BusTypes'
  <2> DEFINE rest == RemoveAt(buf, Telemetry)
  <2>1. Telemetry \in 1 .. Len(buf) /\ ~ is_critical(buf[Telemetry])
    BY <1>3, <1>7, TelemetryIs DEF Displace
  <2>2. rest \in Seq(Events) /\ Len(rest) = Len(buf) - 1
    <3>1. ~ Wanted(NoJob, buf[Telemetry])
      BY <2>1 DEF Wanted
    <3> QED BY <1>3, <2>1, <3>1, CriticalRemoved
  <2>3. rest \o pending \in Seq(Events) /\ Len(rest \o pending) = Len(rest) + Len(pending)
    BY <1>3, <2>2, ConcatProperties
  <2>4. buf' = rest \o pending /\ pending' = <<>> /\ queue' = queue
    BY <1>7 DEF Displace
  <2> HIDE DEF rest
  <2> QED BY <1>0, <1>1, <1>3, <1>4, <2>2, <2>3, <2>4 DEF BusTypes
<1>8. ASSUME DropTelemetry PROVE BusTypes'
  BY <1>0, <1>1, <1>3, <1>4, <1>8 DEF BusTypes, DropTelemetry
<1>9. BusTypes'
  BY <1>5, <1>6, <1>7, <1>8 DEF BridgeStep
<1> QED BY <1>2, <1>9 DEF TypeOK, JobTypes, BusTypes, WorkerTypes, Labels, Results

\* What Poll takes of the buffer and what it leaves.
LEMMA PollSplits ==
  ASSUME NEW s \in Seq(Events), NEW n \in 0 .. Len(s)
  PROVE  /\ SubSeq(s, 1, n) \in Seq(Events) /\ SubSeq(s, n + 1, Len(s)) \in Seq(Events)
         /\ Len(SubSeq(s, n + 1, Len(s))) <= Len(s)
         /\ s = SubSeq(s, 1, n) \o SubSeq(s, n + 1, Len(s))
<1>1. Len(s) \in Nat /\ \A i \in 1 .. Len(s) : s[i] \in Events
  BY LenProperties, ElementOfSeq
<1>2. SubSeq(s, 1, n) \in Seq(Events)
  <2>1. 1 \in Int /\ n \in Int /\ \A i \in 1 .. n : s[i] \in Events
    BY <1>1
  <2> QED BY <2>1, SubSeqProperties
<1>3. SubSeq(s, n + 1, Len(s)) \in Seq(Events) /\ Len(SubSeq(s, n + 1, Len(s))) <= Len(s)
  <2>1. n + 1 \in Int /\ Len(s) \in Int /\ \A i \in n + 1 .. Len(s) : s[i] \in Events
    BY <1>1
  <2>2. /\ SubSeq(s, n + 1, Len(s)) \in Seq(Events)
        /\ Len(SubSeq(s, n + 1, Len(s))) = IF n + 1 <= Len(s) THEN Len(s) - (n + 1) + 1 ELSE 0
    BY <2>1, SubSeqProperties
  <2> QED BY <1>1, <2>2
<1>4. s = SubSeq(s, 1, n) \o SubSeq(s, n + 1, Len(s))
  <2>1. 1 \in 1 .. Len(s) + 1 /\ n \in 1 - 1 .. Len(s) /\ Len(s) \in n .. Len(s)
    BY <1>1
  <2>2. SubSeq(s, 1, n) \o SubSeq(s, n + 1, Len(s)) = SubSeq(s, 1, Len(s))
    BY <2>1, ConcatAdjacentSubSeq
  <2> QED BY <2>2, SubSeqFull
<1> QED BY <1>2, <1>3, <1>4

\* The events one Poll returns.
Batch == IF Len(buf) < PollBatch THEN Len(buf) ELSE PollBatch

LEMMA BatchFits == ASSUME buf \in Seq(Events) PROVE Batch \in 0 .. Len(buf)
BY BusAssumption, LenProperties DEF Batch

LEMMA PollIs ==
  ASSUME Poll
  PROVE  /\ polled' = [j \in Jobs |-> polled[j] \o CriticalOf(j, SubSeq(buf, 1, Batch))]
         /\ buf' = SubSeq(buf, Batch + 1, Len(buf))
         /\ UNCHANGED <<jobs, pc, ok, published, progress, queue, pending, asking>>
BY DEF Poll, Batch, jobVars

LEMMA TypePoll ==
  ASSUME TypeOK, Poll
  PROVE  TypeOK'
<1>0. JobTypes /\ BusTypes /\ WorkerTypes
  BY TypeParts
<1>1. buf \in Seq(Events) /\ Batch \in 0 .. Len(buf) /\ Len(buf) \in Nat /\ MaxEvents \in Nat
  BY <1>0, BatchFits, LenProperties, BusAssumption DEF BusTypes
<1>2. JobTypes' /\ WorkerTypes'
  BY <1>0, PollIs, WorkersQuiet DEF JobTypes
<1> DEFINE a == SubSeq(buf, 1, Batch)
<1>3. a \in Seq(Events) /\ buf' \in Seq(Events) /\ Len(buf') <= Len(buf)
  BY <1>1, PollSplits, PollIs
<1>4. Len(buf') <= MaxEvents
  <2>1. Len(buf') \in Nat
    BY <1>3, LenProperties
  <2> QED BY <1>0, <1>1, <1>3, <2>1 DEF BusTypes
<1>5. polled' \in [Jobs -> Seq(Events)]
  <2>1. polled' = [j \in Jobs |-> polled[j] \o CriticalOf(j, a)]
    BY PollIs
  <2> HIDE DEF a
  <2>2. \A j \in Jobs : polled[j] \o CriticalOf(j, a) \in Seq(Events)
    BY <1>0, <1>3, CriticalType, ConcatProperties DEF BusTypes
  <2> QED BY <2>1, <2>2
<1>6. BusTypes'
  BY <1>0, <1>3, <1>4, <1>5, PollIs DEF BusTypes
<1> QED BY <1>2, <1>6 DEF TypeOK, JobTypes, BusTypes, WorkerTypes, Labels, Results

LEMMA TypeExpire ==
  ASSUME TypeOK, NEW j \in Jobs, Expire(j)
  PROVE  TypeOK'
<1>0. JobTypes /\ BusTypes /\ WorkerTypes
  BY TypeParts
<1>1. JobTypes'
  BY <1>0 DEF JobTypes, Expire, Results
<1>2. BusTypes'
  BY <1>0 DEF BusTypes, Expire, busVars
<1>3. WorkerTypes'
  BY <1>0, WorkersQuiet DEF Expire
<1> QED BY <1>1, <1>2, <1>3 DEF TypeOK, JobTypes, BusTypes, WorkerTypes, Labels, Results

LEMMA TypeGetJob ==
  ASSUME TypeOK, (\E j \in Jobs : GetJobRunning(j)) \/ GetJobFinished
  PROVE  TypeOK'
<1>0. JobTypes /\ BusTypes /\ WorkerTypes
  BY TypeParts
<1>1. JobTypes' /\ BusTypes'
  BY <1>0 DEF JobTypes, BusTypes, GetJobRunning, GetJobFinished, jobVars, busVars
<1>2. ASSUME NEW j \in Jobs, GetJobRunning(j) PROVE WorkerTypes'
  <2>1. Busy < Workers /\ asking = NoJob /\ asking' = j /\ pc' = pc /\ j # NoJob
    BY <1>2, BusAssumption DEF GetJobRunning, FreeWorker, jobVars
  <2>2. Busy' = Cardinality(InFinish(pc)) + 1 /\ Busy = Cardinality(InFinish(pc))
    <3>1. Busy' = Cardinality(InFinish(pc)) + (IF asking' = NoJob THEN 0 ELSE 1)
      BY <2>1 DEF Busy, InFinish
    <3> QED BY <2>1, <3>1, BusyIs, InFinishFinite
  <2>3. Cardinality(InFinish(pc)) \in Nat /\ Workers \in Nat
    BY InFinishFinite, BusAssumption
  <2>4. Busy' <= Workers
    BY <2>1, <2>2, <2>3
  <2> QED BY <2>1, <2>4 DEF WorkerTypes
<1>3. GetJobFinished => WorkerTypes'
  BY <1>0, WorkersQuiet DEF GetJobFinished, jobVars
<1> QED BY <1>1, <1>2, <1>3 DEF TypeOK, JobTypes, BusTypes, WorkerTypes, Labels, Results

LEMMA TypeNext ==
  ASSUME TypeOK, [Next]_vars
  PROVE  TypeOK'
<1>1. CASE UNCHANGED vars
  BY <1>1 DEF TypeOK, vars, Busy
<1>2. ASSUME NEW j \in Jobs,
             \/ RegisterJob(j) \/ SendProgress(j) \/ (\E success \in BOOLEAN : BodyEnds(j, success))
             \/ FinishStep(j) \/ Expire(j) \/ GetJobRunning(j)
      PROVE  TypeOK'
  BY <1>2, TypeRegister, TypeProgress, TypeBodyEnds, TypeFinishStep, TypeExpire, TypeGetJob
<1> QED BY <1>1, <1>2, TypeBridge, TypePoll, TypeGetJob DEF Next

LEMMA TypeInit ==
  ASSUME Init
  PROVE  TypeOK
<1>1. \A j \in Jobs : pc[j] \notin Finishing
  BY DEF Init, Finishing
<1>2. InFinish(pc) = {}
  BY <1>1, BusAssumption DEF InFinish
<1>3. Busy = 0
  BY <1>2, BusyIs, FS_EmptySet DEF Init
<1>4. Len(<<>>) = 0 /\ <<>> \in Seq(Events)
  BY EmptySeq
<1> QED BY <1>3, <1>4, BusAssumption DEF Init, TypeOK

\* Every variable keeps its type: the queue, the bridge and the buffer stay within their
\* capacities, and the finish_jobs of async jobs and the GetJobs in progress never occupy
\* more workers than the runtime has (event_bus.rs, server.rs).
THEOREM BusTypeCorrect == Spec => []TypeOK
<1>1. Init => TypeOK
  BY TypeInit
<1>2. TypeOK /\ [Next]_vars => TypeOK'
  BY TypeNext
<1> QED BY <1>1, <1>2, PTL DEF Spec

-----------------------------------------------------------------------------
(* A job and its entries in the two maps. *)

\* A job leaves the running ones only once it is done, its result has been
\* published when finish_job has passed that point, and only a failed one reports an error.
Followed ==
  \A j \in Jobs :
    /\ pc[j] \in {"running"} \cup Finishing => j \in jobs
    /\ pc[j] \notin {"new", "running", "publish"} => published[j] # "none"
    /\ pc[j] \in {"log", "message"} => ~ ok[j]

LEMMA FollowedGoto ==
  ASSUME TypeOK, Followed, NEW j \in Jobs, NEW l \in Labels, Goto(j, l),
         /\ l \in {"running"} \cup Finishing => j \in jobs'
         /\ l \notin {"new", "running", "publish"} => published'[j] # "none"
         /\ l \in {"log", "message"} => ~ ok'[j],
         \A k \in Jobs \ {j} :
           (k \in jobs => k \in jobs') /\ published'[k] = published[k] /\ ok'[k] = ok[k]
  PROVE  Followed'
<1>1. pc \in [Jobs -> Labels]
  BY DEF TypeOK, Labels
<1>2. pc'[j] = l /\ \A k \in Jobs \ {j} : pc'[k] = pc[k]
  BY <1>1, GotoKeeps
<1> QED BY <1>2 DEF Followed

LEMMA FollowedJob ==
  ASSUME TypeOK, Followed, NEW j \in Jobs,
         RegisterJob(j) \/ (\E success \in BOOLEAN : BodyEnds(j, success)) \/ FinishStep(j)
  PROVE  Followed'
<1>0. /\ ok \in [Jobs -> BOOLEAN] /\ published \in [Jobs -> Results]
      /\ pc[j] \in {"running"} \cup Finishing => j \in jobs
      /\ pc[j] \notin {"new", "running", "publish"} => published[j] # "none"
      /\ pc[j] \in {"log", "message"} => ~ ok[j]
  BY DEF TypeOK, Results, Followed
<1>1. CASE RegisterJob(j)
  <2>1. "running" \in Labels
    BY DEF Labels
  <2> QED BY <1>0, <1>1, <2>1, FollowedGoto DEF RegisterJob
<1>2. ASSUME NEW success \in BOOLEAN, BodyEnds(j, success) PROVE Followed'
  <2>1. "publish" \in Labels
    BY DEF Labels, Finishing
  <2> QED BY <1>0, <1>2, <2>1, FollowedGoto DEF BodyEnds
<1>3. CASE PublishResult(j)
  <2> DEFINE l == IF ok[j] THEN "finished" ELSE "log"
  <2>1. l \in Labels /\ pc[j] \in Finishing /\ l \in {"finished", "log"} /\ (l = "log" => ~ ok[j])
    BY <1>3 DEF Labels, Finishing, PublishResult
  <2>2. published'[j] # "none" /\ \A k \in Jobs \ {j} : published'[k] = published[k]
    BY <1>0, <1>3 DEF PublishResult
  <2>3. Goto(j, l) /\ jobs' = jobs /\ ok' = ok
    BY <1>3 DEF PublishResult
  <2> HIDE DEF l
  <2> QED BY <1>0, <2>1, <2>2, <2>3, FollowedGoto
<1>4. ASSUME NEW kind, NEW l \in {"message", "finished", "remove"}, Sends(j, kind, l),
             pc[j] \in {"log", "message", "finished"}, l = "message" => pc[j] = "log"
      PROVE  Followed'
  <2>1. l \in Labels /\ pc[j] \in Finishing
    BY <1>4 DEF Labels, Finishing
  <2>2. published[j] # "none" /\ (l \in {"log", "message"} => ~ ok[j]) /\ j \in jobs
    BY <1>0, <1>4, <2>1
  <2>3. Goto(j, l) /\ jobs' = jobs /\ ok' = ok /\ published' = published
    BY <1>4 DEF Sends
  <2> QED BY <2>1, <2>2, <2>3, FollowedGoto
<1>5. CASE SendLog(j) \/ SendMessage(j) \/ SendFinished(j)
  <2>1. (SendLog(j) => pc[j] = "log") /\ (SendMessage(j) => pc[j] = "message")
        /\ (SendFinished(j) => pc[j] = "finished")
    BY DEF SendLog, SendMessage, SendFinished
  <2>2. SendLog(j) => Followed'
    BY <1>4, <2>1, SendsAre
  <2>3. SendMessage(j) => Followed'
    BY <1>4, <2>1, SendsAre
  <2>4. SendFinished(j) => Followed'
    BY <1>4, <2>1, SendsAre
  <2> QED BY <1>5, <2>2, <2>3, <2>4
<1>6. CASE RemoveJob(j)
  <2>1. "done" \in Labels /\ "done" \notin {"running"} \cup Finishing
    BY DEF Labels, Finishing
  <2>2. /\ Goto(j, "done") /\ ok' = ok /\ published' = published /\ pc[j] = "remove"
        /\ jobs' = jobs \ {j}
    BY <1>6 DEF RemoveJob
  <2>3. published[j] # "none" /\ \A k \in Jobs \ {j} : k \in jobs => k \in jobs'
    BY <1>0, <2>2
  <2> QED BY <2>1, <2>2, <2>3, FollowedGoto
<1> QED BY <1>1, <1>2, <1>3, <1>5, <1>6 DEF FinishStep

LEMMA FollowedNext ==
  ASSUME TypeOK, Followed, [Next]_vars
  PROVE  Followed'
<1>1. ASSUME UNCHANGED <<jobs, pc, ok, published>> PROVE Followed'
  BY <1>1 DEF Followed
<1>2. \A j \in Jobs : SendProgress(j) \/ GetJobRunning(j) => UNCHANGED <<jobs, pc, ok, published>>
  BY DEF SendProgress, GetJobRunning, jobVars
<1>3. BridgeStep \/ Poll \/ GetJobFinished \/ UNCHANGED vars => UNCHANGED <<jobs, pc, ok, published>>
  BY DEF BridgeStep, Recv, Accept, Displace, DropTelemetry, Poll, GetJobFinished, vars, jobVars
<1>4. ASSUME NEW j \in Jobs, Expire(j) PROVE Followed'
  <2>1. published'[j] = "expired" /\ \A k \in Jobs \ {j} : published'[k] = published[k]
    BY <1>4 DEF Expire, TypeOK
  <2>2. UNCHANGED <<jobs, pc, ok>>
    BY <1>4 DEF Expire
  <2> QED BY <2>1, <2>2 DEF Followed
<1> QED BY <1>1, <1>2, <1>3, <1>4, FollowedJob DEF Next

LEMMA NoGapNext ==
  ASSUME TypeOK, Followed, GetJobSeesNoGap, [Next]_vars
  PROVE  GetJobSeesNoGap'
<1>1. \A j \in Jobs : published[j] # "none" => published'[j] # "none"
  BY DEF Next, vars, TypeOK, RegisterJob, SendProgress, BodyEnds, FinishStep, PublishResult, SendLog,
         SendMessage, SendFinished, RemoveJob, Expire, GetJobRunning, BridgeStep, Recv, Accept, Displace,
         DropTelemetry, Poll, GetJobFinished, jobVars
<1>2. ASSUME NEW j \in Jobs, GetJobRunning(j) PROVE GetJobSeesNoGap'
  <2>1. pc[j] # "new" /\ j \notin jobs /\ asking' = j /\ published' = published
    BY <1>2 DEF GetJobRunning, jobVars
  <2>2. pc[j] \notin {"new", "running", "publish"}
    BY <2>1 DEF Followed, Finishing
  <2> QED BY <2>1, <2>2 DEF Followed, GetJobSeesNoGap
<1>3. ASSUME asking' \in {asking, NoJob} PROVE GetJobSeesNoGap'
  BY <1>1, <1>3 DEF GetJobSeesNoGap, TypeOK
<1>4. ASSUME NEW j \in Jobs,
             \/ RegisterJob(j) \/ SendProgress(j) \/ (\E success \in BOOLEAN : BodyEnds(j, success))
             \/ FinishStep(j) \/ Expire(j)
      PROVE  asking' = asking
  BY <1>4 DEF RegisterJob, SendProgress, BodyEnds, FinishStep, PublishResult, SendLog,
         SendMessage, SendFinished, RemoveJob, Expire
<1>5. BridgeStep \/ Poll \/ GetJobFinished \/ UNCHANGED vars => asking' \in {asking, NoJob}
  BY DEF BridgeStep, Recv, Accept, Displace, DropTelemetry, Poll, GetJobFinished, vars
<1> QED BY <1>2, <1>3, <1>4, <1>5 DEF Next

\* GetJob never sees a gap: a job GetJob does not find among the running ones has its
\* result published before GetJob looks there, whatever happens between its two lookups
\* (server.rs get_job and finish_job).
THEOREM NoGapEver == Spec => []GetJobSeesNoGap
<1>1. Init => TypeOK /\ Followed /\ GetJobSeesNoGap
  BY TypeInit DEF Init, Followed, GetJobSeesNoGap, Finishing
<1>2. TypeOK /\ Followed /\ GetJobSeesNoGap /\ [Next]_vars => (TypeOK /\ Followed /\ GetJobSeesNoGap)'
  BY TypeNext, FollowedNext, NoGapNext
<1> QED BY <1>1, <1>2, PTL DEF Spec

-----------------------------------------------------------------------------
(* What a job has sent. *)

KindsOf(o) == IF o THEN <<"finished">> ELSE <<"log", "message", "finished">>
LeftAt(o, p) ==
  CASE p = "log" -> 3
    [] p = "message" -> 2
    [] p = "finished" -> 1
    [] p \in {"remove", "done"} -> 0
    [] OTHER -> Len(KindsOf(o))

\* The first k events of a job whose result is o, and those it has sent at p.
First(j, o, k) == [n \in 1 .. k |-> [job |-> j, kind |-> KindsOf(o)[n]]]
SentOf(j, o, p) == First(j, o, Len(KindsOf(o)) - LeftAt(o, p))

LEMMA SentIs == ASSUME NEW j \in Jobs PROVE Sent(j) = SentOf(j, ok[j], pc[j])
BY DEF Sent, SentOf, First, KindsOf, LeftAt

LEMMA KindsAre ==
  ASSUME NEW o \in BOOLEAN
  PROVE  /\ o => Len(KindsOf(o)) = 1 /\ KindsOf(o)[1] = "finished"
         /\ ~ o => /\ Len(KindsOf(o)) = 3 /\ KindsOf(o)[1] = "log"
                   /\ KindsOf(o)[2] = "message" /\ KindsOf(o)[3] = "finished"
BY DEF KindsOf

LEMMA FirstType ==
  ASSUME NEW j \in Jobs, NEW o \in BOOLEAN, NEW k \in Nat, k <= Len(KindsOf(o))
  PROVE  First(j, o, k) \in Seq(Events) /\ Len(First(j, o, k)) = k
<1>1. \A n \in 1 .. k : KindsOf(o)[n] \in Kinds
  BY KindsAre DEF Kinds
<1>2. First(j, o, k) \in [1 .. k -> Events]
  BY <1>1 DEF First, Events
<1> QED BY <1>2, SeqDef

LEMMA FirstGrows ==
  ASSUME NEW j \in Jobs, NEW o \in BOOLEAN, NEW k \in Nat, k + 1 <= Len(KindsOf(o))
  PROVE  First(j, o, k + 1) = Append(First(j, o, k), [job |-> j, kind |-> KindsOf(o)[k + 1]])
<1> DEFINE e == [job |-> j, kind |-> KindsOf(o)[k + 1]]
           s == First(j, o, k)
           t == First(j, o, k + 1)
<1>1. Len(KindsOf(o)) \in Nat
  BY KindsAre
<1>2. s \in Seq(Events) /\ Len(s) = k /\ t \in Seq(Events) /\ Len(t) = k + 1
  BY <1>1, FirstType
<1>3. e = t[k + 1] /\ \A n \in 1 .. k : t[n] = s[n]
  BY DEF First
<1>4. e \in Events
  BY <1>2, <1>3, ElementOfSeq
<1> HIDE DEF e, s, t
<1>5. /\ Append(s, e) \in Seq(Events) /\ Len(Append(s, e)) = k + 1
      /\ (\A n \in 1 .. k : Append(s, e)[n] = s[n]) /\ Append(s, e)[k + 1] = e
  BY <1>2, <1>4, AppendProperties
<1>6. \A n \in 1 .. k + 1 : t[n] = Append(s, e)[n]
  BY <1>3, <1>5
<1>7. t = Append(s, e)
  BY <1>2, <1>5, <1>6, SeqEqual
<1> QED BY <1>7 DEF e, s, t

LEMMA FirstNone ==
  ASSUME NEW j \in Jobs, NEW o \in BOOLEAN
  PROVE  First(j, o, 0) = <<>>
<1>1. Len(KindsOf(o)) \in Nat
  BY KindsAre
<1>2. First(j, o, 0) \in Seq(Events) /\ Len(First(j, o, 0)) = 0
  BY <1>1, FirstType
<1> QED BY <1>2, EmptySeq

\* How it grows as the job goes through finish_job.
LEMMA SentSteps ==
  ASSUME NEW j \in Jobs, NEW o \in BOOLEAN
  PROVE  /\ \A p \in {"new", "running", "publish"} : SentOf(j, o, p) = <<>>
         /\ o => SentOf(j, o, "finished") = <<>>
         /\ ~ o => /\ SentOf(j, o, "log") = <<>>
                   /\ SentOf(j, o, "message") = Append(SentOf(j, o, "log"), [job |-> j, kind |-> "log"])
                   /\ SentOf(j, o, "finished") =
                        Append(SentOf(j, o, "message"), [job |-> j, kind |-> "message"])
         /\ SentOf(j, o, "remove") = Append(SentOf(j, o, "finished"), [job |-> j, kind |-> "finished"])
         /\ SentOf(j, o, "done") = SentOf(j, o, "remove")
<1>1. \A p \in {"new", "running", "publish"} : LeftAt(o, p) = Len(KindsOf(o))
  BY DEF LeftAt
<1>2. /\ LeftAt(o, "log") = 3 /\ LeftAt(o, "message") = 2 /\ LeftAt(o, "finished") = 1
      /\ LeftAt(o, "remove") = 0 /\ LeftAt(o, "done") = 0
  BY DEF LeftAt
<1>3. \A p \in {"new", "running", "publish"} : SentOf(j, o, p) = <<>>
  BY <1>1, KindsAre, FirstNone DEF SentOf
<1>4. SentOf(j, o, "done") = SentOf(j, o, "remove")
  BY <1>2 DEF SentOf
<1>5. CASE o
  <2>0. Len(KindsOf(o)) = 1 /\ KindsOf(o)[1] = "finished"
    BY <1>5, KindsAre
  <2>1. SentOf(j, o, "finished") = First(j, o, 0) /\ SentOf(j, o, "remove") = First(j, o, 1)
    <3>1. Len(KindsOf(o)) - LeftAt(o, "finished") = 0 /\ Len(KindsOf(o)) - LeftAt(o, "remove") = 1
      BY <1>2, <2>0
    <3> QED BY <3>1 DEF SentOf
  <2>2. First(j, o, 0 + 1) = Append(First(j, o, 0), [job |-> j, kind |-> KindsOf(o)[0 + 1]])
    <3>1. 0 \in Nat /\ 0 + 1 <= Len(KindsOf(o))
      BY <2>0
    <3> QED BY <3>1, FirstGrows
  <2>3. 0 + 1 = 1
    OBVIOUS
  <2> QED BY <1>3, <1>4, <1>5, <2>0, <2>1, <2>2, <2>3, FirstNone
<1>6. CASE ~ o
  <2>1. /\ SentOf(j, o, "log") = First(j, o, 0) /\ SentOf(j, o, "message") = First(j, o, 1)
        /\ SentOf(j, o, "finished") = First(j, o, 2) /\ SentOf(j, o, "remove") = First(j, o, 3)
    <3>1. Len(KindsOf(o)) = 3
      BY <1>6, KindsAre
    <3>2. /\ Len(KindsOf(o)) - LeftAt(o, "log") = 0 /\ Len(KindsOf(o)) - LeftAt(o, "message") = 1
          /\ Len(KindsOf(o)) - LeftAt(o, "finished") = 2 /\ Len(KindsOf(o)) - LeftAt(o, "remove") = 3
      BY <1>2, <3>1
    <3> QED BY <3>2 DEF SentOf
  <2>2. \A k \in 0 .. 2 :
          First(j, o, k + 1) = Append(First(j, o, k), [job |-> j, kind |-> KindsOf(o)[k + 1]])
    <3>1. \A k \in 0 .. 2 : k \in Nat /\ k + 1 <= Len(KindsOf(o))
      BY <1>6, KindsAre
    <3> QED BY <3>1, FirstGrows
  <2>3. /\ First(j, o, 1) = Append(First(j, o, 0), [job |-> j, kind |-> KindsOf(o)[1]])
        /\ First(j, o, 2) = Append(First(j, o, 1), [job |-> j, kind |-> KindsOf(o)[2]])
        /\ First(j, o, 3) = Append(First(j, o, 2), [job |-> j, kind |-> KindsOf(o)[3]])
    <3>1. 0 + 1 = 1 /\ 1 + 1 = 2 /\ 2 + 1 = 3 /\ 0 \in 0 .. 2 /\ 1 \in 0 .. 2 /\ 2 \in 0 .. 2
      OBVIOUS
    <3> QED BY <2>2, <3>1
  <2> QED BY <1>3, <1>4, <1>6, <2>1, <2>3, KindsAre, FirstNone
<1> QED BY <1>5, <1>6

-----------------------------------------------------------------------------
(* No critical event is lost, duplicated or reordered. *)

\* A buffer b, a bridge p and a queue q, and the events of job j they hold.
Transit(b, p, q) == b \o p \o q
Before(j, b, p) == CriticalOf(j, b) \o CriticalOf(j, p)

LEMMA TransitIs == InTransit = Transit(buf, pending, queue) /\ InTransit' = Transit(buf', pending', queue')
BY DEF InTransit, Transit

LEMMA CriticalThree ==
  ASSUME NEW j, NEW a \in Seq(Events), NEW b \in Seq(Events), NEW c \in Seq(Events)
  PROVE  /\ CriticalOf(j, Transit(a, b, c)) = Before(j, a, b) \o CriticalOf(j, c)
         /\ Before(j, a, b) \in Seq(Events) /\ CriticalOf(j, c) \in Seq(Events)
<1>1. a \o b \in Seq(Events)
  BY ConcatProperties
<1>2. CriticalOf(j, Transit(a, b, c)) = CriticalOf(j, a \o b) \o CriticalOf(j, c)
  BY <1>1, CriticalConcat DEF Transit
<1>3. CriticalOf(j, a \o b) = Before(j, a, b)
  BY CriticalConcat DEF Before
<1>4. Before(j, a, b) \in Seq(Events)
  BY <1>1, <1>3, CriticalType
<1> QED BY <1>2, <1>3, <1>4, CriticalType

\* What is on its way, before a step and after it.
LEMMA Held ==
  ASSUME NEW j, buf \in Seq(Events), pending \in Seq(Events), queue \in Seq(Events)
  PROVE  /\ CriticalOf(j, InTransit) = Before(j, buf, pending) \o CriticalOf(j, queue)
         /\ Before(j, buf, pending) \in Seq(Events) /\ CriticalOf(j, queue) \in Seq(Events)
<1>1. /\ CriticalOf(j, Transit(buf, pending, queue)) = Before(j, buf, pending) \o CriticalOf(j, queue)
      /\ Before(j, buf, pending) \in Seq(Events) /\ CriticalOf(j, queue) \in Seq(Events)
  BY CriticalThree
<1> QED BY <1>1, TransitIs

LEMMA HeldNext ==
  ASSUME NEW j, buf' \in Seq(Events), pending' \in Seq(Events), queue' \in Seq(Events)
  PROVE  CriticalOf(j, InTransit') = Before(j, buf', pending') \o CriticalOf(j, queue')
<1>1. /\ CriticalOf(j, Transit(buf', pending', queue')) = Before(j, buf', pending') \o CriticalOf(j, queue')
      /\ Before(j, buf', pending') \in Seq(Events) /\ CriticalOf(j, queue') \in Seq(Events)
  BY CriticalThree
<1> QED BY <1>1, TransitIs

\* A step that changes neither what a job has sent nor what is on its way.
LEMMA KeptQuiet ==
  ASSUME CriticalKept, polled' = polled,
         \A j \in Jobs : CriticalOf(j, InTransit') = CriticalOf(j, InTransit),
         \A j \in Jobs : SentOf(j, ok'[j], pc'[j]) = SentOf(j, ok[j], pc[j])
  PROVE  CriticalKept'
<1> SUFFICES ASSUME NEW j \in Jobs
             PROVE  polled'[j] \o CriticalOf(j, InTransit') = Sent(j)'
  BY DEF CriticalKept, CriticalOf, is_critical
<1>1. Sent(j)' = SentOf(j, ok'[j], pc'[j]) /\ Sent(j) = SentOf(j, ok[j], pc[j])
  BY DEF Sent, SentOf, First, KindsOf, LeftAt
<1> QED BY <1>1 DEF CriticalKept

\* Steps of a job that send nothing critical.
LEMMA KeptJob ==
  ASSUME TypeOK, Followed, CriticalKept, NEW j \in Jobs,
         \/ RegisterJob(j) \/ (\E success \in BOOLEAN : BodyEnds(j, success))
         \/ PublishResult(j) \/ RemoveJob(j)
  PROVE  CriticalKept'
<1>0. pc \in [Jobs -> Labels] /\ ok \in [Jobs -> BOOLEAN]
  BY DEF TypeOK, Labels
<1>1. polled' = polled /\ InTransit' = InTransit
  BY DEF RegisterJob, BodyEnds, PublishResult, RemoveJob, busVars, InTransit
<1>2. \A k \in Jobs \ {j} : pc'[k] = pc[k] /\ ok'[k] = ok[k]
  BY <1>0 DEF RegisterJob, BodyEnds, PublishResult, RemoveJob, Goto
<1>3. ok'[j] \in BOOLEAN /\ ok[j] \in BOOLEAN
  BY <1>0 DEF RegisterJob, BodyEnds, PublishResult, RemoveJob
<1>4. \/ pc[j] \in {"new", "running", "publish"} /\ pc'[j] \in {"new", "running", "publish"}
      \/ pc[j] = "publish" /\ ok'[j] = ok[j] /\ pc'[j] = IF ok[j] THEN "finished" ELSE "log"
      \/ pc[j] = "remove" /\ ok'[j] = ok[j] /\ pc'[j] = "done"
  BY <1>0 DEF RegisterJob, BodyEnds, PublishResult, RemoveJob, Goto
<1>5. SentOf(j, ok'[j], pc'[j]) = SentOf(j, ok[j], pc[j])
  <2>1. CASE pc[j] \in {"new", "running", "publish"} /\ pc'[j] \in {"new", "running", "publish"}
    BY <1>3, <2>1, SentSteps
  <2>2. CASE pc[j] = "publish" /\ ok'[j] = ok[j] /\ pc'[j] = IF ok[j] THEN "finished" ELSE "log"
    BY <1>3, <2>2, SentSteps
  <2>3. CASE pc[j] = "remove" /\ ok'[j] = ok[j] /\ pc'[j] = "done"
    BY <1>3, <2>3, SentSteps
  <2> QED BY <1>4, <2>1, <2>2, <2>3
<1> QED BY <1>1, <1>2, <1>5, KeptQuiet

\* Progress.
LEMMA KeptProgress ==
  ASSUME TypeOK, CriticalKept, NEW j \in Jobs, SendProgress(j)
  PROVE  CriticalKept'
<1> DEFINE e == [job |-> j, kind |-> "progress"]
<1>0. queue \in Seq(Events) /\ pending \in Seq(Events) /\ buf \in Seq(Events)
  BY DEF TypeOK
<1>1. e \in Events /\ \A k : ~ Wanted(k, e)
  BY DEF Events, Kinds, Wanted, is_critical
<1>2. queue' \in {queue, Append(queue, e)} /\ UNCHANGED <<pc, ok, pending, buf, polled>>
  BY DEF SendProgress, TrySend
<1> HIDE DEF e
<1>3. queue' \in Seq(Events)
  BY <1>0, <1>1, <1>2, AppendProperties
<1>4. ASSUME NEW k \in Jobs PROVE CriticalOf(k, InTransit') = CriticalOf(k, InTransit)
  <2>1. CriticalOf(k, queue') = CriticalOf(k, queue)
    BY <1>0, <1>1, <1>2, CriticalAppend
  <2>2. CriticalOf(k, InTransit) = Before(k, buf, pending) \o CriticalOf(k, queue)
    BY <1>0, Held
  <2>3. CriticalOf(k, InTransit') = Before(k, buf, pending) \o CriticalOf(k, queue')
    BY <1>0, <1>2, <1>3, HeldNext
  <2> QED BY <2>1, <2>2, <2>3
<1> QED BY <1>2, <1>4, KeptQuiet

\* A critical event enters the queue.
LEMMA KeptSends ==
  ASSUME TypeOK, CriticalKept, NEW j \in Jobs, NEW kind \in Kinds \ {"progress"}, NEW l \in Labels,
         Sends(j, kind, l),
         SentOf(j, ok[j], l) = Append(SentOf(j, ok[j], pc[j]), [job |-> j, kind |-> kind])
  PROVE  CriticalKept'
<1> DEFINE e == [job |-> j, kind |-> kind]
<1>0. /\ queue \in Seq(Events) /\ pending \in Seq(Events) /\ buf \in Seq(Events)
      /\ pc \in [Jobs -> Labels] /\ polled \in [Jobs -> Seq(Events)]
  BY DEF TypeOK, Labels
<1>1. e \in Events /\ \A k : Wanted(k, e) <=> k = j
  BY DEF Events, Kinds, Wanted, is_critical
<1>2. queue' = Append(queue, e) /\ UNCHANGED <<ok, pending, buf, polled>>
  BY DEF Sends, SendCritical
<1>3. pc'[j] = l /\ \A k \in Jobs \ {j} : pc'[k] = pc[k]
  BY <1>0, GotoKeeps DEF Sends
<1>4. SentOf(j, ok[j], l) = Append(SentOf(j, ok[j], pc[j]), e)
  OBVIOUS
<1> HIDE DEF e
<1>5. queue' \in Seq(Events)
  BY <1>0, <1>1, <1>2, AppendProperties
<1> SUFFICES ASSUME NEW k \in Jobs
             PROVE  polled[k] \o CriticalOf(k, InTransit') = SentOf(k, ok[k], pc'[k])
  <2>1. \A k \in Jobs : Sent(k)' = SentOf(k, ok'[k], pc'[k])
    BY DEF Sent, SentOf, First, KindsOf, LeftAt
  <2> QED BY <1>2, <2>1 DEF CriticalKept, CriticalOf, is_critical
<1> DEFINE a == Before(k, buf, pending)
           q == CriticalOf(k, queue)
           z == a \o q
<1>6. CriticalOf(k, InTransit') = a \o CriticalOf(k, queue')
  BY <1>0, <1>2, <1>5, HeldNext
<1>7. CriticalOf(k, InTransit) = z /\ a \in Seq(Events) /\ q \in Seq(Events)
  BY <1>0, Held
<1>8. CriticalOf(k, queue') = IF k = j THEN Append(q, e) ELSE q
  BY <1>0, <1>1, <1>2, CriticalAppend
<1> HIDE DEF a, q
<1>9. z \in Seq(Events) /\ a \o Append(q, e) = Append(z, e)
  BY <1>1, <1>7, AppendConcat, ConcatProperties
<1>a. z = a \o q
  OBVIOUS
<1> HIDE DEF z
<1>b. polled[k] \o z = SentOf(k, ok[k], pc[k]) /\ polled[k] \in Seq(Events)
  BY <1>0, <1>7, SentIs DEF CriticalKept
<1>10. CASE k = j
  <2> DEFINE w == polled[k]
  <2>0. w \in Seq(Events)
    BY <1>b
  <2> HIDE DEF w
  <2>1. w \o Append(z, e) = Append(w \o z, e)
    BY <1>1, <1>9, <2>0, AppendConcat
  <2> QED BY <1>3, <1>4, <1>6, <1>8, <1>9, <1>10, <1>b, <2>1 DEF w
<1>11. CASE k # j
  BY <1>3, <1>6, <1>8, <1>a, <1>b, <1>11
<1> QED BY <1>10, <1>11

\* The bridge empty, and its event added to the buffer.
LEMMA BeforeMoves ==
  ASSUME NEW j, NEW a \in Seq(Events), NEW p \in Seq(Events)
  PROVE  Before(j, a, <<>>) = CriticalOf(j, a) /\ Before(j, a \o p, <<>>) = Before(j, a, p)
<1>1. a \o p \in Seq(Events)
  BY ConcatProperties
<1>2. CriticalOf(j, a) \in Seq(Events) /\ CriticalOf(j, a \o p) \in Seq(Events)
  BY <1>1, CriticalType
<1>3. CriticalOf(j, a) \o <<>> = CriticalOf(j, a) /\ CriticalOf(j, a \o p) \o <<>> = CriticalOf(j, a \o p)
  BY <1>2, ConcatEmptySeq
<1> QED BY <1>3, CriticalEmpty, CriticalConcat DEF Before

\* The first event of a queue.
LEMMA CriticalHead ==
  ASSUME NEW j, NEW q \in Seq(Events), q # <<>>
  PROVE  /\ <<Head(q)>> \in Seq(Events) /\ Tail(q) \in Seq(Events)
         /\ CriticalOf(j, q) = CriticalOf(j, <<Head(q)>>) \o CriticalOf(j, Tail(q))
<1>1. Head(q) \in Events /\ Tail(q) \in Seq(Events)
  BY HeadTailProperties
<1>2. <<Head(q)>> \in Seq(Events)
  BY <1>1
<1>3. q = <<Head(q)>> \o Tail(q)
  <2>1. Len(q) \in Nat \ {0}
    BY EmptySeq
  <2>2. 1 \in 1 .. Len(q) /\ Len(q) \in 1 .. Len(q) /\ 1 + 1 = 2
    BY <2>1
  <2>3. SubSeq(q, 1, Len(q)) = <<q[1]>> \o SubSeq(q, 1 + 1, Len(q))
    BY <2>2, SubSeqRecursiveFirst
  <2>4. SubSeq(q, 1, Len(q)) = q /\ Tail(q) = SubSeq(q, 2, Len(q)) /\ Head(q) = q[1]
    BY SubSeqFull, TailIsSubSeq
  <2> QED BY <2>2, <2>3, <2>4
<1> DEFINE h == <<Head(q)>>
           t == Tail(q)
<1>4. h \in Seq(Events) /\ t \in Seq(Events) /\ q = h \o t
  BY <1>1, <1>2, <1>3
<1>5. CriticalOf(j, h \o t) = CriticalOf(j, h) \o CriticalOf(j, t)
  <2> HIDE DEF h, t
  <2> QED BY <1>4, CriticalConcat
<1> QED BY <1>1, <1>2, <1>4, <1>5

\* Concatenation under a name of its own, so that the provers leave its nesting alone.
Joined(s, t) == s \o t

LEMMA JoinedLaws ==
  ASSUME NEW s \in Seq(Events), NEW t \in Seq(Events)
  PROVE  /\ Joined(s, t) \in Seq(Events)
         /\ \A u \in Seq(Events) : Joined(Joined(s, t), u) = Joined(s, Joined(t, u))
BY ConcatProperties, ConcatAssociative DEF Joined

LEMMA RecvMoves ==
  ASSUME NEW j, NEW b \in Seq(Events), NEW q \in Seq(Events), q # <<>>
  PROVE  Before(j, b, <<Head(q)>>) \o CriticalOf(j, Tail(q)) = Before(j, b, <<>>) \o CriticalOf(j, q)
<1> DEFINE x == CriticalOf(j, b)
           y == CriticalOf(j, <<Head(q)>>)
           z == CriticalOf(j, Tail(q))
<1>1. CriticalOf(j, q) = y \o z /\ Before(j, b, <<Head(q)>>) = x \o y /\ Before(j, b, <<>>) = x
  BY CriticalHead, BeforeMoves DEF Before
<1>2. x \in Seq(Events) /\ y \in Seq(Events) /\ z \in Seq(Events)
  BY CriticalHead, CriticalType
<1>3. Joined(Joined(x, y), z) = Joined(x, Joined(y, z))
  <2> HIDE DEF x, y, z
  <2> QED BY <1>2, JoinedLaws
<1> QED BY <1>1, <1>3 DEF Joined

LEMMA KeptBridge ==
  ASSUME TypeOK, CriticalKept, TypeOK', BridgeStep
  PROVE  CriticalKept'
<1>0. /\ queue \in Seq(Events) /\ pending \in Seq(Events) /\ buf \in Seq(Events)
      /\ queue' \in Seq(Events) /\ pending' \in Seq(Events) /\ buf' \in Seq(Events)
      /\ Len(pending) <= 1
  BY DEF TypeOK
<1>1. UNCHANGED <<pc, ok, polled>>
  BY DEF BridgeStep, Recv, Accept, Displace, DropTelemetry, jobVars
<1>2. ASSUME NEW j \in Jobs
      PROVE  Before(j, buf', pending') \o CriticalOf(j, queue') = Before(j, buf, pending) \o CriticalOf(j, queue)
  <2>1. CASE Recv
    <3>1. /\ pending = <<>> /\ queue # <<>> /\ pending' = <<Head(queue)>> /\ queue' = Tail(queue)
          /\ buf' = buf
      BY <2>1 DEF Recv
    <3>2. Before(j, buf, <<Head(queue)>>) \o CriticalOf(j, Tail(queue)) = Before(j, buf, <<>>) \o CriticalOf(j, queue)
      BY <1>0, <3>1, RecvMoves
    <3> QED BY <3>1, <3>2
  <2>2. CASE Accept
    <3>1. Before(j, buf \o pending, <<>>) = Before(j, buf, pending)
      BY <1>0, BeforeMoves
    <3> QED BY <2>2, <3>1 DEF Accept
  <2>3. CASE Displace
    <3> DEFINE rest == RemoveAt(buf, Telemetry)
    <3>1. Telemetry \in 1 .. Len(buf) /\ ~ Wanted(j, buf[Telemetry])
      BY <1>0, <2>3, TelemetryIs DEF Displace, Wanted
    <3>2. rest \in Seq(Events) /\ CriticalOf(j, rest) = CriticalOf(j, buf)
      BY <1>0, <3>1, CriticalRemoved
    <3>3. buf' = rest \o pending /\ pending' = <<>> /\ queue' = queue
      BY <2>3 DEF Displace
    <3> HIDE DEF rest
    <3>4. Before(j, rest \o pending, <<>>) = Before(j, rest, pending)
      BY <1>0, <3>2, BeforeMoves
    <3> QED BY <3>2, <3>3, <3>4 DEF Before
  <2>4. CASE DropTelemetry
    <3>1. pending # <<>> /\ ~ is_critical(Head(pending)) /\ pending' = <<>> /\ buf' = buf /\ queue' = queue
      BY <2>4 DEF DropTelemetry
    <3>2. Head(pending) \in Events /\ Tail(pending) \in Seq(Events) /\ Len(Tail(pending)) = Len(pending) - 1
      BY <1>0, <3>1, HeadTailProperties
    <3>3. Tail(pending) = <<>>
      <4>1. Len(pending) \in Nat /\ Len(Tail(pending)) \in Nat
        BY <1>0, <3>2, LenProperties
      <4>2. Len(Tail(pending)) = 0
        BY <1>0, <3>2, <4>1
      <4> QED BY <3>2, <4>2, EmptySeq
    <3>4. CriticalOf(j, <<Head(pending)>>) = <<>>
      BY <3>1, <3>2, CriticalOne DEF Wanted
    <3>5. CriticalOf(j, pending) = CriticalOf(j, <<Head(pending)>>) \o CriticalOf(j, Tail(pending))
      BY <1>0, <3>1, CriticalHead
    <3>6. CriticalOf(j, pending) = <<>>
      <4>1. <<>> \o <<>> = <<>>
        BY EmptySeq, ConcatEmptySeq
      <4> QED BY <3>3, <3>4, <3>5, <4>1, CriticalEmpty
    <3>7. Before(j, buf, <<>>) = Before(j, buf, pending)
      BY <3>6, CriticalEmpty DEF Before
    <3> QED BY <3>1, <3>7
  <2> QED BY <2>1, <2>2, <2>3, <2>4 DEF BridgeStep
<1>3. \A j \in Jobs : CriticalOf(j, InTransit') = CriticalOf(j, InTransit)
  BY <1>0, <1>2, Held, HeldNext
<1> QED BY <1>1, <1>3, KeptQuiet

LEMMA PollMoves ==
  ASSUME NEW w \in Seq(Events), NEW a \in Seq(Events), NEW b \in Seq(Events), NEW p \in Seq(Events),
         NEW q \in Seq(Events)
  PROVE  Joined(Joined(w, a), Joined(Joined(b, p), q)) = Joined(w, Joined(Joined(Joined(a, b), p), q))
<1>1. Joined(Joined(a, b), p) = Joined(a, Joined(b, p)) /\ Joined(b, p) \in Seq(Events)
  BY JoinedLaws
<1>2. /\ Joined(Joined(a, Joined(b, p)), q) = Joined(a, Joined(Joined(b, p), q))
      /\ Joined(Joined(b, p), q) \in Seq(Events)
  BY <1>1, JoinedLaws
<1>3. Joined(Joined(w, a), Joined(Joined(b, p), q)) = Joined(w, Joined(a, Joined(Joined(b, p), q)))
  BY <1>2, JoinedLaws
<1> QED BY <1>1, <1>2, <1>3

LEMMA KeptPoll ==
  ASSUME TypeOK, CriticalKept, TypeOK', Poll
  PROVE  CriticalKept'
<1>0. /\ queue \in Seq(Events) /\ pending \in Seq(Events) /\ buf \in Seq(Events)
      /\ polled \in [Jobs -> Seq(Events)] /\ buf' \in Seq(Events)
  BY DEF TypeOK
<1>1. /\ polled' = [j \in Jobs |-> polled[j] \o CriticalOf(j, SubSeq(buf, 1, Batch))]
      /\ buf' = SubSeq(buf, Batch + 1, Len(buf)) /\ UNCHANGED <<pc, ok, queue, pending>>
  BY PollIs
<1> SUFFICES ASSUME NEW j \in Jobs
             PROVE  polled'[j] \o CriticalOf(j, InTransit') = SentOf(j, ok[j], pc[j])
  <2>1. \A k \in Jobs : Sent(k)' = SentOf(k, ok'[k], pc'[k])
    BY DEF Sent, SentOf, First, KindsOf, LeftAt
  <2> QED BY <1>1, <2>1 DEF CriticalKept, CriticalOf, is_critical
<1> DEFINE w == polled[j]
           a == CriticalOf(j, SubSeq(buf, 1, Batch))
           b == CriticalOf(j, buf')
           p == CriticalOf(j, pending)
           q == CriticalOf(j, queue)
<1>2. /\ SubSeq(buf, 1, Batch) \in Seq(Events)
      /\ buf = SubSeq(buf, 1, Batch) \o SubSeq(buf, Batch + 1, Len(buf))
  BY <1>0, BatchFits, PollSplits
<1>3. CriticalOf(j, buf) = a \o b
  <2> DEFINE s == SubSeq(buf, 1, Batch)
             t == SubSeq(buf, Batch + 1, Len(buf))
  <2>1. buf = s \o t /\ s \in Seq(Events) /\ t \in Seq(Events)
    BY <1>0, <1>1, <1>2
  <2>2. CriticalOf(j, s \o t) = CriticalOf(j, s) \o CriticalOf(j, t)
    <3> HIDE DEF s, t
    <3> QED BY <2>1, CriticalConcat
  <2> QED BY <1>1, <2>1, <2>2
<1>4. w \in Seq(Events) /\ a \in Seq(Events) /\ b \in Seq(Events) /\ p \in Seq(Events) /\ q \in Seq(Events)
  BY <1>0, <1>2, CriticalType
<1>5. /\ CriticalOf(j, InTransit) = Joined(Before(j, buf, pending), q)
      /\ Before(j, buf, pending) = Joined(CriticalOf(j, buf), p) /\ CriticalOf(j, buf) = Joined(a, b)
  BY <1>0, <1>3, Held DEF Before, Joined
<1>6. CriticalOf(j, InTransit') = Joined(Before(j, buf', pending), q) /\ Before(j, buf', pending) = Joined(b, p)
  BY <1>0, <1>1, HeldNext DEF Before, Joined
<1>7. polled'[j] = Joined(w, a) /\ Joined(w, CriticalOf(j, InTransit)) = SentOf(j, ok[j], pc[j])
  BY <1>1, SentIs DEF CriticalKept, Joined
<1>8. Joined(Joined(w, a), Joined(Joined(b, p), q)) = Joined(w, Joined(Joined(Joined(a, b), p), q))
  <2> HIDE DEF w, a, b, p, q
  <2> QED BY <1>4, PollMoves
<1>9. Joined(polled'[j], CriticalOf(j, InTransit')) = SentOf(j, ok[j], pc[j])
  BY <1>5, <1>6, <1>7, <1>8
<1> QED BY <1>9 DEF Joined

LEMMA KeptNext ==
  ASSUME TypeOK, Followed, CriticalKept, [Next]_vars
  PROVE  CriticalKept'
<1>0. TypeOK'
  BY TypeNext
<1>1. ASSUME UNCHANGED <<pc, ok, queue, pending, buf, polled>> PROVE CriticalKept'
  <2>1. InTransit' = InTransit
    BY <1>1 DEF InTransit
  <2> QED BY <1>1, <2>1, KeptQuiet
<1>2. ASSUME NEW j \in Jobs, SendLog(j) \/ SendMessage(j) \/ SendFinished(j) PROVE CriticalKept'
  <2>1. ok[j] \in BOOLEAN /\ (pc[j] \in {"log", "message"} => ~ ok[j])
    BY DEF TypeOK, Followed
  <2>2. /\ {"log", "message", "finished"} \subseteq Kinds \ {"progress"}
        /\ {"message", "finished", "remove"} \subseteq Labels
    BY DEF Kinds, Labels, Finishing
  <2>3. CASE SendLog(j)
    <3>1. pc[j] = "log"
      BY <2>3 DEF SendLog
    <3>2. SentOf(j, ok[j], "message") = Append(SentOf(j, ok[j], pc[j]), [job |-> j, kind |-> "log"])
      BY <2>1, <3>1, SentSteps
    <3> QED BY <2>2, <2>3, <3>2, SendsAre, KeptSends
  <2>4. CASE SendMessage(j)
    <3>1. pc[j] = "message"
      BY <2>4 DEF SendMessage
    <3>2. SentOf(j, ok[j], "finished") = Append(SentOf(j, ok[j], pc[j]), [job |-> j, kind |-> "message"])
      BY <2>1, <3>1, SentSteps
    <3> QED BY <2>2, <2>4, <3>2, SendsAre, KeptSends
  <2>5. CASE SendFinished(j)
    <3>1. pc[j] = "finished"
      BY <2>5 DEF SendFinished
    <3>2. SentOf(j, ok[j], "remove") = Append(SentOf(j, ok[j], pc[j]), [job |-> j, kind |-> "finished"])
      BY <2>1, <3>1, SentSteps
    <3> QED BY <2>2, <2>5, <3>2, SendsAre, KeptSends
  <2> QED BY <1>2, <2>3, <2>4, <2>5
<1>3. ASSUME NEW j \in Jobs, Expire(j) \/ GetJobRunning(j) PROVE CriticalKept'
  BY <1>1, <1>3 DEF Expire, GetJobRunning, jobVars, busVars
<1>4. GetJobFinished \/ UNCHANGED vars => CriticalKept'
  BY <1>1 DEF GetJobFinished, vars, jobVars, busVars
<1>5. ASSUME NEW j \in Jobs,
             \/ RegisterJob(j) \/ SendProgress(j) \/ (\E success \in BOOLEAN : BodyEnds(j, success))
             \/ FinishStep(j) \/ Expire(j) \/ GetJobRunning(j)
      PROVE  CriticalKept'
  BY <1>2, <1>3, <1>5, KeptJob, KeptProgress DEF FinishStep
<1>6. BridgeStep \/ Poll => CriticalKept'
  BY <1>0, KeptBridge, KeptPoll
<1> QED BY <1>4, <1>5, <1>6 DEF Next

\* No critical event is lost, duplicated or reordered: what Poll has returned of a job,
\* with what the buffer, the bridge and the queue still hold of it, is exactly what the
\* job has sent, in that order (event_bus.rs send; the bridge thread and poll of server.rs).
THEOREM CriticalAlwaysKept == Spec => []CriticalKept
<1>1. Init => TypeOK /\ Followed /\ CriticalKept
  <2> SUFFICES ASSUME Init PROVE TypeOK /\ Followed /\ CriticalKept
    OBVIOUS
  <2>1. TypeOK /\ Followed
    BY TypeInit DEF Init, Followed, Finishing
  <2>2. ASSUME NEW j \in Jobs PROVE polled[j] \o CriticalOf(j, InTransit) = Sent(j)
    <3>1. <<>> \o <<>> = <<>>
      BY EmptySeq, ConcatEmptySeq
    <3>2. polled[j] = <<>> /\ InTransit = <<>> /\ ok[j] \in BOOLEAN /\ pc[j] = "new"
      BY <3>1 DEF Init, InTransit
    <3> QED BY <3>1, <3>2, CriticalEmpty, SentIs, SentSteps
  <2> QED BY <2>1, <2>2 DEF CriticalKept
<1>2. TypeOK /\ Followed /\ CriticalKept /\ [Next]_vars => (TypeOK /\ Followed /\ CriticalKept)'
  BY TypeNext, FollowedNext, KeptNext
<1> QED BY <1>1, <1>2, PTL DEF Spec
=============================================================================
