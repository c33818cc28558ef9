----------------------------- MODULE EventBus -----------------------------
(***************************************************************************)
(* Jobs and the events they report.  A job body sends progress, finish_job *)
(* publishes the result and sends the terminal events (server.rs), the     *)
(* bounded queue of event_bus.rs carries them to the bridge thread, which  *)
(* moves them to the bounded buffer that Poll drains (server.rs).  GetJob  *)
(* asks for a job's state while all that goes on.                          *)
(*                                                                         *)
(* spawn_job bodies and their finish_job run on the blocking pool;         *)
(* spawn_async_job runs finish_job on one of the async runtime's workers,  *)
(* which also serve the Poll and GetJob requests.                          *)
(***************************************************************************)
EXTENDS Integers, FiniteSets, Sequences, SequencesExt, Filters

CONSTANTS Jobs,        \* job ids
          AsyncJobs,   \* the jobs started by spawn_async_job
          Workers,     \* worker threads of the async runtime
          Capacity,    \* event_bus::CAPACITY
          MaxEvents,   \* MAX_EVENTS
          PollBatch,   \* POLL_BATCH
          MaxProgress, \* bound: progress events of one job
          NoJob

ASSUME BusAssumption ==
  /\ IsFiniteSet(Jobs) /\ AsyncJobs \subseteq Jobs
  /\ Workers \in Nat \ {0} /\ Capacity \in Nat \ {0}
  /\ MaxEvents \in Nat \ {0} /\ PollBatch \in Nat \ {0}
  /\ MaxProgress \in Nat
  /\ NoJob \notin Jobs

VARIABLES jobs,       \* the active-jobs map (its keys)
          pc,         \* pc[j]: where job j is
          ok,         \* ok[j]: its result is Ok
          published,  \* published[j]: its entry in finished_jobs
          progress,   \* progress[j]: progress events it has sent
          queue,      \* the crossbeam channel
          pending,    \* the bridge's `pending`: at most one event
          buf,        \* Inner.events
          polled,     \* polled[j]: the critical events of j that Poll returned
          asking      \* the job GetJob did not find among the running ones

vars == <<jobs, pc, ok, published, progress, queue, pending, buf, polled, asking>>
jobVars == <<jobs, pc, ok, published, progress>>
busVars == <<queue, pending, buf, polled>>

\* "log" is the error! line, which ChannelLogger::log turns into an event.
Kinds == {"progress", "log", "message", "finished"}
Events == [job : Jobs, kind : Kinds]

is_critical(e) == e.kind # "progress"

Finishing == {"publish", "log", "message", "finished", "remove"}

Init ==
  /\ jobs = {}
  /\ pc = [j \in Jobs |-> "new"]
  /\ ok = [j \in Jobs |-> FALSE]
  /\ published = [j \in Jobs |-> "none"]
  /\ progress = [j \in Jobs |-> 0]
  /\ queue = <<>> /\ pending = <<>> /\ buf = <<>>
  /\ polled = [j \in Jobs |-> <<>>]
  /\ asking = NoJob

Goto(j, label) == pc' = [pc EXCEPT ![j] = label]

\* Async workers that run a finish_job or a GetJob: neither awaits.
Busy == Cardinality({j \in AsyncJobs : pc[j] \in Finishing})
          + (IF asking = NoJob THEN 0 ELSE 1)
FreeWorker == Busy < Workers

-----------------------------------------------------------------------------
(* event_bus::send. *)

\* A critical event waits for room in the queue.
SendCritical(j, kind) ==
  /\ Len(queue) < Capacity
  /\ queue' = Append(queue, [job |-> j, kind |-> kind])

\* Mutant: telemetry ignores the queue's capacity.
TrySendUnbounded(j, kind) == queue' = Append(queue, [job |-> j, kind |-> kind])

\* Telemetry is dropped when the queue is full.
TrySend(j, kind) ==
  queue' = IF Len(queue) < Capacity THEN Append(queue, [job |-> j, kind |-> kind]) ELSE queue

-----------------------------------------------------------------------------
(* spawn_job, spawn_async_job and finish_job. *)

RegisterJob(j) ==
  /\ pc[j] = "new"
  /\ jobs' = jobs \cup {j}
  /\ Goto(j, "running")
  /\ UNCHANGED <<ok, published, progress, busVars, asking>>

SendProgress(j) ==
  /\ pc[j] = "running"
  /\ progress[j] < MaxProgress
  /\ progress' = [progress EXCEPT ![j] = @ + 1]
  /\ TrySend(j, "progress")
  /\ UNCHANGED <<jobs, pc, ok, published, pending, buf, polled, asking>>

\* Mutant: the job leaves the running jobs before its result is published.
BodyEndsRemoving(j, success) ==
  /\ pc[j] = "running"
  /\ j \in AsyncJobs => FreeWorker
  /\ ok' = [ok EXCEPT ![j] = success]
  /\ jobs' = jobs \ {j}
  /\ Goto(j, "publish")
  /\ UNCHANGED <<published, progress, busVars, asking>>

\* The body returns, fails, is cancelled or panics.
BodyEnds(j, success) ==
  /\ pc[j] = "running"
  /\ j \in AsyncJobs => FreeWorker
  /\ ok' = [ok EXCEPT ![j] = success]
  /\ Goto(j, "publish")
  /\ UNCHANGED <<jobs, published, progress, busVars, asking>>

PublishResult(j) ==
  /\ pc[j] = "publish"
  /\ published' = [published EXCEPT ![j] = IF ok[j] THEN "succeeded" ELSE "failed"]
  /\ Goto(j, IF ok[j] THEN "finished" ELSE "log")
  /\ UNCHANGED <<jobs, ok, progress, busVars, asking>>

SendLog(j) ==
  /\ pc[j] = "log"
  /\ SendCritical(j, "log")
  /\ Goto(j, "message")
  /\ UNCHANGED <<jobs, ok, published, progress, pending, buf, polled, asking>>

SendMessage(j) ==
  /\ pc[j] = "message"
  /\ SendCritical(j, "message")
  /\ Goto(j, "finished")
  /\ UNCHANGED <<jobs, ok, published, progress, pending, buf, polled, asking>>

SendFinished(j) ==
  /\ pc[j] = "finished"
  /\ SendCritical(j, "finished")
  /\ Goto(j, "remove")
  /\ UNCHANGED <<jobs, ok, published, progress, pending, buf, polled, asking>>

RemoveJob(j) ==
  /\ pc[j] = "remove"
  /\ jobs' = jobs \ {j}
  /\ Goto(j, "done")
  /\ UNCHANGED <<ok, published, progress, busVars, asking>>

-----------------------------------------------------------------------------
(* The bridge thread.  Its retry with a sleep is a step that stays enabled. *)

Recv ==
  /\ pending = <<>>
  /\ queue # <<>>
  /\ pending' = <<Head(queue)>>
  /\ queue' = Tail(queue)
  /\ UNCHANGED <<jobVars, buf, polled, asking>>

\* The first telemetry event of the buffer, 0 if there is none.
Telemetry == SelectInSeq(buf, LAMBDA e : ~ is_critical(e))

Accept ==
  /\ pending # <<>>
  /\ Len(buf) < MaxEvents
  /\ buf' = buf \o pending
  /\ pending' = <<>>
  /\ UNCHANGED <<jobVars, queue, polled, asking>>

\* Mutant: the oldest event goes, whatever it is.
DisplaceOldest ==
  /\ pending # <<>>
  /\ Len(buf) >= MaxEvents
  /\ Telemetry # 0
  /\ buf' = Tail(buf) \o pending
  /\ pending' = <<>>
  /\ UNCHANGED <<jobVars, queue, polled, asking>>

\* "Prefer sacrificing telemetry/progress"
Displace ==
  /\ pending # <<>>
  /\ Len(buf) >= MaxEvents
  /\ Telemetry # 0
  /\ buf' = RemoveAt(buf, Telemetry) \o pending
  /\ pending' = <<>>
  /\ UNCHANGED <<jobVars, queue, polled, asking>>

\* Mutant: a full buffer turns critical events away too.
DropAny ==
  /\ pending # <<>>
  /\ Len(buf) >= MaxEvents
  /\ Telemetry = 0
  /\ pending' = <<>>
  /\ UNCHANGED <<jobVars, queue, buf, polled, asking>>

\* A buffer full of critical events takes no telemetry; critical events wait.
DropTelemetry ==
  /\ pending # <<>>
  /\ Len(buf) >= MaxEvents
  /\ Telemetry = 0
  /\ ~ is_critical(Head(pending))
  /\ pending' = <<>>
  /\ UNCHANGED <<jobVars, queue, buf, polled, asking>>

\* The bridge waits for Poll, and the queue behind it is full.
Backpressured ==
  /\ Len(queue) = Capacity
  /\ \E n \in DOMAIN pending : is_critical(pending[n])
  /\ Len(buf) >= MaxEvents
  /\ Telemetry = 0

\* A finished_jobs entry expires (FINISHED_JOB_TTL).  A finish_job that can
\* go on does so within that time: only one blocked in a send is overtaken.
Expire(j) ==
  /\ published[j] \in {"succeeded", "failed"}
  /\ pc[j] # "remove"
  /\ pc[j] # "done" => Backpressured
  /\ published' = [published EXCEPT ![j] = "expired"]
  /\ UNCHANGED <<jobs, pc, ok, progress, busVars, asking>>

-----------------------------------------------------------------------------
(* Requests. *)

\* The critical events of job j in the sequence s, in their order.
CriticalOf(j, s) == Without(s, {e \in Events : e.job # j \/ ~ is_critical(e)})

Poll ==
  LET n == IF Len(buf) < PollBatch THEN Len(buf) ELSE PollBatch IN
  /\ FreeWorker
  /\ buf # <<>>
  /\ polled' = [j \in Jobs |-> polled[j] \o CriticalOf(j, SubSeq(buf, 1, n))]
  /\ buf' = SubSeq(buf, n + 1, Len(buf))
  /\ UNCHANGED <<jobVars, queue, pending, asking>>

\* GetJob looks among the running jobs; a hit is answered at once.
GetJobRunning(j) ==
  /\ asking = NoJob
  /\ FreeWorker
  /\ pc[j] # "new"
  /\ j \notin jobs
  /\ asking' = j
  /\ UNCHANGED <<jobVars, busVars>>

\* A miss goes on to finished_jobs.
GetJobFinished ==
  /\ asking # NoJob
  /\ asking' = NoJob
  /\ UNCHANGED <<jobVars, busVars>>

-----------------------------------------------------------------------------
FinishStep(j) ==
  \/ PublishResult(j) \/ SendLog(j) \/ SendMessage(j) \/ SendFinished(j) \/ RemoveJob(j)

BridgeStep == Recv \/ Accept \/ Displace \/ DropTelemetry

Next ==
  \/ \E j \in Jobs :
       \/ RegisterJob(j) \/ SendProgress(j) \/ (\E success \in BOOLEAN : BodyEnds(j, success))
       \/ FinishStep(j) \/ Expire(j) \/ GetJobRunning(j)
  \/ BridgeStep
  \/ Poll
  \/ GetJobFinished

Spec == Init /\ [][Next]_vars

\* The bridge and every thread inside finish_job run, requests are served
\* and the client keeps polling.  Nothing is asked of the job bodies.
Fairness ==
  /\ \A j \in Jobs : WF_vars(FinishStep(j))
  /\ WF_vars(BridgeStep)
  /\ SF_vars(Poll)
  /\ WF_vars(GetJobFinished)

LiveSpec == Spec /\ Fairness

-----------------------------------------------------------------------------
(* Properties. *)

TypeOK ==
  /\ jobs \subseteq Jobs
  /\ pc \in [Jobs -> {"new", "running", "done"} \cup Finishing]
  /\ ok \in [Jobs -> BOOLEAN]
  /\ published \in [Jobs -> {"none", "succeeded", "failed", "expired"}]
  /\ progress \in [Jobs -> 0 .. MaxProgress]
  /\ queue \in Seq(Events) /\ Len(queue) <= Capacity
  /\ pending \in Seq(Events) /\ Len(pending) <= 1
  /\ buf \in Seq(Events) /\ Len(buf) <= MaxEvents
  /\ polled \in [Jobs -> Seq(Events)]
  /\ asking \in Jobs \cup {NoJob}
  /\ Busy <= Workers

\* The critical events job j has sent when it is at pc[j].
Sent(j) ==
  LET kinds == IF ok[j] THEN <<"finished">> ELSE <<"log", "message", "finished">>
      left == CASE pc[j] = "log" -> 3
                [] pc[j] = "message" -> 2
                [] pc[j] = "finished" -> 1
                [] pc[j] \in {"remove", "done"} -> 0
                [] OTHER -> Len(kinds)
  IN  [n \in 1 .. Len(kinds) - left |-> [job |-> j, kind |-> kinds[n]]]

\* Everything on its way from the jobs to the client, oldest first.
InTransit == buf \o pending \o queue

\* No critical event is lost, duplicated or reordered, however full the
\* queue and the buffer are: what Poll has returned of a job, followed by
\* what the buffer, the bridge and the queue still hold, is exactly what the
\* job sent (event_bus.rs send, the bridge thread and poll of server.rs).
CriticalKept == \A j \in Jobs : polled[j] \o CriticalOf(j, InTransit) = Sent(j)

\* "`GetJob` never sees a gap" (server.rs finish_job): a job no longer among
\* the running ones has its result published, although the two lookups of
\* GetJob are separate steps.
GetJobSeesNoGap == asking # NoJob => published[asking] # "none"

\* "Backpressure the bridge until Poll makes room instead of losing a terminal
\* event" (server.rs): the end of every job is reported to a client that keeps
\* polling, through a full queue and a full buffer.  It holds when there are
\* more workers than async jobs that may end at once; otherwise finish_job
\* can block every worker that would serve the Poll.
FinishReported ==
  \A j \in Jobs :
    (pc[j] \in Finishing) ~> (\E n \in DOMAIN polled[j] : polled[j][n].kind = "finished")
=============================================================================
