----------------------------- MODULE ReplaySystem -----------------------------
(* The replay subsystem of one replay: HTTP requests and worker consumers that *)
(* share the database and the object store, the worker's retention loop, the   *)
(* clock, and the faults an instance admits.                                   *)
EXTENDS ReplayService, ReplayProcessor

CONSTANTS
    Faults,      \* kinds of fault the environment may inject
    MaxFaults    \* how many of them in a behaviour

ASSUME FaultsAssumption ==
    /\ Faults \subseteq {"error", "crash", "death", "quick_restart", "silence"}
    /\ MaxFaults \in Nat

VARIABLE faults  \* faults so far

vars == <<storeVars, rq, workerVars, faults>>

TypeOK ==
    /\ StoreTypeOK
    /\ ServiceTypeOK
    /\ ProcessorTypeOK
    /\ faults \in 0..MaxFaults

Init == StoreInit /\ ServiceInit /\ ProcessorInit /\ faults = 0

-----------------------------------------------------------------------------
(* Requests and consumers *)

NoFault == UNCHANGED faults

BeginRequest(r) == RequestStarts(r) /\ UNCHANGED workerVars /\ NoFault
ServeRequest(r) == RequestProceeds(r) /\ UNCHANGED workerVars /\ NoFault

RunConsumer(w) == WorkerProceeds(w) /\ UNCHANGED rq /\ NoFault
ReportProgress(w) == Progress(w) /\ UNCHANGED rq /\ NoFault
SendHeartbeat(w) == Heartbeat(w) /\ UNCHANGED rq /\ NoFault

-----------------------------------------------------------------------------
(* The worker process beside its consumers, and time *)

\* _retention_loop, which every worker process runs.
RunRetention ==
    /\ \E w \in Workers : ProcessUp(w)
    /\ EnqueueDueRetention
    /\ UNCHANGED <<rq, workerVars>> /\ NoFault

\* run_worker: recover_stale once, then the loops.  Unless the instance admits
\* "quick_restart", a new process starts after the heartbeat of the job its
\* predecessor left has expired.
Abandoned(j) == jobs[j].status = "running" /\ holding[jobs[j].worker] # j
StartWorker(w) ==
    /\ Doing(w, "down")
    /\ "quick_restart" \in Faults \/ \A j \in JobIds : Abandoned(j) => jobs[j].stale
    /\ RecoverStale
    /\ Step(w, "idle")
    /\ UNCHANGED <<holding, mediaVars, rq>> /\ NoFault

\* A tombstone is kept for seven days, longer than any request or job runs
\* (REPLAY_PROCESS_TIMEOUT_SECONDS is two hours): its last tick waits for them.
NothingRuns ==
    (\A w \in Workers : ~HoldsJob(w)) /\ (\A r \in Requests : At(r, "idle"))
AdvanceClock ==
    /\ Tick
    /\ row.tombstone = 1 => NothingRuns
    /\ UNCHANGED <<rq, workerVars>> /\ NoFault
EndRetryDelay(j) ==
    BecomesAvailable(j) /\ UNCHANGED <<rq, workerVars>> /\ NoFault

\* The heartbeat of a running job is older than _STALE_HEARTBEAT.  Once its
\* consumer has let go of the job, or was lost with its process, nobody sends
\* one; of a consumer at work only by a fault of its heartbeat task.
HeartbeatExpires(j) ==
    /\ jobs[j].status = "running" /\ ~jobs[j].stale
    /\ jobs' = [jobs EXCEPT ![j].stale = TRUE]
    /\ UNCHANGED <<row, current, holding, mediaVars, rq, workerVars>>
ExpireAbandoned(j) == Abandoned(j) /\ HeartbeatExpires(j) /\ NoFault

-----------------------------------------------------------------------------
(* Faults *)

Fault(kind) == kind \in Faults /\ faults < MaxFaults /\ faults' = faults + 1

\* A step of a job or of a request raises.
FailStep(w) ==
    /\ PipelineError(w) \/ DeletionError(w) \/ SucceedError(w)
    /\ UNCHANGED rq /\ Fault("error")
FailRequest(r) ==
    /\ Abandon(r) \/ PutError(r)
    /\ UNCHANGED workerVars /\ Fault("error")

\* The worker process is killed, or stops while idle.
CrashWorker(w) ==
    /\ ProcessUp(w)
    /\ Lose(w, "down")
    /\ UNCHANGED <<row, jobs, mediaVars, rq>> /\ Fault("crash")

\* A database error in claim_next, or in settling a job outside the
\* processor's handlers, ends the consumer task; its process does not notice
\* and goes on.
KillConsumer(w) ==
    /\ pc[w] \in {"idle", "fail_process", "fail", "cancel"} \cup Settling
    /\ Die(w)
    /\ UNCHANGED <<row, mediaVars, rq>> /\ Fault("death")

SilenceHeartbeat(j) == HeartbeatExpires(j) /\ Fault("silence")

-----------------------------------------------------------------------------

Next ==
    \/ \E r \in Requests : BeginRequest(r) \/ ServeRequest(r) \/ FailRequest(r)
    \/ \E w \in Workers :
         \/ RunConsumer(w) \/ ReportProgress(w) \/ SendHeartbeat(w)
         \/ StartWorker(w)
         \/ FailStep(w) \/ CrashWorker(w) \/ KillConsumer(w)
    \/ \E j \in JobIds :
         EndRetryDelay(j) \/ ExpireAbandoned(j) \/ SilenceHeartbeat(j)
    \/ RunRetention
    \/ AdvanceClock

Spec == Init /\ [][Next]_vars

\* Fairness.  Handlers and consumers run on, consumers poll for jobs, the
\* retention loop runs every minute, the clock advances, heartbeats go out
\* every 15 seconds, and a worker that is gone is started again by whoever
\* operates it (docker-compose.yml has no restart policy for it).  Requests need
\* not be made, faults need not happen, and a consumer task that has died stays
\* dead.
Fairness ==
    /\ \A r \in Requests : WF_vars(ServeRequest(r))
    /\ \A w \in Workers :
         WF_vars(RunConsumer(w)) /\ WF_vars(SendHeartbeat(w)) /\ WF_vars(StartWorker(w))
    /\ \A j \in JobIds : WF_vars(EndRetryDelay(j)) /\ WF_vars(ExpireAbandoned(j))
    /\ WF_vars(RunRetention)
    /\ WF_vars(AdvanceClock)

FairSpec == Spec /\ Fairness

-----------------------------------------------------------------------------
(* Safety *)

\* A replay is shown as ready only with everything its artifact list and the
\* content route need: the normalized video, every planned frame, and the row
\* of each.  The objects are written long before the status, by a consumer
\* that a deletion, a recovery or a second consumer may overtake.
ReadyIsComplete ==
    row.status = "ready" =>
        /\ "normalized" \in objects /\ row.normalized_key
        /\ frames = FrameIds /\ artifacts = FrameIds

\* No writer brings back the token digest or an object key of a replay whose
\* tombstone was scrubbed, though the scrub leaves the version as it was.
TombstoneIsScrubbed ==
    row.status \in {"deleted", "purged"} =>
        ~row.token /\ ~row.source_key /\ ~row.normalized_key

Quiet == NothingRuns /\ \A j \in JobIds : ~Active(j)

\* Once a replay is deleted and every job and request about it has come to its
\* end, nothing of it is left in storage or among the artifacts, in whatever
\* order uploads of a pipeline and sweeps of a deletion took place.
NothingLeft ==
    row.status \in {"deleted", "purged"} /\ Quiet =>
        objects = {} /\ frames = {} /\ artifacts = {}

\* The row is scrubbed, and a client told that all is deleted, only after every
\* object of the pipeline and every artifact row is gone: a sweep that fails
\* half-way goes on with the rest but ends the attempt.  A second consumer at work
\* on the replay may write something later, so this is for one (NothingLeft is
\* for several).
ScrubbedIsSwept ==
    row.status \in {"deleted", "purged"} =>
        "normalized" \notin objects /\ frames = {} /\ artifacts = {}

Working(w) == HoldsJob(w) /\ pc[w] \notin Settling
OwnsJob(w) == jobs[holding[w]].status = "running" /\ jobs[holding[w]].worker = w

\* A consumer works on a job only while the job is running in its name, until
\* it has settled it itself (or retention has removed the job's row with that of
\* the replay).  So no job is ever worked on by two consumers, and succeed, fail
\* and cancel, which address a job by id alone, settle the run they belong to.
ExclusiveJob ==
    \A w \in Workers : Working(w) /\ JobExists(holding[w]) => OwnsJob(w)

\* A replay in processing has an active job that will carry it on, or a
\* consumer about to write what became of that job.  Job and replay are settled
\* in two transactions: a worker killed between them breaks it, and so does a
\* retry that overtakes the consumer that scheduled it.
ProcessingHasJob ==
    row.status \in ProcessingStatus =>
        HasActive("process") \/ \E w \in Workers : pc[w] \in Settling

\* The API took an upload for complete: its source object is there.
UploadedHasSource == row.status = "uploaded" => "source" \in objects

DeletionKept ==
    /\ row.status = "deleting" => row'.status \in {"deleting", "deleted"}
    /\ row.status = "deleted" => row'.status \in {"deleted", "purged"}

\* Nothing takes a replay out of its deletion: no pipeline, no failure
\* handler, no retry and no recovery of a stale job.
DeletionIsFinal == [][DeletionKept]_vars

-----------------------------------------------------------------------------
(* Refinement: the statuses of a replay are the phases of ReplayLifecycle. *)

PhaseOf(status) ==
    CASE status = "unborn" -> "none"
      [] status \in {"created", "uploaded", "expired"} -> "upload"
      [] status \in ProcessingStatus -> "processing"
      [] status = "purged" -> "gone"
      [] OTHER -> status

Lifecycle == INSTANCE ReplayLifecycle WITH phase <- PhaseOf(row.status)

\* Every step of the subsystem is a step of the life cycle its owner is told
\* of, or none: in particular a ready replay leaves that status by deletion
\* only, and no request and no consumer overwrites what another has written.
\* A recovery after a crash does.
LifecycleSpec == Lifecycle!Spec

-----------------------------------------------------------------------------
(* Liveness, under FairSpec *)

\* A deletion ends with a tombstone, also when the request stopped between its
\* two transactions or a cleanup job failed for good: the retention loop
\* queues another one.
DeletionCompletes == row.status = "deleting" ~> row.status = "deleted"

Uploading == row.status \in {"created", "uploaded"}

\* An upload that is never finished does not stay.
AbandonedUploadEnds == Uploading ~> ~Uploading

Processing == row.status \in ProcessingStatus

\* Processing comes to an end, by success, failure or deletion, whichever step
\* fails or wherever its worker is killed.  An error whose handler is then
\* killed can be too much for it.
ProcessingEnds == Processing ~> ~Processing

Finished == row.status \in {"ready", "failed"}

\* Retention takes hold of every replay whose processing has ended.
FinishedReplayEnds == Finished ~> ~Finished

\* A job whose worker is gone is taken up or ended by a worker that is started
\* later, whenever it is started: recovery runs once, at its start.
StaleJobRecovered ==
    \A j \in JobIds :
        Abandoned(j) ~> ~Abandoned(j)

\* A tombstone is removed once it has been kept for its seven days.
TombstoneIsPurged == row.status = "deleted" ~> row.status = "purged"
=============================================================================
