----------------------------- MODULE StatusProofs -----------------------------
(* What the status of a replay promises, for every number of frames, consumers *)
(* and requests, every retention and the faults each theorem admits: a ready   *)
(* replay is complete, and statuses move along ReplayLifecycle as long as no   *)
(* worker process is killed.                                                   *)
EXTENDS ReplayProofs

-----------------------------------------------------------------------------
(* Ready.  What the pipeline stores is taken away by sweeps only, and whoever  *)
(* sweeps has seen the replay in deletion.  A deletion is final, so a replay    *)
(* that is not in deletion has not been swept: whatever its pipelines have      *)
(* stored so far, one after another or side by side, is still there.           *)

Gone == row.status \in {"deleting", "deleted", "purged"}

\* Steps before which a consumer has seen the replay in deletion.
SweepStep == {"sweep", "sweep_rows", "all_sweep", "all_rows", "all_scrub"}

\* Steps of the loop over the frames and after it, and those after the upload
\* of the normalized video.
InFrames == FrameStep \cup {"ready"}
AfterUpload == InFrames \cup {"normalized_recheck", "extract"}

\* What a consumer that works on a replay not in deletion has stored so far.
Stored(w) ==
    /\ pc[w] \in AfterUpload => "normalized" \in objects
    /\ pc[w] \in InFrames =>
         /\ row.normalized_key
         /\ \A f \in FrameIds : f < frame[w] => f \in frames \cap artifacts
    /\ pc[w] = "ready" => frame[w] = NumFrames + 1
    /\ pc[w] \in {"frame_reuse", "frame_recheck", "frame_upsert", "frame_done"} =>
         frame[w] \in frames
    /\ pc[w] \in {"frame_reuse", "frame_done"} => frame[w] \in artifacts

JobsNeedRow == ~RowExists => \A j \in JobIds : ~JobExists(j)
UnbornHasNoKey == row.status = "unborn" => ~row.normalized_key
SweptIsGone == \A w \in Workers : pc[w] \in SweepStep => Gone
AllStored == ~Gone => \A w \in Workers : Stored(w)

ReadyInv ==
    /\ JobsNeedRow
    /\ UnbornHasNoKey
    /\ SweptIsGone
    /\ AllStored
    /\ ReadyIsComplete

-----------------------------------------------------------------------------
(* The row: nothing leads out of a deletion, and keys are only gained before it *)

\* A row is updated: it exists, keeps its normalized key unless it is scrubbed,
\* and does not become ready.
Updated ==
    /\ RowExists /\ RowExists'
    /\ row.normalized_key => row'.normalized_key \/ Gone'
    /\ row'.status = "ready" => row.status = "ready"

\* Every request but the first updates the row under a status it names.
LEMMA RequestUpdates ==
    ASSUME NEW r, RowTypeOK, RequestWritesRow(r), ~CreateReplay(r)
    PROVE  row' = row \/ Updated
<1>. USE DEF Updated, RowExists, ReplayStatus, ProcessingStatus, DeletionStatus,
             RowTypeOK, Row, MayWrite, Write
<1>1. CASE PutCommit(r) \/ CompleteMark(r)
  BY <1>1 DEF PutCommit, CompleteMark
<1>2. CASE CompleteQueue(r) \/ RetryQueue(r) \/ DeleteMark(r)
  BY <1>2 DEF CompleteQueue, RetryQueue, DeleteMark
<1>. QED BY <1>1, <1>2 DEF RequestWritesRow

\* So does every consumer but the one that makes it ready; a recovery, which
\* names no status, has a job of the replay to settle it after.
LEMMA WorkerUpdates ==
    ASSUME NEW w \in Workers, RowTypeOK, JobsNeedRow, WorkerWritesRow(w), ~Ready(w)
    PROVE  row' = row \/ Updated
<1>. USE DEF Updated, RowExists, ReplayStatus, ProcessingStatus, DeletionStatus,
             RowTypeOK, Row, MayWrite, Write
<1>1. CASE StoreHash(w) \/ Probe(w) \/ Normalize(w) \/ Extract(w)
  BY <1>1 DEF StoreHash, Probe, Normalize, Extract, Transition
<1>2. CASE Progress(w) \/ FrameDone(w) \/ AllMark(w)
  BY <1>2 DEF Progress, FrameDone, AllMark
<1>3. CASE MarkFailed(w)
  BY <1>3 DEF MarkFailed
<1>4. CASE SourceClear(w)
  BY <1>4 DEF SourceClear
<1>5. CASE AllScrub(w)
  BY <1>5 DEF AllScrub, ScrubDeleted, Scrubbed, Gone
<1>6. CASE StartWorker(w)
  <2>1. CASE StaleProcess = {} \/ Deleting
    BY <1>6, <2>1 DEF StartWorker, RecoverStale
  <2>2. CASE StaleProcess # {} /\ ~Deleting
    <3>1. PICK j \in StaleProcess : row' = SyncedRow(j)
      BY <1>6, <2>2 DEF StartWorker, RecoverStale
    <3>2. j \in JobIds /\ JobExists(j)
      BY <3>1 DEF StaleProcess, StaleJobs, JobExists
    <3>3. RowExists
      BY <3>2 DEF JobsNeedRow
    <3>. QED BY <3>1, <3>3 DEF SyncedRow
  <2>. QED BY <2>1, <2>2
<1>. QED BY <1>1, <1>2, <1>3, <1>4, <1>5, <1>6 DEF WorkerWritesRow

\* All the ways in which a step changes the row.
LEMMA RowSteps ==
    ASSUME RowTypeOK, JobsNeedRow, [Next]_vars
    PROVE  \/ row' = row \/ Updated \/ PurgeTombstone \/ Tick
           \/ \E r \in Requests : CreateReplay(r)
           \/ \E w \in Workers : Ready(w)
BY RowWriters, RequestUpdates, WorkerUpdates DEF RowWritten, AdvanceClock

\* Nothing leads out of a deletion, not even when the row itself is gone; and
\* outside of one the normalized key is only gained.
LEMMA RowKept ==
    ASSUME RowTypeOK, JobsNeedRow, UnbornHasNoKey, [Next]_vars
    PROVE  /\ Gone => Gone'
           /\ ~Gone' /\ row.normalized_key => row'.normalized_key
           /\ UnbornHasNoKey'
           /\ RowExists => RowExists' \/ PurgeTombstone
           /\ row'.status = "ready" => row.status = "ready" \/ \E w \in Workers : Ready(w)
<1>. USE DEF Gone, UnbornHasNoKey, RowExists, ReplayStatus, ProcessingStatus, DeletionStatus,
             RowTypeOK, Row
<1>1. CASE row' = row
  BY <1>1
<1>2. CASE Updated /\ row' # row
  <2>1. RowWritten
    BY <1>2, RowWriters
  <2>2. DeletionKept
    BY <2>1, RowWrittenInDeletion
  <2>. QED BY <1>2, <2>2 DEF Updated, DeletionKept
<1>3. CASE PurgeTombstone
  BY <1>3 DEF PurgeTombstone, TombstoneDue, UnbornRow
<1>4. CASE Tick
  BY <1>4 DEF Tick
<1>5. ASSUME NEW r \in Requests, CreateReplay(r)
      PROVE  /\ row.status = "unborn" /\ row'.status = "created"
  BY <1>5 DEF CreateReplay, Insert, UnbornRow
<1>6. ASSUME NEW w \in Workers, Ready(w)
      PROVE  \/ row' = row
             \/ /\ row.status = "extracting" /\ row'.status = "ready"
                /\ row'.normalized_key = row.normalized_key
  BY <1>6 DEF Ready, Transition, MayWrite, Write
<1>. QED BY <1>1, <1>2, <1>3, <1>4, <1>5, <1>6, RowSteps

\* A job is about a replay that has a row: jobs are added beside it, and go
\* with it.
LEMMA JobsKept ==
    ASSUME TypeInv, JobsNeedRow, UnbornHasNoKey, [Next]_vars
    PROVE  JobsNeedRow'
<1>. USE DEF JobsNeedRow, JobExists
<1>0. /\ RowTypeOK /\ PlaceOK /\ jobs \in [JobIds -> Job]
      /\ holding \in [Workers -> JobIds \cup {None}]
  BY DEF TypeInv, TypeOK, StoreTypeOK, RowTypeOK
<1>1. CASE PurgeTombstone
  BY <1>1 DEF PurgeTombstone, NoJob
<1>2. CASE RowExists /\ ~PurgeTombstone
  BY <1>0, <1>2, RowKept
<1>3. CASE ~RowExists /\ ~PurgeTombstone
  <2>0. \A j \in JobIds : jobs[j].status = "none"
    BY <1>3
  <2>1. \A w \in Workers : ~ClaimJob(w)
    BY <2>0 DEF ClaimJob, Claim
  <2>2. ASSUME NEW w \in Workers, NEW status \in SettleStatus
        PROVE  ~Settled(w, holding[w], status)
    BY <1>0, <2>0, ProcessesAssumption
       DEF Settled, JobExists, PlaceOK, Busy, BusyStep
  <2>3. ASSUME NEW w \in Workers PROVE ~Heartbeat(w)
    BY <1>0, <2>0 DEF Heartbeat, PlaceOK
  <2>4. ASSUME NEW w \in Workers, StartWorker(w) PROVE jobs' = jobs
    BY <1>0, <2>0, <2>4 DEF StartWorker, RecoverStale, StaleJobs
  <2>5. ASSUME NEW j \in JobIds
        PROVE  ~BecomesAvailable(j) /\ ~ExpireAbandoned(j) /\ ~SilenceHeartbeat(j)
    BY <2>0 DEF BecomesAvailable, ExpireAbandoned, SilenceHeartbeat, HeartbeatExpires
  <2>6. jobs' = jobs
    BY <1>0, <1>3, <2>1, <2>2, <2>3, <2>4, <2>5, JobWriters DEF JobsWritten
  <2>. QED BY <2>0, <2>6
<1>. QED BY <1>1, <1>2, <1>3

-----------------------------------------------------------------------------
(* Objects and artifact rows: outside of a deletion they are only gained *)

Grows ==
    /\ "normalized" \in objects => "normalized" \in objects'
    /\ frames \subseteq frames' /\ artifacts \subseteq artifacts'

\* Requests remove uploads only.
LEMMA RequestGrows ==
    ASSUME NEW r, RequestStarts(r) \/ RequestProceeds(r) \/ Abandon(r) \/ PutError(r)
    PROVE  Grows
<1>. USE DEF Grows, storeVars, mediaVars, rowVars, PutObject, DeleteObjects
<1>1. CASE RequestStarts(r)
  BY <1>1 DEF RequestStarts, CreateReplay, PutStart, ClientUploadStart,
     CompleteStart, RetryStart, DeleteStart
<1>2. CASE PutWrite(r) \/ PutMark(r) \/ PutCommit(r) \/ PutCleanup(r) \/ ClientUpload(r)
  BY <1>2 DEF PutWrite, PutMark, PutCommit, PutCleanup, ClientUpload
<1>3. CASE CompleteStat(r) \/ PromoteHead(r) \/ PromoteCopy(r) \/ PromoteDrop(r) \/ CompleteReject(r)
             \/ CompleteMark(r) \/ CompleteQueue(r)
  BY <1>3 DEF CompleteStat, PromoteHead, PromoteCopy, PromoteDrop, CompleteReject, CompleteMark,
     CompleteQueue, Stat, Copy
<1>4. CASE RetryStat(r) \/ RetryQueue(r) \/ DeleteMark(r) \/ DeleteEnqueue(r)
             \/ Abandon(r) \/ PutError(r)
  BY <1>4 DEF RetryStat, RetryQueue, DeleteMark, DeleteEnqueue, Abandon, PutError
<1>. QED
  BY <1>1, <1>2, <1>3, <1>4 DEF RequestProceeds

\* Consumers take away what a pipeline stored only during a deletion.
LEMMA WorkerGrows ==
    ASSUME NEW w \in Workers, SweptIsGone, ~Gone,
           WorkerProceeds(w) \/ Progress(w) \/ Heartbeat(w)
             \/ PipelineError(w) \/ DeletionError(w) \/ SucceedError(w)
    PROVE  Grows
<1>. USE DEF Grows, KeepMedia, PutObject, DeleteObjects
<1>0. ~Deleting /\ pc[w] \notin SweepStep
  BY DEF Gone, Deleting, DeletionStatus, SweptIsGone
<1>1. CASE ClaimJob(w) \/ Heartbeat(w) \/ PipelineError(w) \/ SucceedError(w)
  BY <1>1 DEF ClaimJob, Heartbeat, PipelineError, SucceedError
<1>2. CASE Load(w) \/ Download(w) \/ Progress(w)
  BY <1>2 DEF Load, Download, Progress
<1>3. CASE StoreHash(w) \/ Probe(w) \/ Normalize(w) \/ Extract(w) \/ Ready(w) \/ FrameDone(w)
  BY <1>3 DEF StoreHash, Probe, Normalize, Extract, Ready, FrameDone, Transition
<1>4. CASE NormalizedCheck(w) \/ NormalizedUpload(w) \/ NormalizedRecheck(w)
  BY <1>0, <1>4 DEF NormalizedCheck, NormalizedUpload, NormalizedRecheck, Check
<1>5. CASE FrameCheck(w) \/ FrameReuse(w) \/ FrameUpload(w) \/ FrameRecheck(w) \/ FrameUpsert(w)
  BY <1>0, <1>5 DEF FrameCheck, FrameReuse, FrameUpload, FrameRecheck, FrameUpsert, Check
<1>6. CASE SettleProceeds(w)
  BY <1>0, <1>6 DEF SettleProceeds, SettleJob, FailProcess, ReadFailed, MarkFailed,
     FailJob, Sweep, SweepRows, CancelJob, Doing, SweepStep
<1>7. CASE DeletionProceeds(w)
  BY <1>0, <1>7 DEF DeletionProceeds, SourceRead, SourceDelete, SourceClear, AllRead,
     AllMark, AllSweep, AllRows, AllScrub, Doing, SweepStep
<1>8. CASE DeletionError(w)
  BY <1>0, <1>8 DEF DeletionError, SweepStep
<1>. QED
  BY <1>1, <1>2, <1>3, <1>4, <1>5, <1>6, <1>7, <1>8 DEF WorkerProceeds, ProcessProceeds

\* So does every step.
LEMMA MediaKept ==
    ASSUME SweptIsGone, ~Gone, [Next]_vars
    PROVE  Grows
<1>1. CASE UNCHANGED vars
  BY <1>1 DEF vars, storeVars, Grows
<1>2. ASSUME NEW r \in Requests, BeginRequest(r) \/ ServeRequest(r) \/ FailRequest(r)
      PROVE  Grows
  BY <1>2, RequestGrows DEF BeginRequest, ServeRequest, FailRequest
<1>3. ASSUME NEW w \in Workers,
             RunConsumer(w) \/ ReportProgress(w) \/ SendHeartbeat(w)
               \/ StartWorker(w) \/ FailStep(w) \/ CrashWorker(w) \/ KillConsumer(w)
      PROVE  Grows
  <2>1. CASE RunConsumer(w) \/ ReportProgress(w) \/ SendHeartbeat(w) \/ FailStep(w)
    BY <2>1, WorkerGrows DEF RunConsumer, ReportProgress, SendHeartbeat, FailStep
  <2>2. CASE StartWorker(w) \/ CrashWorker(w) \/ KillConsumer(w)
    BY <2>2 DEF StartWorker, CrashWorker, KillConsumer, mediaVars, Grows
  <2>. QED BY <1>3, <2>1, <2>2
<1>4. ASSUME NEW j \in JobIds, EndRetryDelay(j) \/ ExpireAbandoned(j) \/ SilenceHeartbeat(j)
      PROVE  Grows
  BY <1>4 DEF EndRetryDelay, BecomesAvailable, ExpireAbandoned, SilenceHeartbeat,
     HeartbeatExpires, mediaVars, Grows
<1>5. CASE RunRetention
  BY <1>5 DEF RunRetention, EnqueueDueRetention, QueueRetention, PurgeTombstone,
     TombstoneDue, Gone, Grows
<1>6. CASE AdvanceClock
  BY <1>6 DEF AdvanceClock, Tick, Grows
<1>. QED
  BY <1>1, <1>2, <1>3, <1>4, <1>5, <1>6 DEF Next

-----------------------------------------------------------------------------
(* Consumers: each moves by its own steps *)

ConsumerStep(w) ==
    \/ RunConsumer(w) \/ ReportProgress(w) \/ FailStep(w)
    \/ StartWorker(w) \/ CrashWorker(w) \/ KillConsumer(w)

\* The other consumers stand where they stood.
Alone(w) ==
    \A v \in Workers \ {w} : pc'[v] = pc[v] /\ frame'[v] = frame[v]

\* Every other step leaves the consumers where they are.
LEMMA ConsumerSteps ==
    ASSUME [Next]_vars
    PROVE  UNCHANGED <<pc, frame>> \/ \E w \in Workers : ConsumerStep(w)
<1>1. CASE UNCHANGED vars
  BY <1>1 DEF vars, workerVars
<1>2. ASSUME NEW r \in Requests, BeginRequest(r) \/ ServeRequest(r) \/ FailRequest(r)
      PROVE  UNCHANGED <<pc, frame>>
  BY <1>2 DEF BeginRequest, ServeRequest, FailRequest, workerVars
<1>3. ASSUME NEW w \in Workers, SendHeartbeat(w)
      PROVE  UNCHANGED <<pc, frame>>
  BY <1>3 DEF SendHeartbeat, Heartbeat, workerVars
<1>4. ASSUME NEW j \in JobIds, EndRetryDelay(j) \/ ExpireAbandoned(j) \/ SilenceHeartbeat(j)
      PROVE  UNCHANGED <<pc, frame>>
  BY <1>4 DEF EndRetryDelay, ExpireAbandoned, SilenceHeartbeat, HeartbeatExpires, workerVars
<1>5. CASE RunRetention \/ AdvanceClock
  BY <1>5 DEF RunRetention, AdvanceClock, workerVars
<1>. QED BY <1>1, <1>2, <1>3, <1>4, <1>5 DEF Next, ConsumerStep

\* A step of the loop over the frames: a next frame, or the end of the loop.
LEMMA FrameDoneMoves ==
    ASSUME NEW w \in Workers, PlaceOK, FrameDone(w)
    PROVE  \/ Moved(w) /\ pc'[w] \in {"sweep", "fail_process"}
           \/ /\ pc' = [pc EXCEPT ![w] =
                          IF frame[w] < NumFrames THEN "frame_check" ELSE "ready"]
              /\ frame' = [frame EXCEPT ![w] = frame[w] + 1]
<1>. USE DEF PlaceOK, ProcessorTypeOK
<1>1. CASE MayWrite(w, {"extracting"})
  BY <1>1 DEF FrameDone
<1>2. CASE ~MayWrite(w, {"extracting"})
  BY <1>2 DEF FrameDone, Doing, Moved, Onward, Raise, RaiseProcess, Busy, BusyStep,
     ProcessStep, SettleStep, FrameStep, EarlyStep, Settling
<1>. QED BY <1>1, <1>2

\* A step of one consumer moves that one.
LEMMA ConsumerAlone ==
    ASSUME NEW w \in Workers, PlaceOK, ConsumerStep(w)
    PROVE  Alone(w)
<1>. USE DEF PlaceOK, ProcessorTypeOK, Alone
<1>1. ASSUME Moved(w) PROVE Alone(w)
  BY <1>1 DEF Moved, Onward, Release
<1>2. CASE RunConsumer(w) \/ ReportProgress(w) \/ FailStep(w)
  <2>1. CASE ClaimJob(w)
    BY <2>1 DEF ClaimJob, Step
  <2>2. CASE FrameDone(w)
    BY <1>1, <2>2, FrameDoneMoves
  <2>. QED
    BY <1>1, <1>2, <2>1, <2>2, ProcessMoves, SettleMoves
       DEF RunConsumer, ReportProgress, FailStep, WorkerProceeds
<1>3. CASE StartWorker(w)
  BY <1>3 DEF StartWorker, Step
<1>4. CASE CrashWorker(w) \/ KillConsumer(w)
  BY <1>4 DEF CrashWorker, KillConsumer, Die, Lose, Release
<1>. QED BY <1>2, <1>3, <1>4 DEF ConsumerStep

\* Who begins to sweep has seen the deletion, or has just begun it.
LEMMA SweepBegins ==
    ASSUME NEW w \in Workers, TypeInv, ConsumerStep(w), pc'[w] \in SweepStep
    PROVE  pc[w] \in SweepStep \/ Deleting \/ Gone'
<1>. USE DEF SweepStep, Doing, Step, Raise, RaiseProcess
<1>0. pc \in [Workers -> BusyStep \cup {"idle", "dead", "down"}]
  BY DEF TypeInv, PlaceOK, ProcessorTypeOK
<1>a. ASSUME NEW state \in {"idle", "dead", "down"}, Release(w, state)
      PROVE  pc'[w] \notin SweepStep
  BY <1>0, <1>a DEF Release
<1>1. CASE RunConsumer(w) \/ ReportProgress(w)
  <2>1. CASE ClaimJob(w)
    <3>1. PICK j \in JobIds : pc'[w] = FirstStep(jobs[j].kind)
      BY <1>0, <2>1 DEF ClaimJob
    <3>2. jobs[j].kind \in JobKind
      BY DEF TypeInv, JobsOK, Job
    <3>. QED BY <3>1, <3>2 DEF FirstStep, JobKind
  <2>2. CASE Load(w) \/ Download(w) \/ Progress(w)
    BY <1>0, <2>2 DEF Load, Download, Progress, workerVars
  <2>3. CASE StoreHash(w) \/ Probe(w) \/ Normalize(w) \/ Extract(w) \/ Ready(w)
    BY <1>0, <2>3 DEF StoreHash, Probe, Normalize, Extract, Ready, Transition
  <2>4. CASE FrameDone(w)
    BY <1>0, <2>4 DEF FrameDone
  <2>5. CASE NormalizedCheck(w) \/ NormalizedUpload(w) \/ NormalizedRecheck(w)
    BY <1>0, <2>5 DEF NormalizedCheck, NormalizedUpload, NormalizedRecheck, Check
  <2>6. CASE FrameCheck(w) \/ FrameReuse(w) \/ FrameUpload(w) \/ FrameRecheck(w) \/ FrameUpsert(w)
    BY <1>0, <2>6 DEF FrameCheck, FrameReuse, FrameUpload, FrameRecheck, FrameUpsert, Check
  <2>7. CASE SettleProceeds(w)
    BY <1>0, <1>a, <2>7 DEF SettleProceeds, SettleJob, FailProcess, ReadFailed, MarkFailed,
       FailJob, Sweep, SweepRows, CancelJob, Finish, FinishWriting, Lose, Die
  <2>8. CASE SourceRead(w) \/ SourceDelete(w) \/ SourceClear(w)
    BY <1>0, <2>8 DEF SourceRead, SourceDelete, SourceClear
  <2>9. CASE AllRead(w) \/ AllSweep(w) \/ AllRows(w) \/ AllScrub(w)
    BY <1>0, <2>9 DEF AllRead, AllSweep, AllRows, AllScrub
  <2>10. CASE AllMark(w)
    <3>1. row \in Row
      BY DEF TypeInv, TypeOK, StoreTypeOK
    <3>. QED BY <1>0, <2>10, <3>1 DEF AllMark, Write, Gone, Row
  <2>. QED
    BY <1>1, <2>1, <2>2, <2>3, <2>4, <2>5, <2>6, <2>7, <2>8, <2>9, <2>10
       DEF RunConsumer, ReportProgress, WorkerProceeds, ProcessProceeds, DeletionProceeds
<1>2. CASE FailStep(w)
  BY <1>0, <1>2 DEF FailStep, PipelineError, DeletionError, SucceedError
<1>3. CASE StartWorker(w) \/ CrashWorker(w) \/ KillConsumer(w)
  BY <1>0, <1>a, <1>3 DEF StartWorker, CrashWorker, KillConsumer, Die, Lose
<1>. QED BY <1>1, <1>2, <1>3 DEF ConsumerStep

-----------------------------------------------------------------------------
(* What consumers have stored *)

\* A step of another consumer, or of none, takes nothing of it away.
LEMMA StoredStays ==
    ASSUME NEW w \in Workers, Stored(w), Grows,
           pc'[w] = pc[w], frame'[w] = frame[w],
           row.normalized_key => row'.normalized_key
    PROVE  Stored(w)'
BY DEF Stored, Grows

\* A consumer outside of these steps has nothing to answer for.
LEMMA NothingStored ==
    ASSUME NEW w \in Workers, pc'[w] \notin AfterUpload
    PROVE  Stored(w)'
BY DEF Stored, AfterUpload, InFrames, FrameStep

\* A step of the pipeline finds in the store what the next one relies on.
LEMMA PipelineStored ==
    ASSUME NEW w \in Workers, PlaceOK, Stored(w), Grows, ~Gone,
           row.normalized_key => row'.normalized_key,
           ProcessProceeds(w)
    PROVE  Stored(w)'
<1>. USE DEF Doing, Step, Raise, RaiseProcess
<1>0. /\ pc \in [Workers -> BusyStep \cup {"idle", "dead", "down"}]
      /\ frame \in [Workers -> 1..NumFrames + 1]
      /\ ~Deleting
  BY DEF PlaceOK, ProcessorTypeOK, Gone, Deleting, DeletionStatus
<1>a. ASSUME pc'[w] \in {"sweep", "fail_process", "download", "hash", "probe", "normalize",
                         "normalized_check", "normalized_upload", "succeed"}
      PROVE  Stored(w)'
  BY <1>a, NothingStored DEF AfterUpload, InFrames, FrameStep
<1>1. CASE Load(w) \/ Download(w) \/ StoreHash(w) \/ Probe(w)
  BY <1>0, <1>1, <1>a DEF Load, Download, StoreHash, Probe, Transition
<1>2. CASE Normalize(w) \/ NormalizedCheck(w) \/ Ready(w)
  BY <1>0, <1>2, <1>a DEF Normalize, NormalizedCheck, Ready, Transition, Check
<1>3. CASE NormalizedUpload(w)
  BY <1>0, <1>3 DEF NormalizedUpload, PutObject, Stored, InFrames, FrameStep
<1>4. CASE NormalizedRecheck(w)
  <2>1. CASE pc'[w] = "extract" /\ objects' = objects
    BY <1>4, <2>1 DEF NormalizedRecheck, Stored, AfterUpload, InFrames, FrameStep
  <2>. QED
    BY <1>0, <1>4, <1>a, <2>1 DEF NormalizedRecheck, Check, KeepMedia
<1>5. CASE Extract(w)
  <2>1. CASE MayWrite(w, {"transcoding", "extracting"})
    <3>1. pc'[w] = "frame_check" /\ frame'[w] = frame[w]
      BY <1>0, <1>5, <2>1 DEF Extract, Transition
    <3>2. row' = [row EXCEPT !.status = "extracting", !.normalized_key = TRUE]
      BY <1>5, <2>1 DEF Extract, Transition, Write
    <3>3. pc[w] = "extract" /\ "normalized" \in objects'
      BY <1>5 DEF Extract, Stored, AfterUpload, Grows
    <3>4. frame[w] = 1
      BY <3>3 DEF PlaceOK, EarlyStep, ProcessStep, FrameStep
    <3>. QED
      BY <3>1, <3>2, <3>3, <3>4 DEF Stored, AfterUpload, InFrames, FrameStep, FrameIds
  <2>2. CASE ~MayWrite(w, {"transcoding", "extracting"})
    BY <1>0, <1>5, <1>a, <2>2 DEF Extract, Transition
  <2>. QED BY <2>1, <2>2
<1>6. CASE FrameCheck(w) \/ FrameReuse(w) \/ FrameUpload(w) \/ FrameRecheck(w) \/ FrameUpsert(w)
  <2>1. pc'[w] = "fail_process" \/ (pc'[w] \in FrameStep /\ frame'[w] = frame[w])
    BY <1>0, <1>6 DEF FrameCheck, FrameReuse, FrameUpload, FrameRecheck, FrameUpsert, Check,
       FrameStep
  <2>2. pc[w] \in FrameStep
    BY <1>6 DEF FrameCheck, FrameReuse, FrameUpload, FrameRecheck, FrameUpsert, FrameStep
  <2>3. ASSUME pc'[w] \in FrameStep, frame'[w] = frame[w]
        PROVE  /\ "normalized" \in objects' /\ row'.normalized_key
               /\ \A f \in FrameIds : f < frame'[w] => f \in frames' \cap artifacts'
    BY <2>2, <2>3 DEF Stored, AfterUpload, InFrames, Grows
  <2>4. pc'[w] \in {"frame_reuse", "frame_recheck", "frame_upsert", "frame_done"} =>
          frame[w] \in frames'
    BY <1>0, <1>6 DEF FrameCheck, FrameReuse, FrameUpload, FrameRecheck, FrameUpsert, Check,
       KeepMedia, Stored
  <2>5. pc'[w] \in {"frame_reuse", "frame_done"} => frame[w] \in artifacts'
    BY <1>0, <1>6 DEF FrameCheck, FrameReuse, FrameUpload, FrameRecheck, FrameUpsert, Check,
       KeepMedia, Stored
  <2>6. "ready" \notin FrameStep
    BY DEF FrameStep
  <2>. QED
    BY <1>a, <2>1, <2>3, <2>4, <2>5, <2>6 DEF Stored, AfterUpload, InFrames, FrameStep
<1>7. CASE FrameDone(w)
  <2>. DEFINE step == IF frame[w] < NumFrames THEN "frame_check" ELSE "ready"
  <2>1. CASE pc' = [pc EXCEPT ![w] = step] /\ frame' = [frame EXCEPT ![w] = frame[w] + 1]
    <3>1. /\ pc'[w] = step /\ frame'[w] = frame[w] + 1
          /\ pc[w] = "frame_done" /\ frame[w] \in 1..NumFrames
      BY <1>0, <1>7, <2>1 DEF FrameDone, PlaceOK, FrameStep, FrameIds
    <3>2. /\ "normalized" \in objects' /\ row'.normalized_key
          /\ \A f \in FrameIds : f < frame[w] => f \in frames' \cap artifacts'
          /\ frame[w] \in frames' \cap artifacts'
      BY <3>1 DEF Stored, AfterUpload, InFrames, FrameStep, Grows
    <3>3. \A f \in FrameIds : f < frame'[w] => f \in frames' \cap artifacts'
      BY <3>1, <3>2, CountsAssumption DEF FrameIds
    <3>4. step = "ready" => frame'[w] = NumFrames + 1
      BY <3>1, CountsAssumption
    <3>5. step \in {"frame_check", "ready"}
      OBVIOUS
    <3>. HIDE DEF step
    <3>. QED BY <3>1, <3>2, <3>3, <3>4, <3>5 DEF Stored
  <2>. QED BY <1>7, <1>a, <2>1, FrameDoneMoves
<1>. QED BY <1>1, <1>2, <1>3, <1>4, <1>5, <1>6, <1>7 DEF ProcessProceeds

\* Whatever step a consumer takes, it has stored what its place says.
LEMMA ConsumerStored ==
    ASSUME NEW w \in Workers, TypeInv, Stored(w), Grows, ~Gone,
           row.normalized_key => row'.normalized_key,
           ConsumerStep(w)
    PROVE  Stored(w)'
<1>0. PlaceOK /\ pc \in [Workers -> BusyStep \cup {"idle", "dead", "down"}]
  BY DEF TypeInv, PlaceOK, ProcessorTypeOK
<1>. USE DEF Doing, Step, Raise, RaiseProcess
<1>a. ASSUME pc'[w] \in SettleStep \cup DeleteStep \cup {"load", "idle", "dead", "down"}
      PROVE  Stored(w)'
  BY <1>a, NothingStored DEF AfterUpload, InFrames, FrameStep, SettleStep, DeleteStep
<1>b. ASSUME NEW state \in {"idle", "dead", "down"}, Release(w, state)
      PROVE  Stored(w)'
  BY <1>0, <1>a, <1>b DEF Release
<1>1. CASE RunConsumer(w)
  <2>1. CASE ClaimJob(w)
    <3>1. PICK j \in JobIds : pc'[w] = FirstStep(jobs[j].kind)
      BY <1>0, <2>1 DEF ClaimJob
    <3>2. jobs[j].kind \in JobKind
      BY DEF TypeInv, JobsOK, Job
    <3>. QED BY <1>a, <3>1, <3>2 DEF FirstStep, JobKind, DeleteStep
  <2>2. CASE ProcessProceeds(w)
    BY <1>0, <2>2, PipelineStored
  <2>3. CASE SettleProceeds(w)
    BY <1>0, <1>a, <1>b, <2>3 DEF SettleProceeds, SettleJob, FailProcess, ReadFailed,
       MarkFailed, FailJob, Sweep, SweepRows, CancelJob, Finish, FinishWriting, Lose, Die,
       SettleStep
  <2>4. CASE DeletionProceeds(w)
    BY <1>0, <1>a, <2>4 DEF DeletionProceeds, SourceRead, SourceDelete, SourceClear, AllRead,
       AllMark, AllSweep, AllRows, AllScrub, SettleStep, DeleteStep
  <2>. QED BY <1>1, <2>1, <2>2, <2>3, <2>4 DEF RunConsumer, WorkerProceeds
<1>2. CASE ReportProgress(w)
  <2>1. pc'[w] \in {"normalize", "fail_process", "sweep"}
    BY <1>0, <1>2 DEF ReportProgress, Progress, workerVars
  <2>. QED BY <2>1, NothingStored DEF AfterUpload, InFrames, FrameStep
<1>3. CASE FailStep(w)
  BY <1>0, <1>3, <1>a DEF FailStep, PipelineError, DeletionError, SucceedError, SettleStep
<1>4. CASE StartWorker(w) \/ CrashWorker(w) \/ KillConsumer(w)
  BY <1>0, <1>a, <1>b, <1>4 DEF StartWorker, CrashWorker, KillConsumer, Die, Lose
<1>. QED BY <1>1, <1>2, <1>3, <1>4 DEF ConsumerStep

-----------------------------------------------------------------------------
(* A ready replay is complete *)

\* It holds before the replay exists.
LEMMA InitReady == Init => ReadyInv
<1> SUFFICES ASSUME Init PROVE ReadyInv
    OBVIOUS
<1>1. row.status = "unborn" /\ ~row.normalized_key
  BY DEF Init, StoreInit, UnbornRow
<1>2. JobsNeedRow
  BY DEF Init, StoreInit, NoJob, JobsNeedRow, JobExists
<1>3. SweptIsGone /\ AllStored
  BY DEF Init, ProcessorInit, SweptIsGone, SweepStep, AllStored, Stored, AfterUpload,
     InFrames, FrameStep
<1>. QED BY <1>1, <1>2, <1>3 DEF ReadyInv, UnbornHasNoKey, ReadyIsComplete

\* Every step preserves it.
LEMMA NextReady ==
    ASSUME TypeInv, ReadyInv, [Next]_vars, TypeInv'
    PROVE  ReadyInv'
<1>0. /\ RowTypeOK /\ PlaceOK /\ JobsNeedRow /\ UnbornHasNoKey /\ SweptIsGone /\ AllStored
      /\ pc \in [Workers -> BusyStep \cup {"idle", "dead", "down"}]
  BY DEF TypeInv, TypeOK, StoreTypeOK, RowTypeOK, ReadyInv, PlaceOK, ProcessorTypeOK
<1>1. JobsNeedRow' /\ UnbornHasNoKey' /\ (Gone => Gone')
  BY <1>0, JobsKept, RowKept
<1>2. SweptIsGone'
  <2>1. ASSUME NEW v \in Workers, pc'[v] = pc[v], pc'[v] \in SweepStep PROVE Gone'
    BY <1>0, <1>1, <2>1 DEF SweptIsGone
  <2>2. ASSUME NEW w \in Workers, ConsumerStep(w), pc'[w] \in SweepStep PROVE Gone'
    BY <1>0, <1>1, <2>2, SweepBegins DEF SweptIsGone, Gone, Deleting, DeletionStatus
  <2>3. ASSUME NEW w \in Workers, ConsumerStep(w), NEW v \in Workers, pc'[v] \in SweepStep
        PROVE  Gone'
    BY <1>0, <2>1, <2>2, <2>3, ConsumerAlone DEF Alone
  <2>. QED BY <2>1, <2>3, ConsumerSteps DEF SweptIsGone
<1>3. ASSUME ~Gone'
      PROVE  ~Gone /\ Grows /\ (row.normalized_key => row'.normalized_key)
  BY <1>0, <1>1, <1>3, MediaKept, RowKept
<1>4. AllStored'
  <2>. SUFFICES ASSUME ~Gone', NEW v \in Workers PROVE Stored(v)'
    BY DEF AllStored
  <2>1. Stored(v)
    BY <1>0, <1>3 DEF AllStored
  <2>2. CASE UNCHANGED <<pc, frame>>
    BY <1>3, <2>1, <2>2, StoredStays
  <2>3. ASSUME NEW w \in Workers, ConsumerStep(w), v # w PROVE Stored(v)'
    BY <1>0, <1>3, <2>1, <2>3, ConsumerAlone, StoredStays DEF Alone
  <2>4. CASE ConsumerStep(v)
    BY <1>3, <2>1, <2>4, ConsumerStored
  <2>. QED BY <2>2, <2>3, <2>4, ConsumerSteps
<1>5. ReadyIsComplete'
  <2>. SUFFICES ASSUME row'.status = "ready"
                PROVE  /\ "normalized" \in objects' /\ row'.normalized_key
                       /\ frames' = FrameIds /\ artifacts' = FrameIds
    BY DEF ReadyIsComplete
  <2>1. ~Gone' /\ frames' \subseteq FrameIds /\ artifacts' \subseteq FrameIds
    BY DEF Gone, TypeInv, TypeOK, StoreTypeOK
  <2>2. ~Gone /\ Grows /\ (row.normalized_key => row'.normalized_key)
    BY <1>3, <2>1
  <2>3. CASE row.status = "ready"
    BY <2>1, <2>2, <2>3 DEF ReadyInv, ReadyIsComplete, Grows
  <2>4. ASSUME NEW w \in Workers, Ready(w), row.status # "ready"
        PROVE  "normalized" \in objects /\ row.normalized_key
                 /\ FrameIds \subseteq frames /\ FrameIds \subseteq artifacts
    <3>1. pc[w] = "ready" /\ Stored(w)
      BY <1>0, <2>2, <2>4 DEF Ready, Doing, AllStored
    <3>2. \A f \in FrameIds : f < frame[w]
      BY <3>1, CountsAssumption DEF Stored, FrameIds
    <3>. QED BY <3>1, <3>2 DEF Stored, AfterUpload, InFrames
  <2>5. ASSUME row.status # "ready" PROVE \E w \in Workers : Ready(w)
    BY <1>0, <2>5, RowKept
  <2>. QED BY <2>1, <2>2, <2>3, <2>4, <2>5 DEF Grows
<1>. QED BY <1>1, <1>2, <1>4, <1>5 DEF ReadyInv

\* A replay that is shown as ready has the normalized video, every planned
\* frame and the row of each: whatever steps fail, whichever processes are
\* killed or restarted too early, with two consumers at work on one job after a
\* heartbeat fell silent, and with a deletion that sweeps while they upload
\* (_upload_if_not_deleting, _upsert_frame, _sweep_cancelled_derived, the
\* version test of transition).
THEOREM ReadyComplete == Spec => []ReadyIsComplete
<1>1. Init => ReadyInv
  BY InitReady
<1>2. TypeInv /\ TypeInv' /\ ReadyInv /\ [Next]_vars => ReadyInv'
  BY NextReady
<1>3. ReadyInv => ReadyIsComplete
  BY DEF ReadyInv
<1>. QED BY <1>1, <1>2, <1>3, SpecTypeInv, PTL DEF Spec

-----------------------------------------------------------------------------
(* The life cycle.  Recovery is the one writer that does not look at the       *)
(* status it overwrites, and it runs at the start of a process only.           *)

NoneDown == \A w \in Workers : pc[w] # "down"

\* A process that nobody kills stays up.
LEMMA StaysUp ==
    ASSUME "crash" \notin Faults, TypeInv, NoneDown, [Next]_vars
    PROVE  NoneDown'
<1>0. PlaceOK /\ pc \in [Workers -> BusyStep \cup {"idle", "dead", "down"}]
  BY DEF TypeInv, PlaceOK, ProcessorTypeOK
<1>1. ASSUME NEW w \in Workers, ConsumerStep(w)
      PROVE  pc'[w] # "down"
  <2>. USE DEF Doing, Step, Raise, RaiseProcess, Release, Lose, Die
  <2>1. CASE ClaimJob(w)
    <3>1. PICK j \in JobIds : pc'[w] = FirstStep(jobs[j].kind)
      BY <1>0, <2>1 DEF ClaimJob
    <3>2. jobs[j].kind \in JobKind
      BY DEF TypeInv, JobsOK, Job
    <3>. QED BY <3>1, <3>2 DEF FirstStep, JobKind
  <2>2. CASE ProcessProceeds(w) \/ ReportProgress(w)
    <3>1. CASE Load(w) \/ Download(w) \/ StoreHash(w) \/ Probe(w) \/ ReportProgress(w)
      BY <1>0, <3>1 DEF Load, Download, StoreHash, Probe, ReportProgress, Progress, Transition,
         workerVars, NoneDown
    <3>2. CASE Normalize(w) \/ NormalizedCheck(w) \/ NormalizedUpload(w) \/ NormalizedRecheck(w)
      BY <1>0, <3>2 DEF Normalize, NormalizedCheck, NormalizedUpload, NormalizedRecheck,
         Transition, Check
    <3>3. CASE Extract(w) \/ Ready(w) \/ FrameDone(w)
      BY <1>0, <3>3 DEF Extract, Ready, FrameDone, Transition
    <3>4. CASE FrameCheck(w) \/ FrameReuse(w) \/ FrameUpload(w) \/ FrameRecheck(w)
                 \/ FrameUpsert(w)
      BY <1>0, <3>4 DEF FrameCheck, FrameReuse, FrameUpload, FrameRecheck, FrameUpsert, Check
    <3>. QED BY <2>2, <3>1, <3>2, <3>3, <3>4 DEF ProcessProceeds
  <2>3. CASE SettleProceeds(w)
    BY <1>0, <2>3 DEF SettleProceeds, SettleJob, FailProcess, ReadFailed, MarkFailed, FailJob,
       Sweep, SweepRows, CancelJob, Finish, FinishWriting
  <2>4. CASE DeletionProceeds(w)
    BY <1>0, <2>4 DEF DeletionProceeds, SourceRead, SourceDelete, SourceClear, AllRead,
       AllMark, AllSweep, AllRows, AllScrub
  <2>5. CASE FailStep(w) \/ StartWorker(w) \/ KillConsumer(w)
    BY <1>0, <2>5 DEF FailStep, PipelineError, DeletionError, SucceedError, StartWorker,
       KillConsumer
  <2>6. ~CrashWorker(w)
    BY DEF CrashWorker, Fault
  <2>. QED
    BY <1>1, <2>1, <2>2, <2>3, <2>4, <2>5, <2>6 DEF ConsumerStep, RunConsumer, WorkerProceeds
<1>2. ASSUME NEW w \in Workers, ConsumerStep(w), NEW v \in Workers PROVE pc'[v] # "down"
  BY <1>0, <1>1, <1>2, ConsumerAlone DEF NoneDown, Alone
<1>. QED BY <1>2, ConsumerSteps DEF NoneDown

-----------------------------------------------------------------------------
(* The statuses a step may lead to *)

StatusStep ==
    \/ row'.status = row.status
    \/ row.status = "unborn" /\ row'.status = "created"
    \/ row.status = "created" /\ row'.status = "uploaded"
    \/ /\ row.status \in {"uploaded", "failed"} \cup ProcessingStatus
       /\ row'.status \in ProcessingStatus
    \/ row.status \in ProcessingStatus /\ row'.status \in {"ready", "failed"}
    \/ row.status \in ReplayStatus \ DeletionStatus /\ row'.status = "deleting"
    \/ row.status = "deleting" /\ row'.status = "deleted"
    \/ row.status = "deleted" /\ row'.status = "purged"

\* Every request names the statuses it may write over.
LEMMA RequestStatus ==
    ASSUME NEW r, RowTypeOK, RequestWritesRow(r)
    PROVE  StatusStep
<1>. USE DEF StatusStep, RowTypeOK, Row, MayWrite, Write, ProcessingStatus
<1>1. CASE CreateReplay(r)
  BY <1>1 DEF CreateReplay, Insert, UnbornRow
<1>2. CASE PutCommit(r) \/ CompleteMark(r)
  BY <1>2 DEF PutCommit, CompleteMark
<1>3. CASE CompleteQueue(r) \/ RetryQueue(r) \/ DeleteMark(r)
  BY <1>3 DEF CompleteQueue, RetryQueue, DeleteMark
<1>. QED BY <1>1, <1>2, <1>3 DEF RequestWritesRow

\* So does every consumer; the scrub, which names none, comes after a sweep.
LEMMA WorkerStatus ==
    ASSUME NEW w \in Workers, RowTypeOK, SweptIsGone, NoneDown, WorkerWritesRow(w)
    PROVE  StatusStep
<1>. USE DEF StatusStep, RowTypeOK, Row, MayWrite, Write, ProcessingStatus
<1>1. CASE StoreHash(w) \/ Probe(w) \/ Normalize(w) \/ Extract(w) \/ Ready(w)
  BY <1>1 DEF StoreHash, Probe, Normalize, Extract, Ready, Transition
<1>2. CASE Progress(w) \/ FrameDone(w) \/ AllMark(w)
  BY <1>2 DEF Progress, FrameDone, AllMark
<1>3. CASE MarkFailed(w) \/ SourceClear(w)
  BY <1>3 DEF MarkFailed, SourceClear
<1>4. CASE AllScrub(w)
  <2>1. Gone
    BY <1>4 DEF AllScrub, Doing, SweptIsGone, SweepStep
  <2>2. RowExists => row.status \in {"deleting", "deleted"}
    BY <2>1 DEF Gone, RowExists, ReplayStatus, DeletionStatus
  <2>. QED BY <1>4, <2>2 DEF AllScrub, ScrubDeleted, Scrubbed
<1>5. ~StartWorker(w)
  BY DEF StartWorker, Doing, NoneDown
<1>. QED BY <1>1, <1>2, <1>3, <1>4, <1>5 DEF WorkerWritesRow

\* And every step.
LEMMA StatusSteps ==
    ASSUME RowTypeOK, SweptIsGone, NoneDown, [Next]_vars
    PROVE  StatusStep
<1>1. CASE row' = row
  BY <1>1 DEF StatusStep
<1>2. CASE PurgeTombstone
  BY <1>2 DEF PurgeTombstone, TombstoneDue, UnbornRow, StatusStep
<1>3. CASE Tick
  BY <1>3 DEF Tick, StatusStep, RowTypeOK, Row
<1>. QED
  BY <1>1, <1>2, <1>3, RowWriters, RequestStatus, WorkerStatus DEF RowWritten, AdvanceClock

-----------------------------------------------------------------------------
(* The refinement *)

\* Each of those is a step of the life cycle, or none.
LEMMA StatusIsPhase ==
    ASSUME RowTypeOK, StatusStep
    PROVE  [Lifecycle!Next]_(PhaseOf(row.status))
<1>. USE DEF PhaseOf, RowTypeOK, Row, RowStatus, ReplayStatus, ProcessingStatus,
             DeletionStatus, Lifecycle!Next, Lifecycle!Move, Lifecycle!Live
<1>1. CASE row'.status = row.status
  BY <1>1
<1>2. CASE row.status = "unborn" /\ row'.status = "created"
  BY <1>2 DEF Lifecycle!Create
<1>3. CASE row.status = "created" /\ row'.status = "uploaded"
  BY <1>3
<1>4. CASE /\ row.status \in {"uploaded", "failed"} \cup ProcessingStatus
           /\ row'.status \in ProcessingStatus
  BY <1>4 DEF Lifecycle!Process
<1>5. CASE row.status \in ProcessingStatus /\ row'.status \in {"ready", "failed"}
  BY <1>5 DEF Lifecycle!Succeed, Lifecycle!Fail
<1>6. CASE row.status \in ReplayStatus \ DeletionStatus /\ row'.status = "deleting"
  BY <1>6 DEF Lifecycle!Delete
<1>7. CASE row.status = "deleting" /\ row'.status = "deleted"
  BY <1>7 DEF Lifecycle!Scrub
<1>8. CASE row.status = "deleted" /\ row'.status = "purged"
  BY <1>8 DEF Lifecycle!Purge
<1>. QED BY <1>1, <1>2, <1>3, <1>4, <1>5, <1>6, <1>7, <1>8 DEF StatusStep

\* Without kills every step of the subsystem is a step of the life cycle or
\* none: no request, consumer or retention run overwrites what another has
\* written, with failing steps, dying consumer tasks and silent heartbeats, and
\* the unconditional scrub (scrub_deleted) only ever finds a replay in deletion.
THEOREM ImplementsLifecycle ==
    ASSUME "crash" \notin Faults
    PROVE  Spec => LifecycleSpec
<1>1. Init => Lifecycle!Init /\ ReadyInv /\ NoneDown
  <2>1. Init => NoneDown
    BY DEF Init, ProcessorInit, NoneDown
  <2>2. Init => Lifecycle!Init
    BY DEF Init, StoreInit, UnbornRow, Lifecycle!Init, PhaseOf, ProcessingStatus
  <2>. QED BY <2>1, <2>2, InitReady
<1>2. TypeInv /\ TypeInv' /\ ReadyInv /\ [Next]_vars => ReadyInv'
  BY NextReady
<1>3. TypeInv /\ NoneDown /\ [Next]_vars => NoneDown'
  BY StaysUp
<1>4. TypeInv /\ ReadyInv /\ NoneDown /\ [Next]_vars
        => [Lifecycle!Next]_(PhaseOf(row.status))
  <2>1. TypeInv /\ ReadyInv => RowTypeOK /\ SweptIsGone
    BY DEF TypeInv, TypeOK, StoreTypeOK, RowTypeOK, ReadyInv
  <2>. QED BY <2>1, StatusSteps, StatusIsPhase
<1>. QED
  BY <1>1, <1>2, <1>3, <1>4, SpecTypeInv, PTL DEF Spec, LifecycleSpec, Lifecycle!Spec

-----------------------------------------------------------------------------
(* A replay in processing has a job.  A single consumer settles a job and then *)
(* the replay without another consumer in between; requests may be.            *)

OneConsumer == \A v, w \in Workers : v = w

\* The steps of a PROCESS job up to the transaction that settles it.
InProcess == ProcessStep \cup {"fail_process", "sweep", "sweep_rows", "cancel"}

\* The job of a consumer that has not settled it is running, is of the kind its
\* step is about, and is only given up when the replay does not need it.
HeldOK(w) ==
    row.status # "purged" /\ HoldsJob(w) =>
        LET job == jobs[holding[w]] IN
        /\ pc[w] \notin Settling => job.status = "running"
        /\ pc[w] \in InProcess => job.kind = "process"
        /\ pc[w] \in DeleteStep => job.kind # "process"
        /\ pc[w] = "fail" /\ job.kind = "process" => Gone
        /\ pc[w] = "succeed" /\ job.kind = "process" => row.status \notin ProcessingStatus
        /\ pc[w] = "cancel" => Gone

\* The status a consumer is about to write is owed to what became of its job,
\* and nobody else has written the row unless with a job of its own.
MarkOK(w) ==
    /\ pc[w] \in {"read_queued", "mark_queued"} =>
         HasActive("process") \/ row.status = "purged"
    /\ pc[w] = "mark_failed" /\ row.status \in ProcessingStatus =>
         w \in current \/ HasActive("process")

JobInv == ProcessingHasJob /\ \A w \in Workers : HeldOK(w) /\ MarkOK(w)

\* No row is created twice: a replay that is gone stays gone.
LEMMA PurgedStays ==
    ASSUME RowTypeOK, JobsNeedRow, [Next]_vars, row.status = "purged"
    PROVE  row'.status = "purged"
<1>1. ~RowExists
  BY DEF RowExists, ReplayStatus, ProcessingStatus, DeletionStatus
<1>2. ~Updated /\ ~PurgeTombstone
  BY <1>1 DEF Updated, PurgeTombstone, TombstoneDue
<1>3. \A r \in Requests : ~CreateReplay(r)
  BY DEF CreateReplay, Insert
<1>4. ASSUME NEW w \in Workers, Ready(w) PROVE row' = row
  BY <1>4 DEF Ready, Transition, MayWrite
<1>5. Tick => row'.status = row.status
  BY DEF Tick, RowTypeOK, Row
<1>. QED BY <1>2, <1>3, <1>4, <1>5, RowSteps

-----------------------------------------------------------------------------
(* Steps of anyone but the consumers *)

\* Jobs that are active or in a consumer's hands are as they were.
JobsCarried ==
    \A j \in JobIds :
        Active(j) \/ (\E w \in Workers : holding[w] = j) =>
            jobs'[j].status = jobs[j].status /\ jobs'[j].kind = jobs[j].kind
\* The replay stays what it was for its consumers, leaves processing, or is
\* queued together with a new job.
RowCarried ==
    \/ row'.status = row.status /\ current \cap Workers \subseteq current'
    \/ row'.status \notin ProcessingStatus
    \/ ~HasActive("process") /\ HasActive("process")'
Carried == JobsCarried /\ RowCarried

\* A new job takes a slot that nobody looks at.
LEMMA AddedJob ==
    ASSUME NEW kind, AddJob(kind), jobs \in [JobIds -> Job]
    PROVE  JobsCarried /\ ~HasActive(kind) /\ HasActive(kind)'
<1>1. PICK j \in JobIds : NextSlot(j) /\ jobs' = [jobs EXCEPT ![j] = NewJob(kind)]
  BY DEF AddJob
<1>2. JobsCarried
  BY <1>1 DEF JobsCarried, NextSlot, FreeSlot
<1>3. jobs'[j].status = "pending" /\ jobs'[j].kind = kind
  BY <1>1 DEF NewJob
<1>. QED BY <1>2, <1>3 DEF AddJob, HasActive, Active, ActiveJobStatus

\* A request gives a replay a status of processing only with a job for it.
LEMMA RequestCarries ==
    ASSUME NEW r \in Requests, RowTypeOK, jobs \in [JobIds -> Job],
           RequestStarts(r) \/ RequestProceeds(r) \/ Abandon(r) \/ PutError(r)
    PROVE  Carried
<1>. USE DEF rowVars, storeVars, Read, Forget
<1>0. r \notin Workers
  BY ProcessesAssumption
<1>a. jobs' = jobs => JobsCarried
  BY DEF JobsCarried
<1>b. row' = row /\ current \ {r} \subseteq current' => RowCarried
  BY <1>0 DEF RowCarried
<1>1. CASE RequestStarts(r)
  <2>1. CASE CreateReplay(r)
    BY <1>a, <2>1 DEF CreateReplay, Insert, UnbornRow, ProcessingStatus, Carried, RowCarried
  <2>. QED
    BY <1>1, <1>a, <1>b, <2>1 DEF RequestStarts, PutStart, ClientUploadStart, CompleteStart,
       RetryStart, DeleteStart, Carried
<1>2. CASE PutCommit(r) \/ CompleteMark(r) \/ DeleteMark(r)
  <2>1. row' = row \/ row'.status \in {"uploaded", "deleting"}
    BY <1>2 DEF PutCommit, CompleteMark, DeleteMark, Write, RowTypeOK, Row
  <2>2. row' = row => current \ {r} \subseteq current'
    BY <1>2 DEF PutCommit, CompleteMark, DeleteMark, Write, MayWrite, RowTypeOK, Row,
       DeletionStatus
  <2>3. jobs' = jobs
    BY <1>2 DEF PutCommit, CompleteMark, DeleteMark
  <2>. QED BY <1>a, <1>b, <2>1, <2>2, <2>3 DEF Carried, RowCarried, ProcessingStatus
<1>3. CASE CompleteQueue(r) \/ RetryQueue(r)
  <2>1. CASE AddJob("process")
    BY <2>1, AddedJob DEF Carried, RowCarried
  <2>2. CASE ~AddJob("process")
    BY <1>3, <1>a, <1>b, <2>2 DEF CompleteQueue, RetryQueue, Carried
  <2>. QED BY <2>1, <2>2
<1>4. CASE DeleteEnqueue(r)
  <2>1. CASE AddJob("delete_all")
    BY <1>4, <1>b, <2>1, AddedJob DEF DeleteEnqueue, Carried
  <2>2. CASE ~AddJob("delete_all")
    BY <1>4, <1>a, <1>b, <2>2 DEF DeleteEnqueue, EnsureJob, Carried
  <2>. QED BY <2>1, <2>2
<1>5. CASE PutWrite(r) \/ PutMark(r) \/ PutCleanup(r) \/ ClientUpload(r)
             \/ CompleteStat(r) \/ PromoteHead(r) \/ PromoteCopy(r) \/ PromoteDrop(r) \/ CompleteReject(r)
  BY <1>5, <1>a, <1>b DEF PutWrite, PutMark, PutCleanup, ClientUpload, CompleteStat,
     PromoteHead, PromoteCopy, PromoteDrop, CompleteReject, Stat, Copy, Carried
<1>6. CASE RetryStat(r) \/ Abandon(r) \/ PutError(r)
  BY <1>6, <1>a, <1>b DEF RetryStat, Abandon, PutError, Carried
<1>. QED
  BY <1>1, <1>2, <1>3, <1>4, <1>5, <1>6 DEF RequestProceeds

\* Neither does a step of the heartbeats, the recovery, the clean-up or the
\* clock; only the purge of the tombstone takes the jobs with the row.
LEMMA OthersCarry ==
    ASSUME TypeInv, [Next]_vars, \A w \in Workers : ~ConsumerStep(w)
    PROVE  UNCHANGED <<pc, holding>> /\ (PurgeTombstone \/ Carried)
<1>0. /\ RowTypeOK /\ PlaceOK /\ jobs \in [JobIds -> Job]
      /\ holding \in [Workers -> JobIds \cup {None}]
  BY DEF TypeInv, TypeOK, StoreTypeOK, RowTypeOK
<1>a. ASSUME jobs' = jobs PROVE JobsCarried
  BY <1>a DEF JobsCarried
<1>b. ASSUME row'.status = row.status, current' = current PROVE RowCarried
  BY <1>b DEF RowCarried
<1>c. ASSUME NEW j \in JobIds, NEW job \in Job, jobs' = [jobs EXCEPT ![j] = job],
             job.status = jobs[j].status, job.kind = jobs[j].kind
      PROVE  JobsCarried
  BY <1>0, <1>c DEF JobsCarried
<1>1. CASE UNCHANGED vars
  BY <1>1, <1>a, <1>b DEF vars, storeVars, workerVars, Carried
<1>2. ASSUME NEW r \in Requests, BeginRequest(r) \/ ServeRequest(r) \/ FailRequest(r)
      PROVE  UNCHANGED <<pc, holding>> /\ Carried
  BY <1>0, <1>2, RequestCarries, RequestKeepsHolding
     DEF BeginRequest, ServeRequest, FailRequest, workerVars
<1>3. ASSUME NEW w \in Workers, SendHeartbeat(w)
      PROVE  UNCHANGED <<pc, holding>> /\ Carried
  <2>1. holding[w] \in JobIds
    BY <1>0, <1>3 DEF SendHeartbeat, Heartbeat, PlaceOK
  <2>. DEFINE j == holding[w]
              alive == [jobs[j] EXCEPT !.stale = FALSE]
  <2>2. jobs[j] \in Job
    BY <1>0, <2>1
  <2>3. alive \in Job /\ alive.status = jobs[j].status /\ alive.kind = jobs[j].kind
    BY <2>2 DEF Job
  <2>4. jobs' = [jobs EXCEPT ![j] = alive]
    BY <1>3 DEF SendHeartbeat, Heartbeat
  <2>. HIDE DEF alive
  <2>5. JobsCarried
    BY <1>c, <2>1, <2>3, <2>4
  <2>. QED BY <1>3, <1>b, <2>5 DEF SendHeartbeat, Heartbeat, workerVars, Carried
<1>4. ASSUME NEW j \in JobIds, EndRetryDelay(j) \/ ExpireAbandoned(j) \/ SilenceHeartbeat(j)
      PROVE  UNCHANGED <<pc, holding>> /\ Carried
  <2>. DEFINE due == [jobs[j] EXCEPT !.due = TRUE]
              expired == [jobs[j] EXCEPT !.stale = TRUE]
  <2>1. jobs[j] \in Job
    BY <1>0
  <2>2. /\ due \in Job /\ due.status = jobs[j].status /\ due.kind = jobs[j].kind
        /\ expired \in Job /\ expired.status = jobs[j].status /\ expired.kind = jobs[j].kind
    BY <2>1 DEF Job
  <2>3. jobs' = [jobs EXCEPT ![j] = due] \/ jobs' = [jobs EXCEPT ![j] = expired]
    BY <1>4 DEF EndRetryDelay, BecomesAvailable, ExpireAbandoned, SilenceHeartbeat,
       HeartbeatExpires
  <2>. HIDE DEF due, expired
  <2>4. JobsCarried
    BY <1>c, <2>2, <2>3
  <2>. QED
    BY <1>4, <1>b, <2>4 DEF EndRetryDelay, BecomesAvailable, ExpireAbandoned,
       SilenceHeartbeat, HeartbeatExpires, workerVars, Carried
<1>5. CASE RunRetention
  <2>1. CASE QueueRetention
    <3>1. PICK kind \in JobKind : AddJob(kind)
      BY <2>1 DEF QueueRetention, JobKind
    <3>. QED
      BY <1>0, <1>5, <1>b, <2>1, <3>1, AddedJob
         DEF RunRetention, EnqueueDueRetention, QueueRetention, workerVars, Carried
  <2>. QED BY <1>5, <2>1 DEF RunRetention, EnqueueDueRetention, workerVars
<1>6. CASE AdvanceClock
  <2>1. row'.status = row.status
    BY <1>0, <1>6 DEF AdvanceClock, Tick, RowTypeOK, Row
  <2>. QED BY <1>6, <1>a, <1>b, <2>1 DEF AdvanceClock, Tick, workerVars, Carried
<1>. QED
  BY <1>1, <1>2, <1>3, <1>4, <1>5, <1>6 DEF Next, ConsumerStep

\* None of these steps takes a job from a replay in processing.
LEMMA OthersKeepJob ==
    ASSUME TypeInv, ReadyInv, JobInv, [Next]_vars, \A w \in Workers : ~ConsumerStep(w)
    PROVE  JobInv'
<1>0. /\ RowTypeOK /\ PlaceOK /\ JobsNeedRow /\ UnbornHasNoKey
      /\ holding \in [Workers -> JobIds \cup {None}]
  BY DEF TypeInv, TypeOK, StoreTypeOK, RowTypeOK, ReadyInv
<1>1. UNCHANGED <<pc, holding>> /\ (PurgeTombstone \/ Carried)
  BY OthersCarry
<1>2. CASE PurgeTombstone
  <2>1. row'.status = "purged"
    BY <1>2 DEF PurgeTombstone, UnbornRow
  <2>. QED BY <2>1 DEF JobInv, HeldOK, MarkOK, ProcessingHasJob, ProcessingStatus
<1>3. CASE Carried
  <2>1. HasActive("process") => HasActive("process")'
    BY <1>3 DEF Carried, JobsCarried, HasActive, Active
  <2>2. ASSUME NEW w \in Workers, row'.status # "purged", holding[w] # None
        PROVE  /\ row.status # "purged" /\ holding[w] \in JobIds
               /\ jobs'[holding[w]].status = jobs[holding[w]].status
               /\ jobs'[holding[w]].kind = jobs[holding[w]].kind
    <3>1. row.status # "purged" /\ holding[w] \in JobIds
      BY <1>0, <2>2, PurgedStays
    <3>. QED BY <1>3, <3>1 DEF Carried, JobsCarried
  <2>3. Gone => Gone'
    BY <1>0, RowKept
  <2>4. ASSUME NEW w \in Workers PROVE HeldOK(w)'
    <3>. SUFFICES ASSUME row'.status # "purged", holding'[w] # None
                  PROVE  LET job == jobs'[holding'[w]] IN
                         /\ pc'[w] \notin Settling => job.status = "running"
                         /\ pc'[w] \in InProcess => job.kind = "process"
                         /\ pc'[w] \in DeleteStep => job.kind # "process"
                         /\ pc'[w] = "fail" /\ job.kind = "process" => Gone'
                         /\ pc'[w] = "succeed" /\ job.kind = "process"
                              => row'.status \notin ProcessingStatus
                         /\ pc'[w] = "cancel" => Gone'
      BY DEF HeldOK, HoldsJob
    <3>1. /\ row.status # "purged" /\ holding[w] \in JobIds /\ HoldsJob(w) /\ HeldOK(w)
          /\ jobs'[holding'[w]].status = jobs[holding[w]].status
          /\ jobs'[holding'[w]].kind = jobs[holding[w]].kind
      BY <1>1, <2>2 DEF JobInv, HoldsJob
    <3>2. ASSUME pc[w] = "succeed", jobs[holding[w]].kind = "process"
          PROVE  row'.status \notin ProcessingStatus
      <4>1. jobs[holding[w]].status = "running" /\ row.status \notin ProcessingStatus
        BY <3>1, <3>2 DEF HeldOK, Settling
      <4>2. HasActive("process")
        BY <3>1, <3>2, <4>1 DEF HasActive, Active, ActiveJobStatus
      <4>. QED BY <1>3, <4>1, <4>2 DEF Carried, RowCarried
    <3>. QED BY <1>1, <2>3, <3>1, <3>2 DEF HeldOK
  <2>5. ASSUME NEW w \in Workers PROVE MarkOK(w)'
    <3>1. row.status = "purged" => row'.status = "purged"
      BY <1>0, PurgedStays
    <3>2. MarkOK(w)
      BY DEF JobInv
    <3>3. ASSUME pc[w] = "mark_failed", row'.status \in ProcessingStatus
          PROVE  w \in current' \/ HasActive("process")'
      BY <1>3, <2>1, <3>2, <3>3 DEF MarkOK, Carried, RowCarried
    <3>. QED BY <1>1, <2>1, <3>1, <3>2, <3>3 DEF MarkOK
  <2>6. ProcessingHasJob'
    BY <1>1, <1>3, <2>1 DEF JobInv, ProcessingHasJob, Carried, RowCarried
  <2>. QED BY <2>4, <2>5, <2>6 DEF JobInv
<1>. QED BY <1>1, <1>2, <1>3

-----------------------------------------------------------------------------
(* Steps of the consumer *)

\* A consumer's step keeps the invariant when the consumer does.
LEMMA OneKeepsJob ==
    ASSUME OneConsumer, NEW w \in Workers, HeldOK(w)', MarkOK(w)', ProcessingHasJob'
    PROVE  JobInv'
BY DEF OneConsumer, JobInv

\* Where a step of the pipeline leads: it succeeds only with a ready replay.
LEMMA PipelineLeads ==
    ASSUME NEW w \in Workers, TypeInv,
           ProcessProceeds(w) \/ Progress(w) \/ PipelineError(w)
    PROVE  /\ UNCHANGED <<jobs, holding>> /\ pc[w] \in ProcessStep
           /\ \/ pc'[w] \in ProcessStep \cup {"fail_process"}
              \/ pc'[w] = "sweep"
              \/ pc'[w] = "succeed" /\ row'.status = "ready"
<1>. USE DEF Doing, Step, Raise, RaiseProcess, Keep
<1>0. /\ pc \in [Workers -> BusyStep \cup {"idle", "dead", "down"}]
      /\ row \in Row
  BY DEF TypeInv, TypeOK, StoreTypeOK, PlaceOK, ProcessorTypeOK
<1>1. CASE Load(w) \/ Download(w) \/ StoreHash(w) \/ Probe(w) \/ Progress(w)
  BY <1>0, <1>1 DEF Load, Download, StoreHash, Probe, Progress, Transition, workerVars,
     ProcessStep
<1>2. CASE Normalize(w) \/ NormalizedCheck(w) \/ NormalizedUpload(w) \/ NormalizedRecheck(w)
  BY <1>0, <1>2 DEF Normalize, NormalizedCheck, NormalizedUpload, NormalizedRecheck,
     Transition, Check, ProcessStep
<1>3. CASE Extract(w) \/ FrameDone(w) \/ PipelineError(w)
  BY <1>0, <1>3 DEF Extract, FrameDone, PipelineError, Transition, ProcessStep
<1>4. CASE Ready(w)
  BY <1>0, <1>4 DEF Ready, Transition, Write, Row, ProcessStep
<1>5. CASE FrameCheck(w) \/ FrameReuse(w) \/ FrameUpload(w) \/ FrameRecheck(w) \/ FrameUpsert(w)
  BY <1>0, <1>5 DEF FrameCheck, FrameReuse, FrameUpload, FrameRecheck, FrameUpsert, Check,
     ProcessStep
<1>. QED BY <1>1, <1>2, <1>3, <1>4, <1>5 DEF ProcessProceeds

\* Where a step of a deletion leads, and a failed sweep: the replay is not put
\* into processing.
LEMMA DeletionLeads ==
    ASSUME NEW w \in Workers, TypeInv, DeletionProceeds(w) \/ DeletionError(w)
    PROVE  /\ UNCHANGED <<jobs, holding>>
           /\ \/ pc[w] \in DeleteStep /\ pc'[w] \in DeleteStep \cup {"succeed", "fail"}
              \/ pc[w] \in {"sweep", "sweep_rows"} /\ pc'[w] = "fail"
           /\ row'.status = row.status \/ row'.status \in {"deleting", "deleted"}
<1>. USE DEF Doing, Step, Raise, Keep
<1>0. /\ pc \in [Workers -> BusyStep \cup {"idle", "dead", "down"}]
      /\ row \in Row
  BY DEF TypeInv, TypeOK, StoreTypeOK, PlaceOK, ProcessorTypeOK
<1>1. CASE SourceRead(w) \/ SourceDelete(w) \/ SourceClear(w)
  BY <1>0, <1>1 DEF SourceRead, SourceDelete, SourceClear, Write, Row, DeleteStep
<1>2. CASE AllRead(w) \/ AllMark(w) \/ AllSweep(w) \/ AllRows(w)
  BY <1>0, <1>2 DEF AllRead, AllMark, AllSweep, AllRows, Write, Row, DeleteStep
<1>3. CASE AllScrub(w)
  BY <1>0, <1>3 DEF AllScrub, ScrubDeleted, Scrubbed, Row, DeleteStep
<1>4. CASE DeletionError(w)
  BY <1>0, <1>4 DEF DeletionError
<1>. QED BY <1>1, <1>2, <1>3, <1>4 DEF DeletionProceeds

\* The consumer takes up, carries out and settles a job.
LEMMA ConsumerKeepsJob ==
    ASSUME "crash" \notin Faults, "death" \notin Faults, OneConsumer, NoneDown,
           TypeInv, ReadyInv, JobInv, [Next]_vars,
           NEW w \in Workers, ConsumerStep(w)
    PROVE  JobInv'
<1>. USE DEF Doing, Step, Raise, RaiseProcess
<1>0. /\ RowTypeOK /\ PlaceOK /\ JobsNeedRow /\ UnbornHasNoKey /\ SweptIsGone
      /\ jobs \in [JobIds -> Job]
      /\ holding \in [Workers -> JobIds \cup {None}]
      /\ pc \in [Workers -> BusyStep \cup {"idle", "dead", "down"}]
      /\ HeldOK(w) /\ MarkOK(w) /\ ProcessingHasJob
  BY DEF TypeInv, TypeOK, StoreTypeOK, RowTypeOK, ReadyInv, PlaceOK, ProcessorTypeOK, JobInv
<1>a. SUFFICES HeldOK(w)' /\ MarkOK(w)' /\ ProcessingHasJob'
  BY OneKeepsJob
<1>b. /\ Gone => Gone'
      /\ row'.status # "purged" => row.status # "purged"
  BY <1>0, RowKept, PurgedStays
<1>. DEFINE h == holding[w]
            settled == {"read_queued", "read_failed", "mark_queued", "mark_failed"}
<1>c. pc[w] \notin Settling /\ row.status \in ProcessingStatus => HasActive("process")
  BY <1>0 DEF ProcessingHasJob, OneConsumer
<1>d. pc[w] \in BusyStep => h \in JobIds /\ HoldsJob(w)
  BY <1>0, ProcessesAssumption DEF PlaceOK, Busy, HoldsJob
<1>e. BusyStep = ProcessStep \cup SettleStep \cup DeleteStep
  BY DEF BusyStep
\* A job that still runs for its replay.
<1>f. ASSUME pc[w] \in InProcess, row.status # "purged" PROVE HasActive("process")
  <2>1. pc[w] \in BusyStep /\ pc[w] \notin Settling
    BY <1>f DEF InProcess, BusyStep, ProcessStep, SettleStep, Settling
  <2>. QED
    BY <1>0, <1>d, <1>f, <2>1 DEF HeldOK, HasActive, Active, ActiveJobStatus
\* A consumer that has let go of its job owes nothing more.
<1>g. ASSUME holding'[w] = None, pc'[w] \in {"idle", "dead"} PROVE HeldOK(w)' /\ MarkOK(w)'
  BY <1>g DEF HeldOK, MarkOK, HoldsJob
<1>h. ASSUME NEW state \in {"idle", "dead"}, Release(w, state)
      PROVE  holding'[w] = None /\ pc'[w] = state
  BY <1>0, <1>h DEF Release
<1>i. pc'[w] \notin settled => MarkOK(w)'
  BY DEF MarkOK
<1>1. CASE ClaimJob(w)
  <2>1. PICK j \in JobIds : Claim(w, j) /\ pc' = [pc EXCEPT ![w] = FirstStep(jobs[j].kind)]
    BY <1>1 DEF ClaimJob
  <2>2. /\ jobs' = [jobs EXCEPT ![j] = Claimed(w, j)]
        /\ holding'[w] = j /\ pc'[w] = FirstStep(jobs[j].kind)
        /\ jobs[j].status \in {"pending", "retry_scheduled"}
        /\ jobs[j] \in Job
    BY <1>0, <2>1 DEF Claim
  <2>3. jobs'[j].status = "running" /\ jobs'[j].kind = jobs[j].kind
    BY <1>0, <2>1, <2>2 DEF Claimed, Job
  <2>4. pc'[w] \in {"load", "source_read", "all_read"}
          /\ (pc'[w] = "load" <=> jobs[j].kind = "process")
    BY <2>2 DEF FirstStep, JobKind, Job
  <2>5. HeldOK(w)' /\ MarkOK(w)'
    BY <2>2, <2>3, <2>4 DEF HeldOK, MarkOK, Settling, InProcess, ProcessStep, DeleteStep
  <2>6. row' = row /\ pc[w] = "idle"
    BY <1>1 DEF ClaimJob
  <2>7. HasActive("process") => HasActive("process")'
    BY <1>0, <2>2, <2>3 DEF HasActive, Active, ActiveJobStatus
  <2>8. pc[w] \notin Settling
    BY <2>6 DEF Settling
  <2>. QED BY <1>c, <2>5, <2>6, <2>7, <2>8 DEF ProcessingHasJob
<1>2. CASE ProcessProceeds(w) \/ Progress(w) \/ PipelineError(w)
  <2>1. /\ UNCHANGED <<jobs, holding>> /\ pc[w] \in ProcessStep
        /\ \/ pc'[w] \in ProcessStep \cup {"fail_process"}
           \/ pc'[w] = "sweep"
           \/ pc'[w] = "succeed" /\ row'.status = "ready"
    BY <1>2, PipelineLeads
  <2>2. pc[w] \in InProcess /\ pc[w] \in BusyStep /\ pc[w] \notin Settling
    BY <2>1 DEF InProcess, BusyStep, ProcessStep, Settling
  <2>3. row'.status # "purged" => jobs[h].status = "running" /\ jobs[h].kind = "process"
    BY <1>0, <1>b, <1>d, <2>2 DEF HeldOK
  <2>4. /\ pc'[w] \in InProcess \/ (pc'[w] = "succeed" /\ row'.status = "ready")
        /\ pc'[w] \notin DeleteStep \cup settled \cup {"fail", "cancel"}
    BY <2>1 DEF InProcess, ProcessStep, DeleteStep
  <2>5. HeldOK(w)' /\ MarkOK(w)'
    BY <1>i, <2>1, <2>3, <2>4 DEF HeldOK, InProcess, ProcessStep, ProcessingStatus
  <2>6. ProcessingHasJob'
    BY <1>b, <1>f, <2>1, <2>2 DEF ProcessingHasJob, ProcessingStatus, HasActive, Active
  <2>. QED BY <2>5, <2>6
<1>3. CASE DeletionProceeds(w) \/ DeletionError(w)
  <2>1. /\ UNCHANGED <<jobs, holding>>
        /\ \/ pc[w] \in DeleteStep /\ pc'[w] \in DeleteStep \cup {"succeed", "fail"}
           \/ pc[w] \in {"sweep", "sweep_rows"} /\ pc'[w] = "fail"
        /\ row'.status = row.status \/ row'.status \in {"deleting", "deleted"}
    BY <1>3, DeletionLeads
  <2>2. /\ pc[w] \in BusyStep /\ pc[w] \notin Settling
        /\ pc'[w] \notin InProcess \cup settled \cup {"cancel"}
    BY <2>1 DEF InProcess, BusyStep, ProcessStep, DeleteStep, SettleStep, Settling
  <2>3. pc[w] \in {"sweep", "sweep_rows"} => Gone'
    BY <1>0, <1>b DEF SweptIsGone, SweepStep
  <2>4. row'.status # "purged" =>
          /\ jobs[h].status = "running"
          /\ pc[w] \in DeleteStep => jobs[h].kind # "process"
    BY <1>0, <1>b, <1>d, <2>2 DEF HeldOK
  <2>5. "succeed" \notin DeleteStep /\ "fail" \notin DeleteStep
    BY DEF DeleteStep
  <2>6. HeldOK(w)' /\ MarkOK(w)'
    BY <1>i, <2>1, <2>2, <2>3, <2>4, <2>5 DEF HeldOK
  <2>7. ProcessingHasJob'
    BY <1>c, <2>1, <2>2 DEF ProcessingHasJob, ProcessingStatus, HasActive, Active
  <2>. QED BY <2>6, <2>7
<1>4. CASE Sweep(w) \/ SweepRows(w)
  <2>1. /\ UNCHANGED <<row, jobs, holding>> /\ pc[w] \in {"sweep", "sweep_rows"}
        /\ pc'[w] \in {"sweep_rows", "cancel"}
    BY <1>0, <1>4 DEF Sweep, SweepRows, Keep
  <2>2. Gone' /\ Gone
    BY <1>0, <1>b, <2>1 DEF SweptIsGone, SweepStep
  <2>3. pc[w] \in InProcess /\ pc[w] \in BusyStep /\ pc[w] \notin Settling
    BY <2>1 DEF InProcess, BusyStep, SettleStep, Settling
  <2>4. HeldOK(w)' /\ MarkOK(w)'
    BY <1>0, <1>d, <1>i, <2>1, <2>2, <2>3 DEF HeldOK, InProcess, HoldsJob, DeleteStep
  <2>5. ProcessingHasJob'
    BY <2>1, <2>2 DEF ProcessingHasJob, Gone, ProcessingStatus
  <2>. QED BY <2>4, <2>5
\* Settling removes one job from the active ones.
<1>j. ASSUME NEW status, jobs' = [jobs EXCEPT ![h] = Released(h, status)],
             h \in JobIds, jobs[h].kind # "process", HasActive("process")
      PROVE  HasActive("process")'
  BY <1>0, <1>j DEF HasActive, Active
<1>5. CASE SettleJob(w) \/ CancelJob(w) \/ FailJob(w)
  <2>1. row' = row /\ pc[w] \in {"succeed", "cancel", "fail"}
    BY <1>5 DEF SettleJob, CancelJob, FailJob
  <2>2. pc[w] \in BusyStep /\ pc[w] \notin Settling
    BY <2>1 DEF BusyStep, SettleStep, Settling
  <2>3. holding'[w] = None /\ pc'[w] \in {"idle", "dead"}
    BY <1>5, <1>h DEF SettleJob, CancelJob, FailJob, Finish, Die, Lose
  <2>4. ASSUME row.status \in ProcessingStatus PROVE HasActive("process")'
    <3>1. HasActive("process") /\ ~Gone /\ row.status # "purged"
      BY <1>c, <2>2, <2>4 DEF Gone, ProcessingStatus
    <3>2. pc[w] # "cancel" /\ jobs[h].kind # "process"
      BY <1>0, <1>d, <2>1, <2>2, <2>4, <3>1 DEF HeldOK
    <3>3. jobs' = jobs \/ \E status : jobs' = [jobs EXCEPT ![h] = Released(h, status)]
      BY <1>5 DEF SettleJob, CancelJob, FailJob, Succeed, Cancel, Fail, Die
    <3>4. CASE jobs' = jobs
      BY <3>1, <3>4 DEF HasActive, Active
    <3>. QED BY <1>d, <1>j, <2>2, <3>1, <3>2, <3>3, <3>4
  <2>. QED BY <1>g, <2>1, <2>3, <2>4 DEF ProcessingHasJob
<1>6. CASE FailProcess(w)
  <2>. DEFINE again == retryable[w]
  <2>1. pc[w] = "fail_process" /\ row' = row
    BY <1>6 DEF FailProcess
  <2>2. pc[w] \in InProcess /\ pc[w] \in BusyStep /\ pc[w] \notin Settling
    BY <2>1 DEF InProcess, BusyStep, SettleStep, Settling
  <2>3. row.status # "purged" => jobs[h].status = "running" /\ jobs[h].kind = "process"
    BY <1>0, <1>d, <2>2 DEF HeldOK
  <2>4. CASE ~MayFail(h, again)
    <3>1. row.status = "purged"
      BY <2>3, <2>4 DEF MayFail, JobExists, Resurrects, Active, ActiveJobStatus
    <3>2. holding'[w] = None /\ pc'[w] = "dead"
      BY <1>6, <1>h, <2>4 DEF FailProcess, Die, Lose
    <3>. QED BY <1>g, <2>1, <3>1, <3>2 DEF ProcessingHasJob, ProcessingStatus
  <2>5. CASE MayFail(h, again)
    <3>1. /\ jobs' = [jobs EXCEPT ![h] = Released(h, FailStatus(h, again))]
          /\ pc' = [pc EXCEPT ![w] = IF RetryScheduled(h, again)
                                     THEN "read_queued" ELSE "read_failed"]
          /\ holding' = holding
      BY <1>6, <2>5 DEF FailProcess, Fail
    <3>2. pc'[w] \in {"read_queued", "read_failed"}
      BY <1>0, <3>1
    <3>3. pc'[w] = "read_queued" /\ row.status # "purged" => HasActive("process")'
      <4>. SUFFICES ASSUME pc'[w] = "read_queued", row.status # "purged"
                    PROVE  HasActive("process")'
        OBVIOUS
      <4>1. RetryScheduled(h, again)
        BY <1>0, <3>1
      <4>2. h \in JobIds /\ jobs[h] \in Job /\ jobs[h].kind = "process"
        BY <1>0, <1>d, <2>2, <2>3
      <4>3. jobs'[h] = Released(h, "retry_scheduled")
        BY <1>0, <3>1, <4>1, <4>2 DEF FailStatus
      <4>4. jobs'[h].status = "retry_scheduled" /\ jobs'[h].kind = "process"
        BY <4>2, <4>3 DEF Released, Job
      <4>. QED BY <4>2, <4>4 DEF HasActive, Active, ActiveJobStatus
    <3>4. HeldOK(w)'
      BY <3>2 DEF HeldOK, Settling, InProcess, ProcessStep, DeleteStep
    <3>5. MarkOK(w)'
      BY <2>1, <3>2, <3>3 DEF MarkOK
    <3>6. ProcessingHasJob'
      BY <3>2 DEF ProcessingHasJob, Settling
    <3>. QED BY <3>4, <3>5, <3>6
  <2>. QED BY <2>4, <2>5
<1>7. CASE ReadFailed(w)
  <2>1. UNCHANGED <<row, jobs>> /\ pc[w] \in {"read_queued", "read_failed"}
    BY <1>7 DEF ReadFailed
  <2>2. CASE RowExists /\ ~Deleting
    <3>1. /\ w \in current' /\ pc'[w] \in {"mark_queued", "mark_failed"}
          /\ pc'[w] = "mark_queued" => pc[w] = "read_queued"
      BY <1>0, <1>7, <2>2 DEF ReadFailed, ReadRow
    <3>2. HeldOK(w)'
      BY <3>1 DEF HeldOK, Settling, InProcess, ProcessStep, DeleteStep
    <3>3. MarkOK(w)'
      BY <1>0, <2>1, <3>1 DEF MarkOK, HasActive, Active
    <3>4. ProcessingHasJob'
      BY <3>1 DEF ProcessingHasJob, Settling
    <3>. QED BY <3>2, <3>3, <3>4
  <2>3. CASE ~(RowExists /\ ~Deleting)
    <3>1. holding'[w] = None /\ pc'[w] = "idle"
      BY <1>7, <1>h, <2>3 DEF ReadFailed, Finish, Lose
    <3>2. row'.status \notin ProcessingStatus
      BY <2>1, <2>3 DEF RowExists, Deleting, ReplayStatus, ProcessingStatus, DeletionStatus
    <3>. QED BY <1>g, <3>1, <3>2 DEF ProcessingHasJob
  <2>. QED BY <2>2, <2>3
<1>8. CASE MarkFailed(w)
  <2>1. jobs' = jobs /\ pc[w] \in {"mark_queued", "mark_failed"}
    BY <1>8 DEF MarkFailed
  <2>2. holding'[w] = None /\ pc'[w] = "idle"
    BY <1>8, <1>h DEF MarkFailed, Finish, FinishWriting, Lose
  <2>3. HasActive("process") => HasActive("process")'
    BY <2>1 DEF HasActive, Active
  <2>4. ASSUME row'.status \in ProcessingStatus PROVE HasActive("process")
    <3>1. CASE MayWrite(w, ProcessingStatus \cup {"failed"})
      <4>1. row'.status = IF pc[w] = "mark_queued" THEN "queued" ELSE "failed"
        BY <1>0, <1>8, <3>1 DEF MarkFailed, RowTypeOK, Row
      <4>2. pc[w] = "mark_queued" /\ row.status # "purged"
        BY <2>4, <3>1, <4>1 DEF ProcessingStatus, MayWrite
      <4>. QED BY <1>0, <4>2 DEF MarkOK
    <3>2. CASE ~MayWrite(w, ProcessingStatus \cup {"failed"})
      <4>1. row' = row
        BY <1>8, <3>2 DEF MarkFailed
      <4>2. w \notin current /\ row.status # "purged"
        BY <2>4, <3>2, <4>1 DEF MayWrite, ProcessingStatus
      <4>. QED BY <1>0, <2>1, <2>4, <4>1, <4>2 DEF MarkOK
    <3>. QED BY <3>1, <3>2
  <2>. QED BY <1>g, <2>2, <2>3, <2>4 DEF ProcessingHasJob
<1>9. CASE SucceedError(w)
  <2>1. /\ UNCHANGED <<row, jobs, holding>> /\ pc[w] = "succeed"
        /\ pc'[w] = IF jobs[h].kind = "process" THEN "fail_process" ELSE "fail"
    BY <1>0, <1>9 DEF SucceedError, Keep
  <2>2. pc[w] \in BusyStep /\ pc[w] \notin Settling
    BY <2>1 DEF BusyStep, SettleStep, Settling
  <2>3. HeldOK(w)' /\ MarkOK(w)'
    BY <1>0, <1>d, <1>i, <2>1, <2>2
       DEF HeldOK, HoldsJob, InProcess, ProcessStep, DeleteStep, Settling
  <2>4. ProcessingHasJob'
    BY <1>c, <2>1, <2>2 DEF ProcessingHasJob, HasActive, Active
  <2>. QED BY <2>3, <2>4
<1>10. ~StartWorker(w) /\ ~CrashWorker(w) /\ ~KillConsumer(w)
  BY DEF StartWorker, NoneDown, CrashWorker, KillConsumer, Fault
<1>. QED
  BY <1>1, <1>2, <1>3, <1>4, <1>5, <1>6, <1>7, <1>8, <1>9, <1>10
     DEF ConsumerStep, RunConsumer, ReportProgress, FailStep, WorkerProceeds, SettleProceeds

\* With one consumer that nobody kills, a replay in processing has a job that
\* will carry it on, or a consumer about to write what became of that job:
\* whichever steps fail, however often it is retried, deleted or swept while
\* requests write its row (_handle_process_failure settles the job and marks the
\* replay in two transactions, queue_process_job does both in one).
THEOREM ProcessingIsCarriedOn ==
    ASSUME "crash" \notin Faults, "death" \notin Faults, OneConsumer
    PROVE  Spec => []ProcessingHasJob
<1>1. Init => ReadyInv /\ NoneDown /\ JobInv
  <2>1. Init => NoneDown
    BY DEF Init, ProcessorInit, NoneDown
  <2>2. Init => JobInv
    BY DEF Init, StoreInit, UnbornRow, ProcessorInit, JobInv, ProcessingHasJob, HeldOK, MarkOK,
       HoldsJob, ProcessingStatus
  <2>. QED BY <2>1, <2>2, InitReady
<1>2. TypeInv /\ TypeInv' /\ ReadyInv /\ [Next]_vars => ReadyInv'
  BY NextReady
<1>3. TypeInv /\ NoneDown /\ [Next]_vars => NoneDown'
  BY StaysUp
<1>4. TypeInv /\ ReadyInv /\ NoneDown /\ JobInv /\ [Next]_vars => JobInv'
  BY OthersKeepJob, ConsumerKeepsJob
<1>5. JobInv => ProcessingHasJob
  BY DEF JobInv
<1>. QED BY <1>1, <1>2, <1>3, <1>4, <1>5, SpecTypeInv, PTL DEF Spec
=============================================================================
