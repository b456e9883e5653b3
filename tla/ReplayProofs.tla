----------------------------- MODULE ReplayProofs -----------------------------
(* Theorems about ReplaySystem, for every set of workers, requests and jobs,   *)
(* every retention and every choice of faults.                                 *)
EXTENDS ReplaySystem, TLAPS

-----------------------------------------------------------------------------
(* Types *)

\* The initial state, in which no replay exists yet, is well typed.
LEMMA InitType == Init => TypeOK
<1> SUFFICES ASSUME Init PROVE TypeOK
    OBVIOUS
<1>1. StoreTypeOK
  <2>1. row \in Row
    BY DEF Init, StoreInit, UnbornRow, Row, RowStatus, Upto
  <2>2. jobs \in [JobIds -> Job]
    BY CountsAssumption DEF Init, StoreInit, NoJob, Job, JobKind
  <2>. QED BY <2>1, <2>2 DEF Init, StoreInit, StoreTypeOK
<1>2. ServiceTypeOK
  BY DEF Init, ServiceInit, ServiceTypeOK, RequestStep
<1>3. ProcessorTypeOK
  BY CountsAssumption DEF Init, ProcessorInit, ProcessorTypeOK
<1>4. faults \in 0..MaxFaults
  BY FaultsAssumption DEF Init
<1>. QED BY <1>1, <1>2, <1>3, <1>4 DEF TypeOK
-----------------------------------------------------------------------------
(* Which steps write what.  Every property of one part of the state is then   *)
(* a matter of the few steps that write it.                                   *)

RequestWritesRow(r) ==
    \/ CreateReplay(r) \/ PutCommit(r) \/ CompleteMark(r) \/ CompleteQueue(r)
    \/ RetryQueue(r) \/ DeleteMark(r)
WorkerWritesRow(w) ==
    \/ StoreHash(w) \/ Probe(w) \/ Progress(w) \/ Normalize(w) \/ Extract(w)
    \/ FrameDone(w) \/ Ready(w) \/ MarkFailed(w) \/ SourceClear(w)
    \/ AllMark(w) \/ AllScrub(w) \/ StartWorker(w)
RowWritten ==
    \/ \E r \in Requests : RequestWritesRow(r)
    \/ \E w \in Workers : WorkerWritesRow(w)
    \/ PurgeTombstone
    \/ AdvanceClock

\* A step of a request that leaves the row alone is one of the others.
LEMMA RequestRow ==
    ASSUME NEW r, RequestStarts(r) \/ RequestProceeds(r) \/ Abandon(r) \/ PutError(r)
    PROVE  row' = row \/ RequestWritesRow(r)
<1>1. CASE RequestStarts(r)
  BY <1>1 DEF RequestStarts, RequestWritesRow, PutStart, ClientUploadStart,
     CompleteStart, RetryStart, DeleteStart, rowVars, storeVars
<1>2. CASE PutWrite(r) \/ PutMark(r) \/ PutCleanup(r) \/ ClientUpload(r)
  BY <1>2 DEF PutWrite, PutMark, PutCleanup, ClientUpload, rowVars
<1>3. CASE CompleteStat(r) \/ PromoteHead(r) \/ PromoteCopy(r) \/ PromoteDrop(r) \/ CompleteReject(r)
  BY <1>3 DEF CompleteStat, PromoteHead, PromoteCopy, PromoteDrop, CompleteReject, Stat,
     Copy, rowVars
<1>4. CASE RetryStat(r) \/ DeleteEnqueue(r) \/ Abandon(r) \/ PutError(r)
  BY <1>4 DEF RetryStat, DeleteEnqueue, Abandon, PutError, rowVars
<1>. QED
  BY <1>1, <1>2, <1>3, <1>4 DEF RequestProceeds, RequestWritesRow

\* A step of a consumer that leaves the row alone is one of the others.
LEMMA WorkerRow ==
    ASSUME NEW w, WorkerProceeds(w) \/ Heartbeat(w)
                    \/ PipelineError(w) \/ DeletionError(w) \/ SucceedError(w)
    PROVE  row' = row \/ WorkerWritesRow(w)
<1>. USE DEF Keep
<1>1. CASE ClaimJob(w) \/ Heartbeat(w) \/ PipelineError(w) \/ SucceedError(w)
             \/ DeletionError(w)
  BY <1>1 DEF ClaimJob, Heartbeat, PipelineError, SucceedError, DeletionError
<1>2. CASE Load(w) \/ Download(w)
  BY <1>2 DEF Load, Download
<1>3. CASE NormalizedCheck(w) \/ NormalizedUpload(w) \/ NormalizedRecheck(w)
  BY <1>3 DEF NormalizedCheck, NormalizedUpload, NormalizedRecheck, Check
<1>4. CASE FrameCheck(w) \/ FrameReuse(w) \/ FrameUpload(w) \/ FrameRecheck(w) \/ FrameUpsert(w)
  BY <1>4 DEF FrameCheck, FrameReuse, FrameUpload, FrameRecheck, FrameUpsert, Check
<1>5. CASE SettleJob(w) \/ FailProcess(w) \/ ReadFailed(w) \/ FailJob(w) \/ Sweep(w)
             \/ SweepRows(w) \/ CancelJob(w)
  BY <1>5 DEF SettleJob, FailProcess, ReadFailed, FailJob, Sweep, SweepRows, CancelJob
<1>6. CASE SourceRead(w) \/ SourceDelete(w) \/ AllRead(w) \/ AllSweep(w) \/ AllRows(w)
  BY <1>6 DEF SourceRead, SourceDelete, AllRead, AllSweep, AllRows
<1>. QED
  BY <1>1, <1>2, <1>3, <1>4, <1>5, <1>6
     DEF WorkerProceeds, ProcessProceeds, SettleProceeds, DeletionProceeds,
         WorkerWritesRow

\* Every step but those of RowWritten leaves the replay's row as it is.
LEMMA RowWriters == [Next]_vars => row' = row \/ RowWritten
<1>. SUFFICES ASSUME [Next]_vars PROVE row' = row \/ RowWritten
  OBVIOUS
<1>1. CASE UNCHANGED vars
  BY <1>1 DEF vars, storeVars
<1>2. ASSUME NEW r \in Requests, BeginRequest(r) \/ ServeRequest(r) \/ FailRequest(r)
      PROVE  row' = row \/ RowWritten
  BY <1>2, RequestRow DEF BeginRequest, ServeRequest, FailRequest, RowWritten
<1>3. ASSUME NEW w \in Workers,
             RunConsumer(w) \/ ReportProgress(w) \/ SendHeartbeat(w)
               \/ StartWorker(w) \/ FailStep(w) \/ CrashWorker(w) \/ KillConsumer(w)
      PROVE  row' = row \/ RowWritten
  <2>1. CASE RunConsumer(w) \/ SendHeartbeat(w) \/ FailStep(w)
    BY <2>1, WorkerRow DEF RunConsumer, SendHeartbeat, FailStep, RowWritten
  <2>2. CASE ReportProgress(w) \/ StartWorker(w)
    BY <2>2 DEF ReportProgress, RowWritten, WorkerWritesRow
  <2>3. CASE CrashWorker(w) \/ KillConsumer(w)
    BY <2>3 DEF CrashWorker, KillConsumer
  <2>. QED BY <1>3, <2>1, <2>2, <2>3
<1>4. ASSUME NEW j \in JobIds, EndRetryDelay(j) \/ ExpireAbandoned(j) \/ SilenceHeartbeat(j)
      PROVE  row' = row
  BY <1>4 DEF EndRetryDelay, BecomesAvailable, ExpireAbandoned, SilenceHeartbeat,
     HeartbeatExpires
<1>5. CASE RunRetention
  BY <1>5 DEF RunRetention, EnqueueDueRetention, QueueRetention, RowWritten
<1>6. CASE AdvanceClock
  BY <1>6 DEF RowWritten
<1>. QED
  BY <1>1, <1>2, <1>3, <1>4, <1>5, <1>6 DEF Next
-----------------------------------------------------------------------------
(* Types are preserved *)

RowTypeOK == row \in Row

\* A transition that changes the status only keeps the row's type.
LEMMA NewStatus ==
    ASSUME NEW x \in Row, NEW s \in RowStatus
    PROVE  [x EXCEPT !.status = s] \in Row
BY DEF Row

\* The row a failure or a recovery leaves is well typed.
LEMMA SettledRow ==
    ASSUME NEW x \in Row, NEW s \in RowStatus, NEW again \in BOOLEAN,
           NEW finished \in Upto(FailedRetention), NEW source \in Upto(SourceRetention)
    PROVE  [x EXCEPT !.status = s, !.retryable = again, !.finished = finished,
              !.source_delete = source] \in Row
BY DEF Row

\* Deadlines are within their bounds when set, and stay there as time passes.
LEMMA Deadlines ==
    /\ UploadWindow \in Upto(UploadWindow) /\ SourceRetention \in Upto(SourceRetention)
    /\ DerivedRetention \in Upto(DerivedRetention)
    /\ FailedRetention \in Upto(FailedRetention)
    /\ TombstoneRetention \in Upto(TombstoneRetention)
    /\ \A n \in Nat : None \in Upto(n)
    /\ \A n \in Nat : \A deadline \in Upto(n) : Sooner(deadline) \in Upto(n)
BY DeadlinesAssumption DEF Upto, Sooner

\* The handlers of the HTTP service write well-typed rows.
LEMMA RequestRowType ==
    ASSUME NEW r, RowTypeOK, RequestWritesRow(r)
    PROVE  RowTypeOK'
<1>. USE DEF RowTypeOK
<1>1. CASE CreateReplay(r)
  BY <1>1, Deadlines, DeadlinesAssumption
     DEF CreateReplay, Insert, UnbornRow, Row, RowStatus, ReplayStatus
<1>2. CASE PutCommit(r) \/ CompleteMark(r) \/ CompleteQueue(r) \/ DeleteMark(r)
  BY <1>2, NewStatus DEF PutCommit, CompleteMark, CompleteQueue, DeleteMark, Write,
     RowStatus, ReplayStatus, ProcessingStatus, DeletionStatus
<1>3. CASE RetryQueue(r)
  <2>1. [row EXCEPT !.status = "queued", !.retryable = FALSE] \in Row
    BY DEF Row, RowStatus, ReplayStatus, ProcessingStatus
  <2>. QED BY <1>3, <2>1 DEF RetryQueue
<1>. QED BY <1>1, <1>2, <1>3 DEF RequestWritesRow

\* The consumers write well-typed rows.
LEMMA WorkerRowType ==
    ASSUME NEW w \in Workers, RowTypeOK, ProcessorTypeOK, WorkerWritesRow(w)
    PROVE  RowTypeOK'
<1>. USE DEF RowTypeOK
<1>0. /\ ProcessingStatus \subseteq RowStatus
      /\ {"deleted", "deleting", "failed", "ready"} \subseteq RowStatus
  BY DEF RowStatus, ReplayStatus, ProcessingStatus, DeletionStatus
<1>1. CASE StoreHash(w) \/ FrameDone(w)
  BY <1>1 DEF StoreHash, FrameDone, Transition, Write
<1>2. CASE Probe(w) \/ Progress(w) \/ Normalize(w) \/ AllMark(w)
  BY <1>2, <1>0, NewStatus DEF Probe, Progress, Normalize, AllMark, Transition, Write,
     ProcessingStatus
<1>3. CASE Extract(w)
  <2>1. [row EXCEPT !.status = "extracting", !.normalized_key = TRUE] \in Row
    BY <1>0 DEF Row, ProcessingStatus
  <2>. QED BY <1>3, <2>1 DEF Extract, Transition, Write
<1>4. CASE Ready(w)
  <2>1. [row EXCEPT !.status = "ready", !.retryable = FALSE,
           !.finished = FailedRetention, !.source_delete = SourceRetention,
           !.derived_delete = DerivedRetention] \in Row
    BY <1>0, Deadlines DEF Row
  <2>. QED BY <1>4, <2>1 DEF Ready, Transition, Write
<1>5. CASE MarkFailed(w)
  <2>. DEFINE queued == Doing(w, "mark_queued")
  <2>1. /\ (IF queued THEN "queued" ELSE "failed") \in RowStatus
        /\ retryable[w] \in BOOLEAN
        /\ (IF queued THEN None ELSE FailedRetention) \in Upto(FailedRetention)
    BY <1>0, Deadlines, DeadlinesAssumption DEF ProcessingStatus, ProcessorTypeOK
  <2>2. [row EXCEPT !.status = IF queued THEN "queued" ELSE "failed",
           !.retryable = retryable[w],
           !.finished = IF queued THEN None ELSE FailedRetention,
           !.source_delete = SourceRetention] \in Row
    BY <2>1, SettledRow, Deadlines
  <2>. QED BY <1>5, <2>2 DEF MarkFailed
<1>6. CASE SourceClear(w)
  <2>1. [row EXCEPT !.source_key = FALSE, !.source_delete = None] \in Row
    BY Deadlines, DeadlinesAssumption DEF Row
  <2>. QED BY <1>6, <2>1 DEF SourceClear, Write
<1>7. CASE AllScrub(w)
  <2>1. Scrubbed \in Row
    BY <1>0, Deadlines DEF Scrubbed, Row
  <2>. QED BY <1>7, <2>1 DEF AllScrub, ScrubDeleted
<1>8. CASE StartWorker(w)
  <2>1. ASSUME NEW j PROVE SyncedRow(j) \in Row
    <3>1. [row EXCEPT !.status = "queued", !.retryable = TRUE, !.finished = None] \in Row
      BY <1>0, Deadlines, DeadlinesAssumption DEF Row, ProcessingStatus
    <3>2. [row EXCEPT !.status = "failed", !.retryable = TRUE,
             !.finished = FailedRetention, !.source_delete = SourceRetention] \in Row
      BY <1>0, Deadlines, SettledRow
    <3>. QED BY <3>1, <3>2 DEF SyncedRow
  <2>. QED BY <1>8, <2>1 DEF StartWorker, RecoverStale
<1>. QED
  BY <1>1, <1>2, <1>3, <1>4, <1>5, <1>6, <1>7, <1>8 DEF WorkerWritesRow

\* So does every step of the subsystem.
LEMMA RowType ==
    ASSUME RowTypeOK, ProcessorTypeOK, [Next]_vars
    PROVE  RowTypeOK'
<1>1. CASE row' = row
  BY <1>1 DEF RowTypeOK
<1>2. CASE PurgeTombstone
  BY <1>2, Deadlines, DeadlinesAssumption
     DEF PurgeTombstone, UnbornRow, Row, RowStatus, RowTypeOK
<1>3. CASE Tick
  <2>1. /\ Sooner(row.upload_expires) \in Upto(UploadWindow)
        /\ Sooner(row.source_delete) \in Upto(SourceRetention)
        /\ Sooner(row.derived_delete) \in Upto(DerivedRetention)
        /\ Sooner(row.finished) \in Upto(FailedRetention)
        /\ Sooner(row.tombstone) \in Upto(TombstoneRetention)
    <3>1. row \in Row
      BY DEF RowTypeOK
    <3>. QED BY <3>1, Deadlines, DeadlinesAssumption DEF Row
  <2>. QED BY <1>3, <2>1 DEF Tick, Row, RowTypeOK
<1>. QED
  BY <1>1, <1>2, <1>3, RowWriters, RequestRowType, WorkerRowType DEF RowWritten, AdvanceClock
-----------------------------------------------------------------------------
(* Where a consumer is: it holds a job exactly while it is at a step of one,   *)
(* and counts frames only in the loop over them.                              *)

FrameStep == {"frame_check", "frame_reuse", "frame_upload", "frame_recheck", "frame_upsert", "frame_done"}
EarlyStep == (ProcessStep \ (FrameStep \cup {"ready"})) \cup {"idle", "down"}

PlaceOK ==
    /\ ProcessorTypeOK
    /\ holding \in [Workers -> JobIds \cup {None}]
    /\ \A w \in Workers :
         /\ Busy(w) <=> holding[w] \in JobIds
         /\ pc[w] \in FrameStep => frame[w] \in FrameIds
         /\ pc[w] \in EarlyStep => frame[w] = 1

\* The moves of a consumer: on to another step of its job, or letting go.
Onward(w, step) ==
    /\ Busy(w) /\ step \in BusyStep
    /\ step \in FrameStep => frame[w] \in FrameIds
    /\ step \in EarlyStep => frame[w] = 1
    /\ pc[w] \in Settling => step \in Settling
    /\ pc' = [pc EXCEPT ![w] = step]
    /\ UNCHANGED <<frame, holding>>
    /\ \/ UNCHANGED retryable
       \/ \E again \in BOOLEAN : retryable' = [retryable EXCEPT ![w] = again]
Moved(w) ==
    \/ UNCHANGED <<pc, frame, retryable, holding>>
    \/ \E step \in BusyStep : Onward(w, step)
    \/ \E state \in {"idle", "dead", "down"} : Release(w, state)

\* A consumer that works on a job has just claimed it, or worked on it before:
\* none comes back to a job it has settled.
NoNewWork ==
    \A v \in Workers :
        Working(v)' => ClaimJob(v) \/ (Working(v) /\ holding'[v] = holding[v])

\* A consumer that has moved on within its job, or let go of it, has no new work.
LEMMA MovedWork ==
    ASSUME NEW w \in Workers, PlaceOK, Moved(w)
    PROVE  NoNewWork
<1>. USE DEF PlaceOK, ProcessorTypeOK, NoNewWork, Working, HoldsJob
<1>1. CASE UNCHANGED <<pc, frame, retryable, holding>>
  BY <1>1
<1>2. ASSUME NEW step \in BusyStep, Onward(w, step) PROVE NoNewWork
  BY <1>2, ProcessesAssumption DEF Onward, Busy
<1>3. ASSUME NEW state \in {"idle", "dead", "down"}, Release(w, state) PROVE NoNewWork
  BY <1>3 DEF Release
<1>. QED BY <1>1, <1>2, <1>3 DEF Moved

\* A consumer that has moved on stands where PlaceOK allows.
LEMMA MovedPlace ==
    ASSUME NEW w \in Workers, PlaceOK, Moved(w)
    PROVE  PlaceOK'
<1>. USE DEF PlaceOK, ProcessorTypeOK, Busy
<1>1. CASE UNCHANGED <<pc, frame, retryable, holding>>
  BY <1>1
<1>2. ASSUME NEW step \in BusyStep, Onward(w, step) PROVE PlaceOK'
  <2>1. /\ pc' \in [Workers -> BusyStep \cup {"idle", "dead", "down"}]
        /\ frame' \in [Workers -> 1..NumFrames + 1]
        /\ retryable' \in [Workers -> BOOLEAN]
        /\ holding' \in [Workers -> JobIds \cup {None}]
    BY <1>2 DEF Onward
  <2>2. ASSUME NEW v \in Workers
        PROVE  /\ pc'[v] \in BusyStep <=> holding'[v] \in JobIds
               /\ pc'[v] \in FrameStep => frame'[v] \in FrameIds
               /\ pc'[v] \in EarlyStep => frame'[v] = 1
    BY <1>2 DEF Onward
  <2>. QED BY <2>1, <2>2 DEF FrameIds
<1>3. ASSUME NEW state \in {"idle", "dead", "down"}, Release(w, state) PROVE PlaceOK'
  <2>1. /\ pc' \in [Workers -> BusyStep \cup {"idle", "dead", "down"}]
        /\ frame' \in [Workers -> 1..NumFrames + 1]
        /\ retryable' \in [Workers -> BOOLEAN]
        /\ holding' \in [Workers -> JobIds \cup {None}]
    BY <1>3, CountsAssumption DEF Release
  <2>2. state \notin BusyStep /\ state \notin FrameStep
    BY <1>3 DEF BusyStep, ProcessStep, SettleStep, DeleteStep, FrameStep
  <2>3. ASSUME NEW v \in Workers
        PROVE  /\ pc'[v] \in BusyStep <=> holding'[v] \in JobIds
               /\ pc'[v] \in FrameStep => frame'[v] \in FrameIds
               /\ pc'[v] \in EarlyStep => frame'[v] = 1
    BY <1>3, <2>2, ProcessesAssumption DEF Release
  <2>. QED BY <2>1, <2>3 DEF FrameIds
<1>. QED BY <1>1, <1>2, <1>3 DEF Moved

\* Every step of the pipeline takes its consumer on, one of them to the next
\* frame.
LEMMA ProcessMoves ==
    ASSUME NEW w \in Workers, PlaceOK,
           ProcessProceeds(w) \/ Progress(w) \/ PipelineError(w)
    PROVE  Moved(w) \/ FrameDone(w)
<1>. USE DEF Doing, Step, Raise, RaiseProcess, Keep, Onward, Moved, Busy, BusyStep,
             ProcessStep, SettleStep, FrameStep, EarlyStep, Settling
<1>1. CASE Load(w) \/ Download(w)
  BY <1>1 DEF Load, Download, PlaceOK
<1>2. CASE StoreHash(w) \/ Probe(w)
  BY <1>2 DEF StoreHash, Probe, Transition, PlaceOK
<1>3. CASE Normalize(w)
  BY <1>3 DEF Normalize, Transition, PlaceOK
<1>4. CASE Extract(w)
  <2>1. Doing(w, "extract") => frame[w] = 1
    BY DEF PlaceOK
  <2>2. 1 \in FrameIds
    BY CountsAssumption DEF FrameIds
  <2>. QED BY <1>4, <2>1, <2>2 DEF Extract, Transition
<1>5. CASE NormalizedCheck(w) \/ NormalizedUpload(w) \/ NormalizedRecheck(w)
  BY <1>5 DEF NormalizedCheck, NormalizedUpload, NormalizedRecheck, Check, PlaceOK
<1>6. CASE FrameCheck(w) \/ FrameReuse(w) \/ FrameRecheck(w)
  BY <1>6 DEF FrameCheck, FrameReuse, FrameRecheck, Check, PlaceOK
<1>7. CASE FrameUpload(w) \/ FrameUpsert(w)
  BY <1>7 DEF FrameUpload, FrameUpsert, PlaceOK
<1>8. CASE Ready(w)
  BY <1>8 DEF Ready, Transition, PlaceOK
<1>9. CASE Progress(w)
  BY <1>9 DEF Progress, workerVars, PlaceOK
<1>10. CASE PipelineError(w)
  BY <1>10 DEF PipelineError
<1>. QED
  BY <1>1, <1>2, <1>3, <1>4, <1>5, <1>6, <1>7, <1>8, <1>9, <1>10 DEF ProcessProceeds

\* So does every step of settling a job and of a deletion.
LEMMA SettleMoves ==
    ASSUME NEW w \in Workers, PlaceOK,
           SettleProceeds(w) \/ DeletionProceeds(w) \/ DeletionError(w) \/ SucceedError(w)
    PROVE  Moved(w)
<1>. USE DEF Doing, Step, Raise, RaiseProcess, Keep, Onward, Moved, Busy, BusyStep,
             ProcessStep, SettleStep, DeleteStep, FrameStep, EarlyStep,
             Finish, FinishWriting, Lose, Die, Settling
<1>1. CASE SettleJob(w) \/ CancelJob(w) \/ FailJob(w)
  BY <1>1 DEF SettleJob, CancelJob, FailJob
<1>2. CASE FailProcess(w)
  BY <1>2 DEF FailProcess
<1>3. CASE ReadFailed(w) \/ MarkFailed(w)
  BY <1>3 DEF ReadFailed, MarkFailed
<1>4. CASE Sweep(w) \/ SweepRows(w)
  BY <1>4 DEF Sweep, SweepRows
<1>5. CASE SourceRead(w) \/ SourceDelete(w) \/ SourceClear(w)
  BY <1>5 DEF SourceRead, SourceDelete, SourceClear
<1>6. CASE AllRead(w) \/ AllMark(w) \/ AllSweep(w) \/ AllRows(w) \/ AllScrub(w)
  BY <1>6 DEF AllRead, AllMark, AllSweep, AllRows, AllScrub
<1>7. CASE DeletionError(w) \/ SucceedError(w)
  BY <1>7 DEF DeletionError, SucceedError
<1>. QED
  BY <1>1, <1>2, <1>3, <1>4, <1>5, <1>6, <1>7 DEF SettleProceeds, DeletionProceeds

\* Requests never touch the consumers.
LEMMA RequestKeepsHolding ==
    ASSUME NEW r, RequestStarts(r) \/ RequestProceeds(r) \/ Abandon(r) \/ PutError(r)
    PROVE  holding' = holding
<1>. USE DEF rowVars, storeVars
<1>1. CASE RequestStarts(r)
  BY <1>1 DEF RequestStarts, CreateReplay, PutStart, ClientUploadStart,
     CompleteStart, RetryStart, DeleteStart
<1>2. CASE PutWrite(r) \/ PutMark(r) \/ PutCommit(r) \/ PutCleanup(r) \/ ClientUpload(r)
  BY <1>2 DEF PutWrite, PutMark, PutCommit, PutCleanup, ClientUpload
<1>3. CASE CompleteStat(r) \/ PromoteHead(r) \/ PromoteCopy(r) \/ PromoteDrop(r) \/ CompleteReject(r)
             \/ CompleteMark(r) \/ CompleteQueue(r)
  BY <1>3 DEF CompleteStat, PromoteHead, PromoteCopy, PromoteDrop, CompleteReject, CompleteMark,
     CompleteQueue, Stat, Copy
<1>4. CASE RetryStat(r) \/ RetryQueue(r) \/ DeleteMark(r) \/ DeleteEnqueue(r)
             \/ Abandon(r) \/ PutError(r)
  BY <1>4 DEF RetryStat, RetryQueue, DeleteMark, DeleteEnqueue, Abandon, PutError
<1>. QED
  BY <1>1, <1>2, <1>3, <1>4 DEF RequestProceeds

\* A claim starts a consumer at the first step of its job, at its first frame.
LEMMA ClaimPlace ==
    ASSUME NEW w \in Workers, PlaceOK, ClaimJob(w), \A j \in JobIds : jobs[j].kind \in JobKind
    PROVE  PlaceOK' /\ NoNewWork
<1>1. PICK j \in JobIds : Claim(w, j) /\ Step(w, FirstStep(jobs[j].kind))
  BY DEF ClaimJob
<1>2. FirstStep(jobs[j].kind) \in {"load", "source_read", "all_read"}
  BY DEF FirstStep, JobKind
<1>3. frame[w] = 1
  BY DEF ClaimJob, Doing, PlaceOK, EarlyStep
<1>. DEFINE step == FirstStep(jobs[j].kind)
<1>4. /\ pc' = [pc EXCEPT ![w] = step]
      /\ holding' = [holding EXCEPT ![w] = j]
      /\ UNCHANGED <<frame, retryable>>
  BY <1>1 DEF Claim, Step
<1>5. step \in BusyStep /\ step \notin FrameStep
  BY <1>2 DEF BusyStep, ProcessStep, DeleteStep, FrameStep
<1>. HIDE DEF step
<1>6. NoNewWork
  BY <1>4 DEF PlaceOK, ProcessorTypeOK, NoNewWork, Working, HoldsJob
<1>. QED BY <1>3, <1>4, <1>5, <1>6, ProcessesAssumption DEF PlaceOK, ProcessorTypeOK, Busy

\* The step to the next frame stays within the planned frames.
LEMMA NextFramePlace ==
    ASSUME NEW w \in Workers, PlaceOK, FrameDone(w)
    PROVE  PlaceOK' /\ NoNewWork
<1>. USE DEF FrameDone, Doing
<1>1. frame[w] \in 1..NumFrames
  BY DEF PlaceOK, FrameStep, FrameIds
<1>2. CASE MayWrite(w, {"extracting"})
  <2>. DEFINE step == IF frame[w] < NumFrames THEN "frame_check" ELSE "ready"
  <2>1. /\ pc' = [pc EXCEPT ![w] = step]
        /\ frame' = [frame EXCEPT ![w] = frame[w] + 1]
        /\ UNCHANGED <<retryable, holding>>
    BY <1>2 DEF PlaceOK, ProcessorTypeOK
  <2>2. frame[w] + 1 \in 1..NumFrames + 1 /\ (frame[w] < NumFrames => frame[w] + 1 \in 1..NumFrames)
    BY <1>1, CountsAssumption
  <2>3. /\ Busy(w) /\ step \in BusyStep
        /\ step \in FrameStep => frame[w] < NumFrames
        /\ step \notin EarlyStep
    BY DEF Busy, BusyStep, ProcessStep, FrameStep, EarlyStep
  <2>. HIDE DEF step
  <2>4. NoNewWork
    BY <2>1, <2>3, ProcessesAssumption
       DEF PlaceOK, ProcessorTypeOK, Busy, NoNewWork, Working, HoldsJob, Settling
  <2>. QED BY <2>1, <2>2, <2>3, <2>4 DEF PlaceOK, ProcessorTypeOK, Busy, FrameIds
<1>3. CASE ~MayWrite(w, {"extracting"})
  <2>1. Moved(w)
    BY <1>3 DEF Moved, Onward, Raise, RaiseProcess, Busy, BusyStep, ProcessStep,
       SettleStep, FrameStep, EarlyStep, Settling
  <2>. QED BY <2>1, MovedPlace, MovedWork
<1>. QED BY <1>2, <1>3

\* Every step keeps every consumer where it may be.
LEMMA Place ==
    ASSUME PlaceOK, \A j \in JobIds : jobs[j].kind \in JobKind, [Next]_vars
    PROVE  PlaceOK' /\ NoNewWork
<1>. DEFINE Still == UNCHANGED <<pc, frame, retryable, holding>>
<1>0. Still => PlaceOK' /\ NoNewWork
  BY DEF PlaceOK, ProcessorTypeOK, Busy, NoNewWork, Working, HoldsJob
<1>1. CASE UNCHANGED vars
  BY <1>0, <1>1 DEF vars, storeVars, workerVars
<1>2. ASSUME NEW r \in Requests, BeginRequest(r) \/ ServeRequest(r) \/ FailRequest(r)
      PROVE  PlaceOK' /\ NoNewWork
  BY <1>0, <1>2, RequestKeepsHolding DEF BeginRequest, ServeRequest, FailRequest, workerVars
<1>3. ASSUME NEW w \in Workers,
             RunConsumer(w) \/ ReportProgress(w) \/ SendHeartbeat(w)
               \/ StartWorker(w) \/ FailStep(w) \/ CrashWorker(w) \/ KillConsumer(w)
      PROVE  PlaceOK' /\ NoNewWork
  <2>1. CASE RunConsumer(w) \/ ReportProgress(w)
    BY <2>1, ProcessMoves, SettleMoves, MovedPlace, MovedWork, NextFramePlace, ClaimPlace
       DEF RunConsumer, ReportProgress, WorkerProceeds
  <2>2. CASE FailStep(w)
    BY <2>2, ProcessMoves, SettleMoves, MovedPlace, MovedWork, NextFramePlace DEF FailStep
  <2>3. CASE SendHeartbeat(w)
    BY <1>0, <2>3 DEF SendHeartbeat, Heartbeat, workerVars
  <2>4. CASE StartWorker(w)
    <3>1. /\ pc' = [pc EXCEPT ![w] = "idle"] /\ UNCHANGED <<frame, retryable, holding>>
          /\ pc[w] = "down"
      BY <2>4 DEF StartWorker, Step, Doing
    <3>2. {"idle", "down"} \cap (BusyStep \cup FrameStep) = {}
      BY DEF BusyStep, ProcessStep, SettleStep, DeleteStep, FrameStep
    <3>3. holding[w] = None
      BY <3>1, <3>2 DEF PlaceOK, Busy
    <3>4. NoNewWork
      BY <3>1, <3>3 DEF PlaceOK, ProcessorTypeOK, NoNewWork, Working, HoldsJob
    <3>. QED BY <3>1, <3>2, <3>4 DEF PlaceOK, ProcessorTypeOK, Busy, EarlyStep
  <2>5. CASE CrashWorker(w) \/ KillConsumer(w)
    BY <2>5, MovedPlace, MovedWork DEF CrashWorker, KillConsumer, Die, Lose, Moved
  <2>. QED BY <1>3, <2>1, <2>2, <2>3, <2>4, <2>5
<1>4. ASSUME NEW j \in JobIds, EndRetryDelay(j) \/ ExpireAbandoned(j) \/ SilenceHeartbeat(j)
      PROVE  PlaceOK' /\ NoNewWork
  BY <1>0, <1>4 DEF EndRetryDelay, BecomesAvailable, ExpireAbandoned, SilenceHeartbeat,
     HeartbeatExpires, workerVars
<1>5. CASE RunRetention \/ AdvanceClock
  BY <1>0, <1>5 DEF RunRetention, EnqueueDueRetention, AdvanceClock, Tick, workerVars
<1>. QED
  BY <1>1, <1>2, <1>3, <1>4, <1>5 DEF Next
-----------------------------------------------------------------------------
(* The job table: what may become of a job, whoever does it *)

\* A step of consumer w leaves the others where they are.
OthersStay(w) == \A v \in Workers \ {w} : holding'[v] = holding[v] /\ pc'[v] = pc[v]

\* `w` settles its job j under `status`.
Settled(w, j, status) ==
    /\ pc[w] \in SettleStep \ Settling /\ j = holding[w] /\ JobExists(j)
    /\ status = "retry_scheduled" => jobs[j].attempts < MaxAttempts
    /\ jobs' = [jobs EXCEPT ![j] = Released(j, status)]
    /\ holding' = [holding EXCEPT ![w] = None] \/ pc'[w] \in Settling
    /\ OthersStay(w)
SettleStatus == {"succeeded", "cancelled", "failed", "retry_scheduled"}
JobsWritten ==
    \/ \E kind \in JobKind : RowExists /\ AddJob(kind) /\ holding' = holding
    \/ \E w \in Workers : ClaimJob(w)
    \/ \E w \in Workers, status \in SettleStatus : Settled(w, holding[w], status)
    \/ \E w \in Workers : Heartbeat(w) \/ StartWorker(w)
    \/ \E j \in JobIds : BecomesAvailable(j) \/ ExpireAbandoned(j) \/ SilenceHeartbeat(j)
    \/ PurgeTombstone /\ holding' = holding

\* Requests only add jobs, and only beside the replay's row.
LEMMA RequestJobs ==
    ASSUME NEW r, RequestStarts(r) \/ RequestProceeds(r) \/ Abandon(r) \/ PutError(r)
    PROVE  jobs' = jobs \/ \E kind \in JobKind : RowExists /\ AddJob(kind)
<1>. USE DEF rowVars, storeVars
<1>1. CASE RequestStarts(r)
  BY <1>1 DEF RequestStarts, CreateReplay, PutStart, ClientUploadStart,
     CompleteStart, RetryStart, DeleteStart
<1>2. CASE PutWrite(r) \/ PutMark(r) \/ PutCommit(r) \/ PutCleanup(r) \/ ClientUpload(r)
  BY <1>2 DEF PutWrite, PutMark, PutCommit, PutCleanup, ClientUpload
<1>3. CASE CompleteStat(r) \/ PromoteHead(r) \/ PromoteCopy(r) \/ PromoteDrop(r) \/ CompleteReject(r)
             \/ CompleteMark(r)
  BY <1>3 DEF CompleteStat, PromoteHead, PromoteCopy, PromoteDrop, CompleteReject, CompleteMark,
     Stat, Copy
<1>4. CASE CompleteQueue(r) \/ RetryQueue(r) \/ DeleteEnqueue(r)
  BY <1>4 DEF CompleteQueue, RetryQueue, DeleteEnqueue, EnsureJob, JobKind, MayWrite,
     RowExists, ReplayStatus
<1>5. CASE RetryStat(r) \/ DeleteMark(r) \/ Abandon(r) \/ PutError(r)
  BY <1>5 DEF RetryStat, DeleteMark, Abandon, PutError
<1>. QED
  BY <1>1, <1>2, <1>3, <1>4, <1>5 DEF RequestProceeds

\* Consumers write the job they hold, or claim one.
LEMMA WorkerJobs ==
    ASSUME NEW w \in Workers, PlaceOK,
           WorkerProceeds(w) \/ Progress(w) \/ PipelineError(w) \/ DeletionError(w)
             \/ SucceedError(w)
    PROVE  jobs' = jobs \/ ClaimJob(w)
             \/ \E status \in SettleStatus : Settled(w, holding[w], status)
<1>. USE DEF Keep, SettleStatus
<1>a. Finish(w) => OthersStay(w)
  BY DEF Finish, Lose, Release, OthersStay, PlaceOK, ProcessorTypeOK
<1>b. ASSUME NEW step, Step(w, step), holding' = holding PROVE OthersStay(w)
  BY <1>b DEF Step, OthersStay, PlaceOK, ProcessorTypeOK
<1>1. CASE ProcessProceeds(w) \/ Progress(w)
  BY <1>1 DEF ProcessProceeds, Load, Download, StoreHash, Probe, Progress, Normalize,
     NormalizedCheck, NormalizedUpload, NormalizedRecheck, Extract, FrameCheck, FrameReuse,
     FrameUpload, FrameRecheck, FrameUpsert, FrameDone, Ready, Check, Transition
<1>2. CASE PipelineError(w) \/ DeletionError(w) \/ SucceedError(w)
  BY <1>2 DEF PipelineError, DeletionError, SucceedError
<1>3. CASE DeletionProceeds(w)
  BY <1>3 DEF DeletionProceeds, SourceRead, SourceDelete, SourceClear, AllRead,
     AllMark, AllSweep, AllRows, AllScrub
<1>4. CASE ReadFailed(w) \/ MarkFailed(w) \/ Sweep(w) \/ SweepRows(w)
  BY <1>4 DEF ReadFailed, MarkFailed, Sweep, SweepRows
<1>5. CASE SettleJob(w) \/ CancelJob(w)
  <2>. USE DEF Doing, SettleStep, Settling, Settled, Finish, Lose, Release
  <2>1. CASE SettleJob(w)
    BY <2>1, <1>a DEF SettleJob, Succeed, Die
  <2>2. CASE CancelJob(w)
    BY <2>2, <1>a DEF CancelJob, Cancel, Die
  <2>. QED BY <1>5, <2>1, <2>2
<1>6. CASE FailJob(w)
  <2>1. CASE ~MayFail(holding[w], TRUE)
    BY <1>6, <2>1 DEF FailJob, Die
  <2>2. CASE MayFail(holding[w], TRUE)
    <3>1. FailStatus(holding[w], TRUE) \in {"failed", "retry_scheduled"}
      BY DEF FailStatus
    <3>2. FailStatus(holding[w], TRUE) = "retry_scheduled"
            => jobs[holding[w]].attempts < MaxAttempts
      BY DEF FailStatus, RetryScheduled
    <3>3. Settled(w, holding[w], FailStatus(holding[w], TRUE))
      BY <1>a, <1>6, <2>2, <3>1, <3>2 DEF FailJob, Fail, MayFail, Finish, Lose, Release, Settled,
         Doing, SettleStep, Settling
    <3>. QED BY <3>1, <3>3
  <2>. QED BY <2>1, <2>2
<1>7. CASE FailProcess(w)
  <2>. DEFINE j == holding[w]
              again == retryable[w]
  <2>1. CASE ~MayFail(j, again)
    BY <1>7, <2>1 DEF FailProcess, Die
  <2>2. CASE MayFail(j, again)
    <3>1. FailStatus(j, again) \in {"failed", "retry_scheduled"}
      BY DEF FailStatus
    <3>2. FailStatus(j, again) = "retry_scheduled" => jobs[j].attempts < MaxAttempts
      BY DEF FailStatus, RetryScheduled
    <3>3. pc'[w] \in Settling
      BY <1>7, <2>2 DEF FailProcess, Step, Settling, PlaceOK, ProcessorTypeOK
    <3>4. Settled(w, j, FailStatus(j, again))
      BY <1>b, <1>7, <2>2, <3>1, <3>2, <3>3 DEF FailProcess, Fail, MayFail, Settled, Doing,
         SettleStep, Settling
    <3>. QED BY <3>1, <3>4
  <2>. QED BY <2>1, <2>2
<1>. QED
  BY <1>1, <1>2, <1>3, <1>4, <1>5, <1>6, <1>7 DEF WorkerProceeds, SettleProceeds

\* All the steps that write the jobs table.
LEMMA JobWriters ==
    ASSUME PlaceOK, [Next]_vars
    PROVE  jobs' = jobs \/ JobsWritten
<1>1. CASE UNCHANGED vars
  BY <1>1 DEF vars, storeVars
<1>2. ASSUME NEW r \in Requests, BeginRequest(r) \/ ServeRequest(r) \/ FailRequest(r)
      PROVE  jobs' = jobs \/ JobsWritten
  BY <1>2, RequestJobs, RequestKeepsHolding
     DEF BeginRequest, ServeRequest, FailRequest, JobsWritten
<1>3. ASSUME NEW w \in Workers,
             RunConsumer(w) \/ ReportProgress(w) \/ SendHeartbeat(w)
               \/ StartWorker(w) \/ FailStep(w) \/ CrashWorker(w) \/ KillConsumer(w)
      PROVE  jobs' = jobs \/ JobsWritten
  <2>1. CASE RunConsumer(w) \/ ReportProgress(w) \/ FailStep(w)
    BY <2>1, WorkerJobs DEF RunConsumer, ReportProgress, FailStep, JobsWritten
  <2>2. CASE SendHeartbeat(w) \/ StartWorker(w)
    BY <2>2 DEF SendHeartbeat, JobsWritten
  <2>3. CASE CrashWorker(w) \/ KillConsumer(w)
    BY <2>3 DEF CrashWorker, KillConsumer, Die
  <2>. QED BY <1>3, <2>1, <2>2, <2>3
<1>4. ASSUME NEW j \in JobIds, EndRetryDelay(j) \/ ExpireAbandoned(j) \/ SilenceHeartbeat(j)
      PROVE  JobsWritten
  BY <1>4 DEF EndRetryDelay, JobsWritten
<1>5. CASE RunRetention
  BY <1>5 DEF RunRetention, EnqueueDueRetention, QueueRetention, DeleteAllDue,
     DeleteSourceDue, JobsWritten, JobKind
<1>6. CASE AdvanceClock
  BY <1>6 DEF AdvanceClock, Tick
<1>. QED
  BY <1>1, <1>2, <1>3, <1>4, <1>5, <1>6 DEF Next

-----------------------------------------------------------------------------
(* The job table keeps its type.  A job waiting for a claim has an attempt    *)
(* left, so claiming never counts past max_attempts.                          *)

JobsOK ==
    /\ jobs \in [JobIds -> Job]
    /\ \A j \in JobIds : jobs[j].status \in {"pending", "retry_scheduled"} =>
                           jobs[j].attempts < MaxAttempts

\* A released job is a job again.
LEMMA ReleasedJob ==
    ASSUME NEW j \in JobIds, jobs[j] \in Job, NEW status \in JobStatus
    PROVE  /\ Released(j, status) \in Job
           /\ Released(j, status).status = status
           /\ Released(j, status).attempts = jobs[j].attempts
BY DEF Released, Job

\* One job is written, and the new one is sound.
LEMMA JobWritten ==
    ASSUME JobsOK, NEW j \in JobIds, NEW job \in Job, jobs' = [jobs EXCEPT ![j] = job],
           job.status \in {"pending", "retry_scheduled"} => job.attempts < MaxAttempts
    PROVE  JobsOK'
BY DEF JobsOK

\* Every step keeps every job well typed, with its attempts within bounds.
LEMMA JobsType ==
    ASSUME JobsOK, PlaceOK, [Next]_vars
    PROVE  JobsOK'
<1>. USE DEF JobsOK
<1>1. CASE jobs' = jobs
  BY <1>1
<1>2. ASSUME NEW kind \in JobKind, AddJob(kind) PROVE JobsOK'
  <2>1. NewJob(kind) \in Job
    BY CountsAssumption DEF NewJob, Job, JobStatus, ActiveJobStatus
  <2>2. PICK j \in JobIds : jobs' = [jobs EXCEPT ![j] = NewJob(kind)]
    BY <1>2 DEF AddJob
  <2>3. NewJob(kind).attempts < MaxAttempts
    BY CountsAssumption DEF NewJob
  <2>. QED BY <2>1, <2>2, <2>3, JobWritten
<1>3. ASSUME NEW w \in Workers, ClaimJob(w) PROVE JobsOK'
  <2>1. PICK j \in JobIds : Claim(w, j)
    BY <1>3 DEF ClaimJob
  <2>2. jobs[j].attempts \in 0..MaxAttempts /\ jobs[j].attempts < MaxAttempts
    BY <2>1 DEF Claim, Job
  <2>3. jobs[j].attempts + 1 \in 0..MaxAttempts
    BY <2>2, CountsAssumption
  <2>4. jobs' = [jobs EXCEPT ![j] = Claimed(w, j)]
    BY <2>1 DEF Claim
  <2>5. Claimed(w, j) \in Job /\ Claimed(w, j).status = "running"
    <3>1. jobs[j] \in Job
      OBVIOUS
    <3>. QED BY <2>3, <3>1 DEF Claimed, Job, JobStatus, ActiveJobStatus
  <2>. QED BY <2>4, <2>5, JobWritten
<1>4. ASSUME NEW w \in Workers, NEW status \in SettleStatus,
             Settled(w, holding[w], status)
      PROVE  JobsOK'
  <2>1. holding[w] \in JobIds
    BY <1>4 DEF Settled, PlaceOK, Busy, BusyStep
  <2>2. status \in JobStatus
    BY DEF SettleStatus, JobStatus, ActiveJobStatus
  <2>. QED BY <1>4, <2>1, <2>2, ReleasedJob DEF Settled, SettleStatus
<1>5. ASSUME NEW w \in Workers, StartWorker(w) PROVE JobsOK'
  <2>1. ASSUME NEW j \in JobIds
        PROVE  /\ RecoveredStatus(j) \in JobStatus \ {"pending"}
               /\ RecoveredStatus(j) = "retry_scheduled" => jobs[j].attempts < MaxAttempts
    BY DEF RecoveredStatus, FailStatus, RetryScheduled, JobStatus, ActiveJobStatus
  <2>2. jobs' = [j \in JobIds |-> IF j \in StaleJobs
                                   THEN Released(j, RecoveredStatus(j)) ELSE jobs[j]]
    BY <1>5 DEF StartWorker, RecoverStale
  <2>. QED BY <2>1, <2>2, ReleasedJob
<1>6. ASSUME NEW j \in JobIds, BecomesAvailable(j) \/ HeartbeatExpires(j) PROVE JobsOK'
  <2>1. jobs[j] \in Job
    OBVIOUS
  <2>2. jobs[j].status \in {"pending", "retry_scheduled"} => jobs[j].attempts < MaxAttempts
    OBVIOUS
  <2>. DEFINE due == [jobs[j] EXCEPT !.due = TRUE]
              expired == [jobs[j] EXCEPT !.stale = TRUE]
  <2>3. CASE BecomesAvailable(j)
    <3>1. due \in Job /\ due.status = jobs[j].status /\ due.attempts = jobs[j].attempts
      BY <2>1 DEF Job
    <3>2. jobs' = [jobs EXCEPT ![j] = due]
      BY <2>3 DEF BecomesAvailable
    <3>. HIDE DEF due
    <3>. QED BY <2>2, <3>1, <3>2, JobWritten
  <2>4. CASE HeartbeatExpires(j)
    <3>1. expired \in Job /\ expired.status = jobs[j].status
          /\ expired.attempts = jobs[j].attempts
      BY <2>1 DEF Job
    <3>2. jobs' = [jobs EXCEPT ![j] = expired]
      BY <2>4 DEF HeartbeatExpires
    <3>. HIDE DEF expired
    <3>. QED BY <2>2, <3>1, <3>2, JobWritten
  <2>. QED BY <1>6, <2>3, <2>4
<1>7. ASSUME NEW w \in Workers, Heartbeat(w) PROVE JobsOK'
  <2>1. holding[w] \in JobIds
    BY <1>7 DEF Heartbeat, PlaceOK
  <2>. DEFINE j == holding[w]
              alive == [jobs[j] EXCEPT !.stale = FALSE]
  <2>2. /\ jobs[j] \in Job
        /\ jobs[j].status \in {"pending", "retry_scheduled"} => jobs[j].attempts < MaxAttempts
    BY <2>1
  <2>3. alive \in Job /\ alive.status = jobs[j].status /\ alive.attempts = jobs[j].attempts
    BY <2>2 DEF Job
  <2>4. jobs' = [jobs EXCEPT ![j] = alive]
    BY <1>7 DEF Heartbeat
  <2>. HIDE DEF j, alive
  <2>5. j \in JobIds
    BY <2>1 DEF j
  <2>. QED BY <2>2, <2>3, <2>4, <2>5, JobWritten
<1>8. CASE PurgeTombstone
  <2>1. NoJob \in Job /\ NoJob.status = "none"
    BY CountsAssumption DEF NoJob, Job, JobKind
  <2>. QED BY <1>8, <2>1 DEF PurgeTombstone
<1>. QED
  BY <1>1, <1>2, <1>3, <1>4, <1>5, <1>6, <1>7, <1>8, JobWriters
     DEF JobsWritten, ExpireAbandoned, SilenceHeartbeat

-----------------------------------------------------------------------------
(* The rest of the type *)

MediaOK ==
    /\ objects \subseteq Objects
    /\ oversize \subseteq {"tmp", "source"}
    /\ frames \subseteq FrameIds
    /\ artifacts \subseteq FrameIds
    /\ current \subseteq Processes

\* A request writes its own step, its own copy of the row, and objects.
LEMMA RequestType ==
    ASSUME NEW r \in Requests, ServiceTypeOK, MediaOK,
           RequestStarts(r) \/ RequestProceeds(r) \/ Abandon(r) \/ PutError(r)
    PROVE  ServiceTypeOK' /\ MediaOK'
<1>. USE DEF MediaOK, mediaVars, storeVars, Answer, Read, Forget, Write, PutObject,
             DeleteObjects, Objects
<1>0. r \in Processes
  BY DEF Processes
<1>a. ASSUME NEW step \in RequestStep, GoTo(r, step) PROVE ServiceTypeOK'
  BY <1>a DEF GoTo, ServiceTypeOK
<1>b. rq' = rq => ServiceTypeOK'
  BY DEF ServiceTypeOK
<1>c. RequestStep =
        {"idle", "put_write", "put_mark", "put_commit", "put_cleanup", "client_upload",
         "promote_head", "promote_valid", "promote_big", "drop_valid", "drop_big", "stat_created",
         "stat_uploaded", "complete_reject", "complete_mark", "complete_queue",
         "retry_stat", "retry_queue", "delete_mark", "delete_enqueue"}
  BY DEF RequestStep
<1>1. CASE RequestStarts(r)
  BY <1>0, <1>a, <1>b, <1>c, <1>1 DEF RequestStarts, CreateReplay, Insert, PutStart,
     ClientUploadStart, CompleteStart, RetryStart, DeleteStart
<1>2. CASE PutWrite(r) \/ PutMark(r) \/ PutCommit(r) \/ PutCleanup(r) \/ ClientUpload(r)
  BY <1>0, <1>a, <1>c, <1>2 DEF PutWrite, PutMark, PutCommit, PutCleanup, ClientUpload
<1>3. CASE CompleteStat(r) \/ PromoteHead(r)
  BY <1>0, <1>a, <1>c, <1>3 DEF CompleteStat, PromoteHead, Stat
<1>4. CASE PromoteCopy(r) \/ PromoteDrop(r) \/ CompleteReject(r)
  BY <1>0, <1>a, <1>c, <1>4 DEF PromoteCopy, PromoteDrop, CompleteReject, Copy
<1>5. CASE CompleteMark(r) \/ CompleteQueue(r)
  BY <1>0, <1>a, <1>c, <1>5 DEF CompleteMark, CompleteQueue
<1>6. CASE RetryStat(r) \/ RetryQueue(r) \/ DeleteMark(r) \/ DeleteEnqueue(r)
             \/ Abandon(r) \/ PutError(r)
  BY <1>0, <1>a, <1>c, <1>6 DEF RetryStat, RetryQueue, DeleteMark, DeleteEnqueue, Abandon,
     PutError
<1>. QED
  BY <1>1, <1>2, <1>3, <1>4, <1>5, <1>6 DEF RequestProceeds

\* A consumer stores the frame it is at, which is one of the planned ones.
LEMMA WorkerType ==
    ASSUME NEW w \in Workers, PlaceOK, MediaOK,
           WorkerProceeds(w) \/ Progress(w) \/ Heartbeat(w)
             \/ PipelineError(w) \/ DeletionError(w) \/ SucceedError(w)
    PROVE  MediaOK'
<1>. USE DEF MediaOK, KeepMedia, ReadRow, DropRow, Write, PutObject, DeleteObjects,
             Objects, Raise, RaiseProcess
<1>0. w \in Processes
  BY DEF Processes
<1>1. CASE ClaimJob(w) \/ Heartbeat(w) \/ PipelineError(w) \/ SucceedError(w)
  BY <1>1 DEF ClaimJob, Heartbeat, PipelineError, SucceedError
<1>2. CASE Load(w) \/ Download(w) \/ Progress(w)
  BY <1>0, <1>2 DEF Load, Download, Progress
<1>3. CASE StoreHash(w) \/ Probe(w) \/ Normalize(w) \/ Extract(w) \/ Ready(w)
             \/ FrameDone(w)
  BY <1>0, <1>3 DEF StoreHash, Probe, Normalize, Extract, Ready, FrameDone, Transition
<1>4. CASE NormalizedCheck(w) \/ NormalizedUpload(w) \/ NormalizedRecheck(w)
  BY <1>4 DEF NormalizedCheck, NormalizedUpload, NormalizedRecheck, Check
<1>5. CASE FrameCheck(w) \/ FrameReuse(w) \/ FrameUpload(w) \/ FrameRecheck(w) \/ FrameUpsert(w)
  <2>1. Doing(w, "frame_upload") \/ Doing(w, "frame_upsert") => frame[w] \in FrameIds
    BY DEF PlaceOK, FrameStep, Doing
  <2>. QED BY <1>5, <2>1 DEF FrameCheck, FrameReuse, FrameUpload, FrameRecheck, FrameUpsert, Check
<1>6. CASE SettleProceeds(w)
  BY <1>0, <1>6 DEF SettleProceeds, SettleJob, FailProcess, ReadFailed, MarkFailed,
     FailJob, Sweep, SweepRows, CancelJob, Finish, FinishWriting, Lose, Die
<1>7. CASE DeletionProceeds(w)
  BY <1>0, <1>7 DEF DeletionProceeds, SourceRead, SourceDelete, SourceClear, AllRead,
     AllMark, AllSweep, AllRows, AllScrub, ScrubDeleted
<1>8. CASE DeletionError(w)
  <2>1. frames' \subseteq frames /\ objects' \subseteq objects
          /\ oversize' \subseteq oversize
    BY <1>8 DEF DeletionError
  <2>. QED BY <1>8, <2>1 DEF DeletionError
<1>. QED
  BY <1>1, <1>2, <1>3, <1>4, <1>5, <1>6, <1>7, <1>8 DEF WorkerProceeds, ProcessProceeds

\* The type, what a consumer's place says, and that waiting jobs have an
\* attempt left: together they are inductive.
TypeInv == TypeOK /\ PlaceOK /\ JobsOK

\* Every step keeps the types of what is left: objects, artifacts, copies, faults.
LEMMA RestType ==
    ASSUME ServiceTypeOK, MediaOK, PlaceOK, faults \in 0..MaxFaults, [Next]_vars
    PROVE  ServiceTypeOK' /\ MediaOK' /\ (faults \in 0..MaxFaults)'
<1>. USE DEF NoFault
<1>a. UNCHANGED rq => ServiceTypeOK'
  BY DEF ServiceTypeOK
<1>b. UNCHANGED <<current, objects, oversize, frames, artifacts>> => MediaOK'
  BY DEF MediaOK
<1>c. ASSUME NEW kind, Fault(kind) PROVE (faults \in 0..MaxFaults)'
  BY <1>c, FaultsAssumption DEF Fault
<1>1. CASE UNCHANGED vars
  BY <1>1, <1>a, <1>b DEF vars, storeVars
<1>2. ASSUME NEW r \in Requests, BeginRequest(r) \/ ServeRequest(r) \/ FailRequest(r)
      PROVE  ServiceTypeOK' /\ MediaOK' /\ (faults \in 0..MaxFaults)'
  BY <1>2, <1>c, RequestType DEF BeginRequest, ServeRequest, FailRequest
<1>3. ASSUME NEW w \in Workers,
             RunConsumer(w) \/ ReportProgress(w) \/ SendHeartbeat(w)
               \/ StartWorker(w) \/ FailStep(w) \/ CrashWorker(w) \/ KillConsumer(w)
      PROVE  ServiceTypeOK' /\ MediaOK' /\ (faults \in 0..MaxFaults)'
  <2>1. CASE RunConsumer(w) \/ ReportProgress(w) \/ SendHeartbeat(w)
    BY <2>1, <1>a, WorkerType DEF RunConsumer, ReportProgress, SendHeartbeat
  <2>2. CASE FailStep(w)
    BY <2>2, <1>a, <1>c, WorkerType DEF FailStep
  <2>3. CASE StartWorker(w)
    BY <2>3, <1>a DEF StartWorker, RecoverStale, MediaOK, mediaVars
  <2>4. CASE CrashWorker(w) \/ KillConsumer(w)
    BY <2>4, <1>a, <1>c DEF CrashWorker, KillConsumer, Die, Lose, DropRow, MediaOK,
       mediaVars
  <2>. QED BY <1>3, <2>1, <2>2, <2>3, <2>4
<1>4. ASSUME NEW j \in JobIds, EndRetryDelay(j) \/ ExpireAbandoned(j) \/ SilenceHeartbeat(j)
      PROVE  ServiceTypeOK' /\ MediaOK' /\ (faults \in 0..MaxFaults)'
  BY <1>4, <1>a, <1>b, <1>c DEF EndRetryDelay, BecomesAvailable, ExpireAbandoned,
     SilenceHeartbeat, HeartbeatExpires, mediaVars
<1>5. CASE RunRetention
  BY <1>5, <1>a DEF RunRetention, EnqueueDueRetention, PurgeTombstone, QueueRetention,
     MediaOK
<1>6. CASE AdvanceClock
  BY <1>6, <1>a, <1>b DEF AdvanceClock, Tick
<1>. QED
  BY <1>1, <1>2, <1>3, <1>4, <1>5, <1>6 DEF Next

\* The invariant holds initially.
LEMMA InitTypeInv == Init => TypeInv
<1> SUFFICES ASSUME Init PROVE TypeInv
    OBVIOUS
<1>1. TypeOK
  BY InitType
<1>2. PlaceOK
  <2>1. \A w \in Workers : pc[w] = "idle" /\ holding[w] = None /\ frame[w] = 1
    BY DEF Init, StoreInit, ProcessorInit
  <2>2. "idle" \notin BusyStep /\ "idle" \notin FrameStep
    BY DEF BusyStep, ProcessStep, SettleStep, DeleteStep, FrameStep
  <2>. QED BY <1>1, <2>1, <2>2, ProcessesAssumption DEF PlaceOK, TypeOK, StoreTypeOK, Busy
<1>3. JobsOK
  <2>1. \A j \in JobIds : jobs[j].status = "none"
    BY DEF Init, StoreInit, NoJob
  <2>. QED BY <1>1, <2>1 DEF JobsOK, TypeOK, StoreTypeOK
<1>. QED BY <1>1, <1>2, <1>3 DEF TypeInv

\* Every step preserves the invariant.
LEMMA NextTypeInv == TypeInv /\ [Next]_vars => TypeInv'
<1> SUFFICES ASSUME TypeInv, [Next]_vars PROVE TypeInv'
    OBVIOUS
<1>. USE DEF TypeInv
<1>1. \A j \in JobIds : jobs[j].kind \in JobKind
  BY DEF JobsOK, Job
<1>2. RowTypeOK /\ ServiceTypeOK /\ MediaOK /\ ProcessorTypeOK /\ faults \in 0..MaxFaults
  BY DEF TypeOK, StoreTypeOK, RowTypeOK, MediaOK
<1>3. PlaceOK'
  BY <1>1, Place
<1>4. JobsOK'
  BY JobsType
<1>5. RowTypeOK'
  BY <1>2, RowType
<1>6. ServiceTypeOK' /\ MediaOK' /\ (faults \in 0..MaxFaults)'
  BY <1>2, RestType
<1>7. TypeOK'
  BY <1>3, <1>4, <1>5, <1>6 DEF TypeOK, StoreTypeOK, RowTypeOK, MediaOK, PlaceOK, JobsOK
<1>. QED BY <1>3, <1>4, <1>7

\* The invariant holds in every reachable state.
LEMMA SpecTypeInv == Spec => []TypeInv
BY InitTypeInv, NextTypeInv, PTL DEF Spec

\* Every reachable state is of the declared type.  The point of it is the
\* attempts column: no claim, whatever failures, retries and recoveries came
\* before, carries a job past max_attempts; and no consumer ever stores a frame
\* that was not planned.
THEOREM TypeCorrect == Spec => []TypeOK
<1>1. TypeInv => TypeOK
  BY DEF TypeInv
<1>. QED BY <1>1, SpecTypeInv, PTL

-----------------------------------------------------------------------------
(* A deletion is final, and a tombstone stays scrubbed *)

\* The writers that do not ask for a status outside the deletion keep the
\* status (SourceClear, the clock) or move on within it; the scrub is the one
\* that makes a tombstone, and nobody gives one a key again.
LEMMA RowWrittenInDeletion ==
    ASSUME RowTypeOK, RowWritten
    PROVE  DeletionKept /\ (TombstoneIsScrubbed => TombstoneIsScrubbed')
<1>. USE DEF DeletionKept, TombstoneIsScrubbed, RowTypeOK, Row
<1>1. ASSUME NEW r \in Requests, RequestWritesRow(r)
      PROVE  DeletionKept /\ (TombstoneIsScrubbed => TombstoneIsScrubbed')
  <2>1. CASE CreateReplay(r)
    BY <2>1 DEF CreateReplay, Insert, UnbornRow, DeletionStatus
  <2>2. CASE PutCommit(r) \/ CompleteMark(r)
    BY <2>2 DEF PutCommit, CompleteMark, MayWrite, Write, DeletionStatus
  <2>3. CASE CompleteQueue(r) \/ RetryQueue(r) \/ DeleteMark(r)
    BY <2>3 DEF CompleteQueue, RetryQueue, DeleteMark, MayWrite, Write, DeletionStatus
  <2>. QED BY <1>1, <2>1, <2>2, <2>3 DEF RequestWritesRow
<1>2. ASSUME NEW w \in Workers, WorkerWritesRow(w)
      PROVE  DeletionKept /\ (TombstoneIsScrubbed => TombstoneIsScrubbed')
  <2>1. CASE StoreHash(w) \/ Probe(w) \/ Normalize(w) \/ Extract(w) \/ Ready(w)
    BY <2>1 DEF StoreHash, Probe, Normalize, Extract, Ready, Transition, MayWrite,
       Write, ProcessingStatus
  <2>2. CASE Progress(w) \/ FrameDone(w) \/ AllMark(w) \/ MarkFailed(w)
    BY <2>2 DEF Progress, FrameDone, AllMark, MarkFailed, MayWrite, Write,
       ProcessingStatus, DeletionStatus
  <2>3. CASE SourceClear(w)
    BY <2>3 DEF SourceClear, Write
  <2>4. CASE AllScrub(w)
    BY <2>4 DEF AllScrub, ScrubDeleted, Scrubbed
  <2>5. CASE StartWorker(w)
    BY <2>5 DEF StartWorker, RecoverStale, SyncedRow, Deleting, DeletionStatus
  <2>. QED BY <1>2, <2>1, <2>2, <2>3, <2>4, <2>5 DEF WorkerWritesRow
<1>3. CASE PurgeTombstone
  BY <1>3 DEF PurgeTombstone, TombstoneDue, UnbornRow
<1>4. CASE Tick
  BY <1>4 DEF Tick
<1>. QED BY <1>1, <1>2, <1>3, <1>4 DEF RowWritten, AdvanceClock

\* Nothing takes a replay out of its deletion: a row that is being deleted
\* stays so until it is a tombstone, and a tombstone until retention removes
\* it (transition, queue_process_job, recover_stale, scrub_deleted).
THEOREM DeletionFinal == Spec => DeletionIsFinal
<1>1. TypeInv /\ [Next]_vars => [DeletionKept]_vars
  <2>. SUFFICES ASSUME TypeInv, [Next]_vars PROVE DeletionKept
    OBVIOUS
  <2>1. CASE row' = row
    BY <2>1 DEF DeletionKept
  <2>. QED
    BY <2>1, RowWriters, RowWrittenInDeletion DEF TypeInv, TypeOK, StoreTypeOK, RowTypeOK
<1>. QED BY <1>1, SpecTypeInv, PTL DEF Spec, DeletionIsFinal

\* A tombstone has neither token digest nor object keys, in every state, with
\* any number of consumers that still hold a copy of the row from before.
THEOREM TombstoneScrubbed == Spec => []TombstoneIsScrubbed
<1>1. Init => TombstoneIsScrubbed
  BY DEF Init, StoreInit, UnbornRow, TombstoneIsScrubbed
<1>2. TypeInv /\ TombstoneIsScrubbed /\ [Next]_vars => TombstoneIsScrubbed'
  <2>. SUFFICES ASSUME TypeInv, TombstoneIsScrubbed, [Next]_vars
                PROVE  TombstoneIsScrubbed'
    OBVIOUS
  <2>1. CASE row' = row
    BY <2>1 DEF TombstoneIsScrubbed
  <2>. QED
    BY <2>1, RowWriters, RowWrittenInDeletion DEF TypeInv, TypeOK, StoreTypeOK, RowTypeOK
<1>. QED BY <1>1, <1>2, SpecTypeInv, PTL DEF Spec

-----------------------------------------------------------------------------
(* A job is worked on in one place *)

\* ExclusiveJob is not inductive: a recovery takes every job whose heartbeat
\* is stale.  While heartbeat tasks do their work no job in a consumer's hands
\* is one of them.
Owned(w) == OwnsJob(w) /\ ~jobs[holding[w]].stale
ExclusiveInv == \A w \in Workers : Working(w) /\ JobExists(holding[w]) => Owned(w)

\* Two consumers do not own the same job: it names one worker.
LEMMA OwnsApart ==
    ASSUME ExclusiveInv, NEW v \in Workers, NEW w \in Workers, v # w,
           Working(v), Working(w), JobExists(holding[v])
    PROVE  holding[v] # holding[w]
BY DEF ExclusiveInv, Owned, OwnsJob

\* A step that changes no job, or none in anybody's hands.
LEMMA OthersJobs ==
    ASSUME ExclusiveInv, NoNewWork, \A v \in Workers : ~ClaimJob(v),
           \A v \in Workers : Working(v) /\ JobExists(holding[v])' /\ holding'[v] = holding[v]
                                => jobs'[holding[v]] = jobs[holding[v]]
    PROVE  ExclusiveInv'
<1>. SUFFICES ASSUME NEW v \in Workers, Working(v)', JobExists(holding[v])'
              PROVE  Owned(v)'
  BY DEF ExclusiveInv
<1>1. Working(v) /\ holding'[v] = holding[v]
  BY DEF NoNewWork
<1>2. jobs'[holding[v]] = jobs[holding[v]]
  BY <1>1
<1>3. JobExists(holding[v])
  BY <1>1, <1>2 DEF JobExists
<1>. QED BY <1>1, <1>2, <1>3 DEF ExclusiveInv, Owned, OwnsJob

\* Every step preserves it, provided that no heartbeat falls silent.
LEMMA NextExclusive ==
    ASSUME "silence" \notin Faults, TypeInv, ExclusiveInv, [Next]_vars
    PROVE  ExclusiveInv'
<1>0. /\ PlaceOK /\ NoNewWork /\ jobs \in [JobIds -> Job]
      /\ holding \in [Workers -> JobIds \cup {None}]
      /\ pc \in [Workers -> BusyStep \cup {"idle", "dead", "down"}]
  <2>1. \A j \in JobIds : jobs[j].kind \in JobKind
    BY DEF TypeInv, JobsOK, Job
  <2>. QED BY <2>1, Place DEF TypeInv, JobsOK, PlaceOK, ProcessorTypeOK
<1>a. \A v \in Workers : Working(v) => holding[v] \in JobIds
  BY <1>0 DEF Working, HoldsJob
<1>1. ASSUME NEW w \in Workers, ClaimJob(w) PROVE ExclusiveInv'
  <2>1. PICK j \in JobIds : Claim(w, j) /\ pc' = [pc EXCEPT ![w] = FirstStep(jobs[j].kind)]
    BY <1>1 DEF ClaimJob, Step
  <2>2. /\ jobs' = [jobs EXCEPT ![j] = Claimed(w, j)]
        /\ holding' = [holding EXCEPT ![w] = j]
        /\ jobs[j].status \in {"pending", "retry_scheduled"}
    BY <2>1 DEF Claim
  <2>3. /\ Claimed(w, j).status = "running" /\ Claimed(w, j).worker = w
        /\ ~Claimed(w, j).stale
    <3>1. jobs[j] \in Job
      BY <1>0
    <3>. QED BY <3>1 DEF Claimed, Job
  <2>4. Owned(w)'
    BY <1>0, <2>2, <2>3 DEF Owned, OwnsJob
  <2>5. ASSUME NEW v \in Workers \ {w}, Working(v)', JobExists(holding[v])'
        PROVE  Owned(v)'
    <3>1. holding'[v] = holding[v] /\ Working(v)
      BY <1>0, <2>1, <2>2, <2>5 DEF Working, HoldsJob
    <3>2. holding[v] # j
      BY <2>2, <3>1 DEF ExclusiveInv, Owned, OwnsJob, JobExists
    <3>3. jobs'[holding[v]] = jobs[holding[v]]
      BY <1>0, <1>a, <2>2, <3>1, <3>2
    <3>. QED
      BY <2>5, <3>1, <3>3 DEF ExclusiveInv, Owned, OwnsJob, JobExists
  <2>. QED BY <2>4, <2>5 DEF ExclusiveInv
<1>. SUFFICES ASSUME \A v \in Workers : ~ClaimJob(v) PROVE ExclusiveInv'
  BY <1>1
<1>2. CASE jobs' = jobs
  BY <1>0, <1>2, OthersJobs
<1>3. ASSUME NEW kind \in JobKind, AddJob(kind), holding' = holding PROVE ExclusiveInv'
  <2>1. PICK j \in JobIds : NextSlot(j) /\ jobs' = [jobs EXCEPT ![j] = NewJob(kind)]
    BY <1>3 DEF AddJob
  <2>2. \A v \in Workers : holding[v] # j
    BY <2>1 DEF NextSlot, FreeSlot
  <2>. QED BY <1>0, <1>a, <2>1, <2>2, OthersJobs
<1>4. ASSUME NEW w \in Workers, NEW status \in SettleStatus,
             Settled(w, holding[w], status)
      PROVE  ExclusiveInv'
  <2>1. Working(w) /\ ~Working(w)'
    BY <1>0, <1>4, ProcessesAssumption
       DEF Settled, Working, HoldsJob, PlaceOK, Busy, BusyStep
  <2>2. ASSUME NEW v \in Workers \ {w}, Working(v)', JobExists(holding[v])'
        PROVE  Owned(v)'
    <3>1. Working(v) /\ holding'[v] = holding[v]
      BY <1>0, <2>2 DEF NoNewWork
    <3>2. CASE holding[v] = holding[w]
      BY <1>4, <2>1, <3>1, <3>2, OwnsApart DEF Settled
    <3>3. CASE holding[v] # holding[w]
      <4>1. jobs'[holding[v]] = jobs[holding[v]]
        BY <1>0, <1>4, <1>a, <3>1, <3>3 DEF Settled
      <4>. QED BY <2>2, <3>1, <4>1 DEF ExclusiveInv, Owned, OwnsJob, JobExists
    <3>. QED BY <3>2, <3>3
  <2>. QED BY <2>1, <2>2 DEF ExclusiveInv
<1>5. ASSUME NEW w \in Workers, StartWorker(w) PROVE ExclusiveInv'
  <2>1. \A j \in JobIds : j \notin StaleJobs => jobs'[j] = jobs[j]
    BY <1>5 DEF StartWorker, RecoverStale
  <2>2. ASSUME NEW v \in Workers, Working(v), JobExists(holding[v])
        PROVE  holding[v] \notin StaleJobs
    BY <2>2 DEF ExclusiveInv, Owned, StaleJobs
  <2>3. ASSUME NEW v \in Workers, Working(v), ~JobExists(holding[v])
        PROVE  holding[v] \notin StaleJobs
    BY <2>3 DEF JobExists, StaleJobs
  <2>. QED BY <1>0, <1>a, <2>1, <2>2, <2>3, OthersJobs
<1>6. ASSUME NEW w \in Workers, Heartbeat(w) PROVE ExclusiveInv'
  <2>. DEFINE h == holding[w]
  <2>1. /\ h \in JobIds /\ jobs' = [jobs EXCEPT ![h].stale = FALSE]
        /\ UNCHANGED <<holding, pc>>
    BY <1>0, <1>6 DEF Heartbeat, workerVars, PlaceOK
  <2>2. jobs[h] \in Job
    BY <1>0, <2>1
  <2>3. ASSUME NEW j \in JobIds
        PROVE  /\ jobs'[j].status = jobs[j].status /\ jobs'[j].worker = jobs[j].worker
               /\ ~jobs[j].stale => ~jobs'[j].stale
    BY <1>0, <2>1, <2>2 DEF Job
  <2>. HIDE DEF h
  <2>. QED
    BY <1>a, <2>1, <2>3 DEF ExclusiveInv, Owned, OwnsJob, JobExists, Working, HoldsJob
<1>7. ASSUME NEW j \in JobIds, BecomesAvailable(j) PROVE ExclusiveInv'
  <2>1. /\ jobs[j].status = "retry_scheduled"
        /\ \A i \in JobIds \ {j} : jobs'[i] = jobs[i]
    BY <1>0, <1>7 DEF BecomesAvailable
  <2>2. ASSUME NEW v \in Workers, Working(v) PROVE holding[v] # j
    BY <2>1, <2>2 DEF ExclusiveInv, Owned, OwnsJob, JobExists
  <2>. QED BY <1>0, <1>a, <2>1, <2>2, OthersJobs
<1>8. ASSUME NEW j \in JobIds, ExpireAbandoned(j) \/ SilenceHeartbeat(j) PROVE ExclusiveInv'
  <2>1. Abandoned(j) /\ HeartbeatExpires(j)
    BY <1>8 DEF ExpireAbandoned, SilenceHeartbeat, Fault
  <2>2. jobs[j].status = "running" /\ \A i \in JobIds \ {j} : jobs'[i] = jobs[i]
    BY <1>0, <2>1 DEF HeartbeatExpires
  <2>3. ASSUME NEW v \in Workers, Working(v) PROVE holding[v] # j
    BY <2>1, <2>2, <2>3 DEF ExclusiveInv, Owned, OwnsJob, JobExists, Abandoned
  <2>. QED BY <1>0, <1>a, <2>2, <2>3, OthersJobs
<1>9. ASSUME PurgeTombstone, holding' = holding PROVE ExclusiveInv'
  <2>1. \A j \in JobIds : ~JobExists(j)'
    BY <1>9 DEF PurgeTombstone, JobExists, NoJob
  <2>. QED BY <1>0, <1>9, <1>a, <2>1 DEF ExclusiveInv, NoNewWork
<1>. QED
  BY <1>2, <1>3, <1>4, <1>5, <1>6, <1>7, <1>8, <1>9, <1>0, JobWriters DEF JobsWritten

\* While heartbeats of consumers at work go out (_heartbeat_loop), no job is
\* ever worked on by two consumers, whatever is killed, fails or is restarted:
\* the premise on which succeed, fail and cancel address a job by its id alone.
THEOREM Exclusive ==
    ASSUME "silence" \notin Faults
    PROVE  Spec => []ExclusiveJob
<1>1. Init => ExclusiveInv
  BY DEF Init, StoreInit, ExclusiveInv, Working, HoldsJob
<1>2. TypeInv /\ ExclusiveInv /\ [Next]_vars => ExclusiveInv'
  BY NextExclusive
<1>3. ExclusiveInv => ExclusiveJob
  BY DEF ExclusiveInv, ExclusiveJob, Owned
<1>. QED BY <1>1, <1>2, <1>3, SpecTypeInv, PTL DEF Spec
=============================================================================
