---------------------------- MODULE CleanupProofs ----------------------------
(* What a deletion leaves behind: theorems about ReplaySystem for every number *)
(* of consumers, requests and frames and every retention, with consumer tasks  *)
(* that die and heartbeats that fall silent.  A step that raises, or a process *)
(* that is killed, between a write and the check that follows it leaves what   *)
(* it wrote: the theorems name those faults among their assumptions, but for   *)
(* the last one, which admits every fault and has one consumer.                *)
(*                                                                             *)
(* A sweep removes what is there, and whoever writes behind its back looks at  *)
(* the row after writing.  So an object that is found after the sweep always   *)
(* has a writer that is still responsible for it.                              *)
EXTENDS StatusProofs

-----------------------------------------------------------------------------
(* The inductive invariant *)

Tombstone == row.status \in {"deleted", "purged"}

\* The sweep of the storage is over, and that of the artifact rows.
Swept == Tombstone \/ \E w \in Workers : pc[w] \in {"all_rows", "all_scrub"}
Cleared == Tombstone \/ \E w \in Workers : pc[w] = "all_scrub"

\* The steps after an upload, before which its object is not yet answered for.
VideoSwept ==
    Swept /\ "normalized" \in objects =>
        \E w \in Workers : pc[w] = "normalized_recheck"
FramesSwept ==
    Swept => \A f \in frames : \E w \in Workers : pc[w] = "frame_recheck" /\ frame[w] = f
RowWritingStep == {"frame_done", "sweep", "sweep_rows"}
RowsSwept ==
    Cleared /\ artifacts # {} => \E w \in Workers : pc[w] \in RowWritingStep

\* Retention removes a row when no pipeline is left that has read it.
PastLoad == ProcessStep \ {"load"}
Lapsed == row.status = "purged" \/ (row.status = "deleted" /\ row.tombstone = 0)
LapsedAlone == Lapsed => \A w \in Workers : pc[w] \notin PastLoad

DerivedInv == VideoSwept /\ FramesSwept /\ RowsSwept /\ LapsedAlone

\* Uploads to the local store: the handler of the content route stays
\* responsible for the source until the row is marked.
PutOpen == {"put_mark", "put_commit", "put_cleanup"}
SourceSwept == Swept /\ "source" \in objects => \E r \in Requests : rq[r] \in PutOpen
RemoteStep ==
    {"client_upload", "promote_head", "promote_valid", "promote_big", "drop_valid", "drop_big"}
NoRemote == "tmp" \notin objects /\ \A r \in Requests : rq[r] \notin RemoteStep
LocalInv == SourceSwept /\ NoRemote

-----------------------------------------------------------------------------
(* The row: who makes a tombstone, and when one lapses *)

\* A replay becomes a tombstone by a scrub only, and stays one.
LEMMA TombstoneSteps ==
    ASSUME RowTypeOK, JobsNeedRow, [Next]_vars
    PROVE  Tombstone' => Tombstone \/ \E w \in Workers : AllScrub(w)
<1>. USE DEF Tombstone, RowTypeOK, Row, MayWrite, Write, ProcessingStatus
<1>1. CASE row' = row
  BY <1>1
<1>2. ASSUME NEW r \in Requests, RequestWritesRow(r), row' # row
      PROVE  Tombstone' => Tombstone
  <2>1. CASE CreateReplay(r)
    BY <2>1 DEF CreateReplay, Insert, UnbornRow
  <2>2. CASE PutCommit(r) \/ CompleteMark(r)
    BY <1>2, <2>2 DEF PutCommit, CompleteMark
  <2>3. CASE CompleteQueue(r) \/ RetryQueue(r) \/ DeleteMark(r)
    BY <1>2, <2>3 DEF CompleteQueue, RetryQueue, DeleteMark
  <2>. QED BY <1>2, <2>1, <2>2, <2>3 DEF RequestWritesRow
<1>3. ASSUME NEW w \in Workers, WorkerWritesRow(w), ~AllScrub(w), row' # row
      PROVE  Tombstone' => Tombstone
  <2>1. CASE StoreHash(w) \/ Probe(w) \/ Normalize(w) \/ Extract(w) \/ Ready(w)
    BY <1>3, <2>1 DEF StoreHash, Probe, Normalize, Extract, Ready, Transition
  <2>2. CASE Progress(w) \/ FrameDone(w) \/ AllMark(w)
    BY <1>3, <2>2 DEF Progress, FrameDone, AllMark
  <2>3. CASE MarkFailed(w) \/ SourceClear(w)
    BY <1>3, <2>3 DEF MarkFailed, SourceClear
  <2>4. CASE StartWorker(w)
    BY <1>3, <2>4 DEF StartWorker, RecoverStale, SyncedRow
  <2>. QED BY <1>3, <2>1, <2>2, <2>3, <2>4 DEF WorkerWritesRow
<1>4. CASE PurgeTombstone
  BY <1>4 DEF PurgeTombstone, TombstoneDue
<1>5. CASE AdvanceClock
  BY <1>5 DEF AdvanceClock, Tick
<1>. QED BY <1>1, <1>2, <1>3, <1>4, <1>5, RowWriters DEF RowWritten

\* A tombstone lapses by the clock, which waits for whatever still runs.
LEMMA LapsedSteps ==
    ASSUME RowTypeOK, JobsNeedRow, [Next]_vars, Lapsed'
    PROVE  Lapsed \/ (AdvanceClock /\ NothingRuns)
<1>. USE DEF Lapsed, RowTypeOK, Row, MayWrite, Write, ProcessingStatus
<1>1. CASE row' = row
  BY <1>1
<1>2. ASSUME NEW r \in Requests, RequestWritesRow(r), row' # row
      PROVE  Lapsed
  <2>1. CASE CreateReplay(r)
    BY <2>1 DEF CreateReplay, Insert, UnbornRow
  <2>2. CASE PutCommit(r) \/ CompleteMark(r)
    BY <1>2, <2>2 DEF PutCommit, CompleteMark
  <2>3. CASE CompleteQueue(r) \/ RetryQueue(r) \/ DeleteMark(r)
    BY <1>2, <2>3 DEF CompleteQueue, RetryQueue, DeleteMark
  <2>. QED BY <1>2, <2>1, <2>2, <2>3 DEF RequestWritesRow
<1>3. ASSUME NEW w \in Workers, WorkerWritesRow(w), row' # row
      PROVE  Lapsed
  <2>1. CASE StoreHash(w) \/ Probe(w) \/ Normalize(w) \/ Extract(w) \/ Ready(w)
    BY <1>3, <2>1 DEF StoreHash, Probe, Normalize, Extract, Ready, Transition
  <2>2. CASE Progress(w) \/ FrameDone(w) \/ AllMark(w)
    BY <1>3, <2>2 DEF Progress, FrameDone, AllMark
  <2>3. CASE MarkFailed(w) \/ SourceClear(w)
    BY <1>3, <2>3 DEF MarkFailed, SourceClear
  <2>4. CASE StartWorker(w)
    BY <1>3, <2>4 DEF StartWorker, RecoverStale, SyncedRow
  <2>5. CASE AllScrub(w)
    BY <1>3, <2>5, DeadlinesAssumption DEF AllScrub, ScrubDeleted, Scrubbed
  <2>. QED BY <1>3, <2>1, <2>2, <2>3, <2>4, <2>5 DEF WorkerWritesRow
<1>4. CASE PurgeTombstone
  BY <1>4 DEF PurgeTombstone, TombstoneDue, Due
<1>5. CASE AdvanceClock /\ ~Lapsed
  <2>1. row'.status = "deleted" /\ row.status = "deleted" /\ Sooner(row.tombstone) = 0
    BY <1>5 DEF AdvanceClock, Tick
  <2>2. row.tombstone \in Upto(TombstoneRetention) /\ row.tombstone # 0
    BY <1>5, <2>1
  <2>3. row.tombstone = 1
    BY <2>1, <2>2, DeadlinesAssumption DEF Sooner, Upto
  <2>. QED BY <1>5, <2>3 DEF AdvanceClock
<1>. QED BY <1>1, <1>2, <1>3, <1>4, <1>5, RowWriters DEF RowWritten

-----------------------------------------------------------------------------
(* Derived data: what each consumer answers for *)

\* A step of consumer w leaves behind what was there, without what it has
\* answered for, and at most one new object, which it is still to answer for.
Accounted(w) ==
    /\ "normalized" \in objects' =>
         \/ "normalized" \in objects /\ pc[w] # "normalized_recheck"
         \/ pc'[w] = "normalized_recheck"
    /\ \A f \in frames' :
         \/ f \in frames /\ ~(pc[w] = "frame_recheck" /\ frame[w] = f)
         \/ pc'[w] = "frame_recheck" /\ frame'[w] = f
    /\ artifacts' # {} =>
         \/ artifacts # {} /\ pc[w] \notin RowWritingStep
         \/ pc'[w] \in RowWritingStep

\* Steps that may be taken where no step raises and no process is killed.
Calm(w) == RunConsumer(w) \/ ReportProgress(w) \/ KillConsumer(w)

\* Without those faults a consumer that runs takes no other step.
LEMMA CalmSteps ==
    ASSUME "error" \notin Faults, "crash" \notin Faults, NoneDown,
           NEW w \in Workers, ConsumerStep(w)
    PROVE  Calm(w)
BY DEF ConsumerStep, Calm, FailStep, CrashWorker, Fault, StartWorker, Doing, NoneDown

\* A consumer of a replay in deletion answers for every object and row it
\* writes: it looks at the replay after the write and takes it back.
LEMMA CalmAccounted ==
    ASSUME NEW w \in Workers, TypeInv, Calm(w), Gone,
           pc[w] \in PastLoad => Deleting
    PROVE  Accounted(w)
<1>. USE DEF Doing, Step, Raise, RaiseProcess, KeepMedia
<1>0. /\ pc \in [Workers -> BusyStep \cup {"idle", "dead", "down"}]
      /\ frame \in [Workers -> 1..NumFrames + 1]
  BY DEF TypeInv, PlaceOK, ProcessorTypeOK
<1>a. ASSUME UNCHANGED <<objects, frames, artifacts>>,
             pc[w] \notin {"normalized_recheck", "frame_recheck"} \cup RowWritingStep
      PROVE  Accounted(w)
  BY <1>a DEF Accounted
<1>1. CASE ClaimJob(w) \/ Load(w) \/ Download(w) \/ ReportProgress(w) \/ KillConsumer(w)
  BY <1>1, <1>a DEF ClaimJob, Load, Download, ReportProgress, Progress, KillConsumer,
     Settling, mediaVars, RowWritingStep
<1>2. CASE StoreHash(w) \/ Probe(w) \/ Normalize(w) \/ Extract(w) \/ Ready(w)
  BY <1>2, <1>a DEF StoreHash, Probe, Normalize, Extract, Ready, Transition, RowWritingStep
<1>3. CASE NormalizedCheck(w) \/ FrameCheck(w) \/ FrameReuse(w)
  <2>1. CASE NormalizedCheck(w) \/ FrameCheck(w)
    BY <1>a, <2>1 DEF NormalizedCheck, FrameCheck, Check, RowWritingStep
  <2>2. CASE FrameReuse(w)
    BY <1>a, <2>2 DEF FrameReuse, RowWritingStep
  <2>. QED BY <1>3, <2>1, <2>2
<1>4. CASE NormalizedUpload(w)
  BY <1>0, <1>4 DEF NormalizedUpload, Accounted, RowWritingStep
<1>5. CASE NormalizedRecheck(w)
  <2>1. Deleting
    BY <1>5 DEF NormalizedRecheck, PastLoad, ProcessStep
  <2>. QED
    BY <1>0, <1>5, <2>1 DEF NormalizedRecheck, DeleteObjects, Accounted, RowWritingStep
<1>6. CASE FrameUpload(w)
  BY <1>0, <1>6 DEF FrameUpload, Accounted, RowWritingStep
<1>7. CASE FrameRecheck(w)
  <2>1. Deleting
    BY <1>7 DEF FrameRecheck, PastLoad, ProcessStep
  <2>. QED
    BY <1>0, <1>7, <2>1 DEF FrameRecheck, Accounted, RowWritingStep
<1>8. CASE FrameUpsert(w)
  <2>1. RowExists
    BY <1>8 DEF FrameUpsert, PastLoad, ProcessStep, Deleting, RowExists, ReplayStatus
  <2>. QED
    BY <1>0, <1>8, <2>1 DEF FrameUpsert, Accounted, RowWritingStep
<1>9. CASE FrameDone(w)
  <2>1. Deleting /\ ~MayWrite(w, {"extracting"})
    BY <1>9 DEF FrameDone, PastLoad, ProcessStep, Deleting, DeletionStatus, MayWrite
  <2>. QED
    BY <1>0, <1>9, <2>1 DEF FrameDone, Accounted, RowWritingStep
<1>10. CASE SettleProceeds(w)
  <2>1. CASE SettleJob(w) \/ FailProcess(w) \/ ReadFailed(w) \/ MarkFailed(w)
               \/ FailJob(w) \/ CancelJob(w)
    BY <1>a, <2>1 DEF SettleJob, FailProcess, ReadFailed, MarkFailed, FailJob, CancelJob,
       RowWritingStep
  <2>2. CASE Sweep(w)
    BY <1>0, <2>2 DEF Sweep, DeleteObjects, Accounted, RowWritingStep
  <2>3. CASE SweepRows(w)
    BY <1>0, <2>3 DEF SweepRows, Accounted, RowWritingStep
  <2>. QED BY <1>10, <2>1, <2>2, <2>3 DEF SettleProceeds
<1>11. CASE DeletionProceeds(w)
  <2>1. CASE SourceRead(w) \/ SourceClear(w) \/ AllRead(w) \/ AllMark(w) \/ AllScrub(w)
    BY <1>a, <2>1 DEF SourceRead, SourceClear, AllRead, AllMark, AllScrub, RowWritingStep
  <2>2. CASE SourceDelete(w) \/ AllSweep(w) \/ AllRows(w)
    BY <2>2 DEF SourceDelete, AllSweep, AllRows, DeleteObjects, Accounted, RowWritingStep
  <2>. QED BY <1>11, <2>1, <2>2 DEF DeletionProceeds
<1>. QED
  BY <1>1, <1>2, <1>3, <1>4, <1>5, <1>6, <1>7, <1>8, <1>9, <1>10, <1>11
     DEF Calm, RunConsumer, WorkerProceeds, ProcessProceeds

\* Nobody but the consumers writes derived data.
Shrinks ==
    /\ "normalized" \in objects' => "normalized" \in objects
    /\ frames' \subseteq frames /\ artifacts' \subseteq artifacts

\* A request writes none.
LEMMA RequestShrinks ==
    ASSUME NEW r, RequestStarts(r) \/ RequestProceeds(r) \/ Abandon(r) \/ PutError(r)
    PROVE  Shrinks
<1>. USE DEF Shrinks, storeVars, mediaVars, rowVars, PutObject, DeleteObjects
<1>1. CASE RequestStarts(r)
  BY <1>1 DEF RequestStarts, CreateReplay, PutStart, ClientUploadStart,
     CompleteStart, RetryStart, DeleteStart
<1>2. CASE PutWrite(r) \/ PutMark(r) \/ PutCommit(r) \/ PutCleanup(r) \/ ClientUpload(r)
  BY <1>2 DEF PutWrite, PutMark, PutCommit, PutCleanup, ClientUpload
<1>3. CASE CompleteStat(r) \/ PromoteHead(r) \/ PromoteCopy(r) \/ PromoteDrop(r) \/ CompleteReject(r)
             \/ CompleteMark(r) \/ CompleteQueue(r)
  BY <1>3 DEF CompleteStat, PromoteHead, PromoteCopy, PromoteDrop, CompleteReject, CompleteMark,
     CompleteQueue, Stat, Copy
<1>4. CASE RetryStat(r) \/ RetryQueue(r) \/ DeleteMark(r) \/ DeleteEnqueue(r)
             \/ Abandon(r) \/ PutError(r)
  BY <1>4 DEF RetryStat, RetryQueue, DeleteMark, DeleteEnqueue, Abandon, PutError
<1>. QED
  BY <1>1, <1>2, <1>3, <1>4 DEF RequestProceeds

\* Nor does any other step that is not of a consumer.
LEMMA OthersShrink ==
    ASSUME [Next]_vars, \A w \in Workers : ~ConsumerStep(w)
    PROVE  Shrinks
<1>1. CASE UNCHANGED vars
  BY <1>1 DEF vars, storeVars, Shrinks
<1>2. ASSUME NEW r \in Requests, BeginRequest(r) \/ ServeRequest(r) \/ FailRequest(r)
      PROVE  Shrinks
  BY <1>2, RequestShrinks DEF BeginRequest, ServeRequest, FailRequest
<1>3. ASSUME NEW w \in Workers, SendHeartbeat(w)
      PROVE  Shrinks
  BY <1>3 DEF SendHeartbeat, Heartbeat, KeepMedia, Shrinks
<1>4. ASSUME NEW j \in JobIds, EndRetryDelay(j) \/ ExpireAbandoned(j) \/ SilenceHeartbeat(j)
      PROVE  Shrinks
  BY <1>4 DEF EndRetryDelay, BecomesAvailable, ExpireAbandoned, SilenceHeartbeat,
     HeartbeatExpires, mediaVars, Shrinks
<1>5. CASE RunRetention \/ AdvanceClock
  BY <1>5 DEF RunRetention, EnqueueDueRetention, QueueRetention, PurgeTombstone,
     AdvanceClock, Tick, Shrinks
<1>. QED
  BY <1>1, <1>2, <1>3, <1>4, <1>5 DEF Next, ConsumerStep

\* The steps that begin a phase: the sweeps come one after the other, and no
\* pipeline starts on a replay in deletion.
LEMMA PhaseBegins ==
    ASSUME NEW w \in Workers, TypeInv, Calm(w)
    PROVE  /\ pc'[w] = "all_rows" => AllSweep(w)
           /\ pc'[w] = "all_scrub" => AllRows(w)
           /\ pc'[w] \in PastLoad => pc[w] \in PastLoad \/ ~Gone
<1>. DEFINE Goal == /\ pc'[w] = "all_rows" => AllSweep(w)
                    /\ pc'[w] = "all_scrub" => AllRows(w)
                    /\ pc'[w] \in PastLoad => pc[w] \in PastLoad \/ ~Gone
<1>. USE DEF Doing, Step, Raise, RaiseProcess
<1>0. pc \in [Workers -> BusyStep \cup {"idle", "dead", "down"}]
  BY DEF TypeInv, PlaceOK, ProcessorTypeOK
<1>a. ASSUME NEW state \in {"idle", "dead", "down"}, Release(w, state) PROVE Goal
  BY <1>0, <1>a DEF Release, PastLoad, ProcessStep
<1>b. ASSUME pc[w] \in PastLoad, pc'[w] \in PastLoad \cup {"sweep", "fail_process", "succeed"}
      PROVE  Goal
  BY <1>b DEF PastLoad, ProcessStep
<1>1. CASE ClaimJob(w)
  <2>1. PICK j \in JobIds : pc'[w] = FirstStep(jobs[j].kind)
    BY <1>0, <1>1 DEF ClaimJob
  <2>2. jobs[j].kind \in JobKind
    BY DEF TypeInv, JobsOK, Job
  <2>. QED BY <2>1, <2>2 DEF FirstStep, JobKind, PastLoad, ProcessStep
<1>2. CASE Load(w)
  <2>1. ~Gone \/ pc'[w] \in {"sweep", "fail_process"}
    BY <1>0, <1>2 DEF Load, Gone, Deleting, DeletionStatus, RowExists, ReplayStatus,
       ProcessingStatus
  <2>2. pc'[w] \in {"sweep", "fail_process", "download"}
    BY <1>0, <1>2 DEF Load
  <2>. QED BY <2>1, <2>2 DEF PastLoad, ProcessStep
<1>3. CASE Download(w) \/ StoreHash(w) \/ Probe(w) \/ ReportProgress(w) \/ Normalize(w)
  BY <1>0, <1>3, <1>b DEF Download, StoreHash, Probe, ReportProgress, Progress, Normalize,
     Transition, workerVars, PastLoad, ProcessStep
<1>4. CASE NormalizedCheck(w) \/ NormalizedUpload(w) \/ NormalizedRecheck(w)
  BY <1>0, <1>4, <1>b DEF NormalizedCheck, NormalizedUpload, NormalizedRecheck, Check,
     PastLoad, ProcessStep
<1>5. CASE Extract(w) \/ Ready(w) \/ FrameDone(w)
  BY <1>0, <1>5, <1>b DEF Extract, Ready, FrameDone, Transition, PastLoad, ProcessStep
<1>6. CASE FrameCheck(w) \/ FrameReuse(w) \/ FrameUpload(w) \/ FrameRecheck(w) \/ FrameUpsert(w)
  BY <1>0, <1>6, <1>b DEF FrameCheck, FrameReuse, FrameUpload, FrameRecheck, FrameUpsert,
     Check, PastLoad, ProcessStep
<1>7. CASE SettleProceeds(w) \/ KillConsumer(w)
  <2>1. CASE SettleJob(w) \/ CancelJob(w) \/ FailJob(w) \/ KillConsumer(w)
    BY <1>a, <2>1 DEF SettleJob, CancelJob, FailJob, KillConsumer, Finish, Lose, Die
  <2>2. CASE FailProcess(w) \/ ReadFailed(w) \/ MarkFailed(w)
    BY <1>0, <1>a, <2>2 DEF FailProcess, ReadFailed, MarkFailed, Finish, FinishWriting, Lose,
       Die, PastLoad, ProcessStep
  <2>3. CASE Sweep(w) \/ SweepRows(w)
    BY <1>0, <2>3 DEF Sweep, SweepRows, PastLoad, ProcessStep
  <2>. QED BY <1>7, <2>1, <2>2, <2>3 DEF SettleProceeds
<1>8. CASE DeletionProceeds(w)
  <2>1. CASE SourceRead(w) \/ SourceDelete(w) \/ SourceClear(w)
    BY <1>0, <2>1 DEF SourceRead, SourceDelete, SourceClear, PastLoad, ProcessStep
  <2>2. CASE AllRead(w) \/ AllMark(w) \/ AllSweep(w) \/ AllRows(w) \/ AllScrub(w)
    BY <1>0, <2>2 DEF AllRead, AllMark, AllSweep, AllRows, AllScrub, PastLoad, ProcessStep
  <2>. QED BY <1>8, <2>1, <2>2 DEF DeletionProceeds
<1>. QED
  BY <1>1, <1>2, <1>3, <1>4, <1>5, <1>6, <1>7, <1>8
     DEF Calm, RunConsumer, WorkerProceeds, ProcessProceeds

-----------------------------------------------------------------------------
(* The invariant is inductive *)

\* The replay is in deletion when it has been swept, and has its row still
\* while a pipeline runs.
LEMMA SweptIsDeleting ==
    ASSUME RowTypeOK, SweptIsGone, LapsedAlone, Swept
    PROVE  Gone /\ \A w \in Workers : pc[w] \in PastLoad => Deleting
<1>1. Gone
  BY DEF Swept, Tombstone, SweptIsGone, SweepStep, Gone
<1>. QED BY <1>1 DEF Gone, Lapsed, LapsedAlone, Deleting, DeletionStatus

\* A replay that has been swept now was so before, or is by this step.
LEMMA SweepSteps ==
    ASSUME "error" \notin Faults, "crash" \notin Faults,
           TypeInv, ReadyInv, NoneDown, [Next]_vars
    PROVE  /\ Swept' => Swept \/ \E w \in Workers : AllSweep(w)
           /\ Cleared' => Cleared \/ \E w \in Workers : AllRows(w)
<1>0. RowTypeOK /\ PlaceOK /\ JobsNeedRow
  BY DEF TypeInv, TypeOK, StoreTypeOK, RowTypeOK, ReadyInv
<1>a. ASSUME NEW w \in Workers, ConsumerStep(w)
      PROVE  Calm(w) /\ Alone(w)
  BY <1>0, <1>a, CalmSteps, ConsumerAlone
<1>b. ASSUME NEW v \in Workers, pc'[v] # pc[v]
      PROVE  ConsumerStep(v)
  BY <1>a, <1>b, ConsumerSteps DEF Alone
<1>1. Swept' => Swept \/ \E w \in Workers : AllSweep(w)
  <2>1. ASSUME NEW w \in Workers, pc'[w] \in {"all_rows", "all_scrub"}
        PROVE  Swept \/ AllSweep(w)
    <3>1. CASE pc'[w] = pc[w]
      BY <2>1, <3>1 DEF Swept
    <3>2. CASE ConsumerStep(w)
      BY <1>a, <2>1, <3>2, PhaseBegins DEF AllRows, Doing, Swept
    <3>. QED BY <1>b, <3>1, <3>2
  <2>2. Tombstone' => Swept
    BY <1>0, TombstoneSteps DEF Swept, AllScrub, Doing
  <2>. QED BY <2>1, <2>2 DEF Swept
<1>2. Cleared' => Cleared \/ \E w \in Workers : AllRows(w)
  <2>1. ASSUME NEW w \in Workers, pc'[w] = "all_scrub"
        PROVE  Cleared \/ AllRows(w)
    <3>1. CASE pc'[w] = pc[w]
      BY <2>1, <3>1 DEF Cleared
    <3>2. CASE ConsumerStep(w)
      BY <1>a, <2>1, <3>2, PhaseBegins
    <3>. QED BY <1>b, <3>1, <3>2
  <2>2. Tombstone' => Cleared
    BY <1>0, TombstoneSteps DEF Cleared, AllScrub, Doing
  <2>. QED BY <2>1, <2>2 DEF Cleared
<1>. QED BY <1>1, <1>2

\* Where no step raises and no process is killed, every step preserves it.
LEMMA NextDerived ==
    ASSUME "error" \notin Faults, "crash" \notin Faults,
           TypeInv, ReadyInv, NoneDown, DerivedInv, [Next]_vars
    PROVE  DerivedInv'
<1>0. /\ RowTypeOK /\ PlaceOK /\ JobsNeedRow /\ SweptIsGone
      /\ VideoSwept /\ FramesSwept /\ RowsSwept /\ LapsedAlone
      /\ pc \in [Workers -> BusyStep \cup {"idle", "dead", "down"}]
  BY DEF TypeInv, TypeOK, StoreTypeOK, RowTypeOK, ReadyInv, PlaceOK, ProcessorTypeOK,
     DerivedInv
<1>a. ASSUME NEW w \in Workers, ConsumerStep(w)
      PROVE  Calm(w) /\ Alone(w)
  BY <1>0, <1>a, CalmSteps, ConsumerAlone
<1>b. ASSUME NEW v \in Workers, pc'[v] # pc[v]
      PROVE  ConsumerStep(v)
  BY <1>a, <1>b, ConsumerSteps DEF Alone
<1>1. Swept' => Swept \/ \E w \in Workers : AllSweep(w)
  BY SweepSteps
<1>2. Cleared' => Cleared \/ \E w \in Workers : AllRows(w)
  BY SweepSteps
<1>3. Cleared => Swept
  BY DEF Cleared, Swept
<1>4. ASSUME NEW w \in Workers, ConsumerStep(w), Swept PROVE Accounted(w)
  BY <1>0, <1>a, <1>4, SweptIsDeleting, CalmAccounted
<1>5. VideoSwept'
  <2>. SUFFICES ASSUME Swept', "normalized" \in objects'
                PROVE  \E v \in Workers : pc'[v] = "normalized_recheck"
    BY DEF VideoSwept
  <2>1. \A w \in Workers : ~AllSweep(w)
    BY DEF AllSweep, DeleteObjects, Objects
  <2>2. Swept
    BY <1>1, <2>1
  <2>3. CASE \A w \in Workers : ~ConsumerStep(w)
    BY <1>0, <1>b, <2>2, <2>3, OthersShrink DEF VideoSwept, Shrinks
  <2>4. ASSUME NEW w \in Workers, ConsumerStep(w)
        PROVE  \E v \in Workers : pc'[v] = "normalized_recheck"
    BY <1>0, <1>4, <1>a, <2>2, <2>4 DEF VideoSwept, Accounted, Alone
  <2>. QED BY <2>3, <2>4
<1>6. FramesSwept'
  <2>. SUFFICES ASSUME Swept', NEW f \in frames'
                PROVE  \E v \in Workers : pc'[v] = "frame_recheck" /\ frame'[v] = f
    BY DEF FramesSwept
  <2>1. \A w \in Workers : ~AllSweep(w)
    BY DEF AllSweep
  <2>2. Swept
    BY <1>1, <2>1
  <2>3. CASE \A w \in Workers : ~ConsumerStep(w)
    <3>1. UNCHANGED <<pc, frame>> /\ f \in frames
      BY <2>3, ConsumerSteps, OthersShrink DEF Shrinks
    <3>. QED BY <1>0, <2>2, <3>1 DEF FramesSwept
  <2>4. ASSUME NEW w \in Workers, ConsumerStep(w)
        PROVE  \E v \in Workers : pc'[v] = "frame_recheck" /\ frame'[v] = f
    BY <1>0, <1>4, <1>a, <2>2, <2>4 DEF FramesSwept, Accounted, Alone
  <2>. QED BY <2>3, <2>4
<1>7. RowsSwept'
  <2>. SUFFICES ASSUME Cleared', artifacts' # {}
                PROVE  \E v \in Workers : pc'[v] \in RowWritingStep
    BY DEF RowsSwept
  <2>1. \A w \in Workers : ~AllRows(w)
    BY DEF AllRows
  <2>2. Cleared /\ Swept
    BY <1>2, <1>3, <2>1
  <2>3. CASE \A w \in Workers : ~ConsumerStep(w)
    BY <1>0, <1>b, <2>2, <2>3, OthersShrink DEF RowsSwept, Shrinks
  <2>4. ASSUME NEW w \in Workers, ConsumerStep(w)
        PROVE  \E v \in Workers : pc'[v] \in RowWritingStep
    BY <1>0, <1>4, <1>a, <2>2, <2>4 DEF RowsSwept, Accounted, Alone
  <2>. QED BY <2>3, <2>4
<1>8. LapsedAlone'
  <2>. SUFFICES ASSUME Lapsed', NEW v \in Workers, pc'[v] \in PastLoad PROVE FALSE
    BY DEF LapsedAlone
  <2>1. CASE AdvanceClock /\ NothingRuns
    <3>1. pc'[v] = pc[v] /\ ~HoldsJob(v)
      BY <2>1 DEF AdvanceClock, workerVars, NothingRuns
    <3>. QED
      BY <3>1, ProcessesAssumption, <1>0 DEF HoldsJob, PlaceOK, Busy, BusyStep, PastLoad
  <2>2. CASE Lapsed
    <3>1. Gone /\ pc[v] \notin PastLoad
      BY <1>0, <2>2 DEF Lapsed, LapsedAlone, Gone
    <3>2. ConsumerStep(v)
      BY <1>b, <3>1
    <3>. QED BY <1>a, <3>1, <3>2, PhaseBegins
  <2>. QED BY <1>0, <2>1, <2>2, LapsedSteps
<1>. QED BY <1>5, <1>6, <1>7, <1>8 DEF DerivedInv

-----------------------------------------------------------------------------
(* The uploaded source, on the local store *)

\* What is found under the source key was there, or is answered for by the
\* handler that wrote it; no handler gives up one that is there.
SourceAccounted(r) ==
    /\ "source" \in objects' =>
         \/ "source" \in objects /\ rq[r] \notin PutOpen
         \/ rq'[r] \in PutOpen
    /\ "tmp" \in objects' => "tmp" \in objects
    /\ rq'[r] \notin RemoteStep

\* The other requests stand where they stood.
RequestAlone(r) == \A q \in Requests \ {r} : rq'[q] = rq[q]

\* A step of a request moves no other request.
LEMMA RequestsApart ==
    ASSUME NEW r \in Requests, ServiceTypeOK, RequestStarts(r) \/ RequestProceeds(r)
    PROVE  RequestAlone(r)
<1>. USE DEF RequestAlone, ServiceTypeOK, GoTo, Answer
<1>1. CASE RequestStarts(r)
  BY <1>1 DEF RequestStarts, CreateReplay, PutStart, ClientUploadStart,
     CompleteStart, RetryStart, DeleteStart
<1>2. CASE PutWrite(r) \/ PutMark(r) \/ PutCommit(r) \/ PutCleanup(r) \/ ClientUpload(r)
  BY <1>2 DEF PutWrite, PutMark, PutCommit, PutCleanup, ClientUpload
<1>3. CASE CompleteStat(r) \/ PromoteHead(r) \/ PromoteCopy(r) \/ PromoteDrop(r) \/ CompleteReject(r)
             \/ CompleteMark(r) \/ CompleteQueue(r)
  BY <1>3 DEF CompleteStat, PromoteHead, PromoteCopy, PromoteDrop, CompleteReject, CompleteMark,
     CompleteQueue, Stat, Copy
<1>4. CASE RetryStat(r) \/ RetryQueue(r) \/ DeleteMark(r) \/ DeleteEnqueue(r)
  BY <1>4 DEF RetryStat, RetryQueue, DeleteMark, DeleteEnqueue
<1>. QED
  BY <1>1, <1>2, <1>3, <1>4 DEF RequestProceeds

\* No request of a deployment with the local store talks to a remote one.
LEMMA RequestStaysLocal ==
    ASSUME NEW r \in Requests, ServiceTypeOK, Backend = "local", NoRemote,
           RequestStarts(r) \/ RequestProceeds(r)
    PROVE  rq'[r] \notin RemoteStep /\ ("tmp" \in objects' => "tmp" \in objects)
<1>. USE DEF ServiceTypeOK, GoTo, Answer, RemoteStep, NoRemote, At, PutObject, DeleteObjects
<1>1. CASE RequestStarts(r)
  BY <1>1 DEF RequestStarts, CreateReplay, PutStart, ClientUploadStart,
     CompleteStart, RetryStart, DeleteStart, Start, storeVars, mediaVars
<1>2. CASE PutWrite(r) \/ PutMark(r) \/ PutCommit(r) \/ PutCleanup(r) \/ ClientUpload(r)
  BY <1>2 DEF PutWrite, PutMark, PutCommit, PutCleanup, ClientUpload, mediaVars
<1>3. CASE CompleteStat(r) \/ PromoteHead(r) \/ PromoteCopy(r) \/ PromoteDrop(r) \/ CompleteReject(r)
             \/ CompleteMark(r) \/ CompleteQueue(r)
  BY <1>3 DEF CompleteStat, PromoteHead, PromoteCopy, PromoteDrop, CompleteReject, CompleteMark,
     CompleteQueue, Stat, mediaVars
<1>4. CASE RetryStat(r) \/ RetryQueue(r) \/ DeleteMark(r) \/ DeleteEnqueue(r)
  BY <1>4 DEF RetryStat, RetryQueue, DeleteMark, DeleteEnqueue, mediaVars
<1>. QED
  BY <1>1, <1>2, <1>3, <1>4 DEF RequestProceeds

\* A handler that has written the source of a replay in deletion finds that it
\* may not mark the upload, and removes what it wrote.
LEMMA RequestAccounted ==
    ASSUME NEW r \in Requests, ServiceTypeOK, Backend = "local", NoRemote, Gone,
           RequestStarts(r) \/ RequestProceeds(r)
    PROVE  SourceAccounted(r)
<1>. USE DEF ServiceTypeOK, GoTo, Answer, PutOpen, At, PutObject, DeleteObjects,
             mediaVars, storeVars
<1>0. /\ rq'[r] \notin RemoteStep /\ ("tmp" \in objects' => "tmp" \in objects)
      /\ rq[r] \notin RemoteStep
  BY RequestStaysLocal DEF NoRemote
<1>1. CASE RequestStarts(r)
  BY <1>0, <1>1 DEF RequestStarts, CreateReplay, PutStart, ClientUploadStart,
     CompleteStart, RetryStart, DeleteStart, Start, SourceAccounted
<1>2. CASE PutWrite(r) \/ PutCleanup(r)
  BY <1>0, <1>2 DEF PutWrite, PutCleanup, SourceAccounted
<1>3. CASE PutMark(r) \/ PutCommit(r)
  <2>1. row.status \notin {"created", "uploaded"}
    BY DEF Gone
  <2>. QED
    BY <1>0, <1>3, <2>1 DEF PutMark, PutCommit, MayWrite, SourceAccounted
<1>4. CASE ClientUpload(r) \/ PromoteCopy(r) \/ PromoteDrop(r) \/ PromoteHead(r)
  BY <1>0, <1>4 DEF ClientUpload, PromoteCopy, PromoteDrop, PromoteHead, RemoteStep
<1>5. CASE CompleteStat(r) \/ CompleteReject(r) \/ CompleteMark(r) \/ CompleteQueue(r)
  BY <1>0, <1>5 DEF CompleteStat, CompleteReject, CompleteMark, CompleteQueue, Stat,
     SourceAccounted
<1>6. CASE RetryStat(r) \/ RetryQueue(r) \/ DeleteMark(r) \/ DeleteEnqueue(r)
  BY <1>0, <1>6 DEF RetryStat, RetryQueue, DeleteMark, DeleteEnqueue, SourceAccounted
<1>. QED
  BY <1>1, <1>2, <1>3, <1>4, <1>5, <1>6 DEF RequestProceeds

\* Consumers, the clock and retention write no source.
LEMMA NoOtherSource ==
    ASSUME "error" \notin Faults, [Next]_vars,
           \A r \in Requests : ~BeginRequest(r) /\ ~ServeRequest(r)
    PROVE  /\ UNCHANGED rq
           /\ objects' \subseteq objects \cup {"normalized"}
<1>1. CASE UNCHANGED vars
  BY <1>1 DEF vars, storeVars
<1>2. ASSUME NEW r \in Requests PROVE ~FailRequest(r)
  BY DEF FailRequest, Fault
<1>3. ASSUME NEW w \in Workers,
             RunConsumer(w) \/ ReportProgress(w) \/ SendHeartbeat(w)
               \/ StartWorker(w) \/ FailStep(w) \/ CrashWorker(w) \/ KillConsumer(w)
      PROVE  UNCHANGED rq /\ objects' \subseteq objects \cup {"normalized"}
  <2>. USE DEF KeepMedia, mediaVars, PutObject, DeleteObjects
  <2>0. ~FailStep(w)
    BY DEF FailStep, Fault
  <2>1. CASE ReportProgress(w) \/ SendHeartbeat(w) \/ StartWorker(w) \/ CrashWorker(w)
               \/ KillConsumer(w)
    BY <2>1 DEF ReportProgress, Progress, SendHeartbeat, Heartbeat, StartWorker, CrashWorker,
       KillConsumer
  <2>2. CASE RunConsumer(w) /\ (ClaimJob(w) \/ ProcessProceeds(w))
    BY <2>2 DEF RunConsumer, ClaimJob, ProcessProceeds, Load, Download, StoreHash, Probe,
       Normalize, NormalizedCheck, NormalizedUpload, NormalizedRecheck, Extract, FrameCheck,
       FrameReuse, FrameUpload, FrameRecheck, FrameUpsert, FrameDone, Ready, Transition, Check
  <2>3. CASE RunConsumer(w) /\ (SettleProceeds(w) \/ DeletionProceeds(w))
    BY <2>3 DEF RunConsumer, SettleProceeds, SettleJob, FailProcess, ReadFailed, MarkFailed,
       FailJob, Sweep, SweepRows, CancelJob, DeletionProceeds, SourceRead, SourceDelete,
       SourceClear, AllRead, AllMark, AllSweep, AllRows, AllScrub
  <2>. QED BY <1>3, <2>0, <2>1, <2>2, <2>3 DEF RunConsumer, WorkerProceeds
<1>4. ASSUME NEW j \in JobIds, EndRetryDelay(j) \/ ExpireAbandoned(j) \/ SilenceHeartbeat(j)
      PROVE  UNCHANGED <<rq, objects>>
  BY <1>4 DEF EndRetryDelay, BecomesAvailable, ExpireAbandoned, SilenceHeartbeat,
     HeartbeatExpires, mediaVars
<1>5. CASE RunRetention \/ AdvanceClock
  BY <1>5 DEF RunRetention, EnqueueDueRetention, AdvanceClock, Tick
<1>. QED
  BY <1>1, <1>2, <1>3, <1>4, <1>5 DEF Next

\* Every step preserves what is said of the source.
LEMMA NextLocal ==
    ASSUME "error" \notin Faults, "crash" \notin Faults, Backend = "local",
           TypeInv, ReadyInv, NoneDown, DerivedInv, LocalInv, [Next]_vars
    PROVE  LocalInv'
<1>0. RowTypeOK /\ ServiceTypeOK /\ SweptIsGone /\ LapsedAlone /\ SourceSwept /\ NoRemote
  BY DEF TypeInv, TypeOK, StoreTypeOK, RowTypeOK, ReadyInv, DerivedInv, LocalInv
<1>1. CASE \A r \in Requests : ~BeginRequest(r) /\ ~ServeRequest(r)
  <2>1. UNCHANGED rq /\ objects' \subseteq objects \cup {"normalized"}
    BY <1>1, NoOtherSource
  <2>2. NoRemote'
    BY <1>0, <2>1 DEF NoRemote
  <2>3. SourceSwept'
    <3>. SUFFICES ASSUME Swept', "source" \in objects'
                  PROVE  \E r \in Requests : rq'[r] \in PutOpen
      BY DEF SourceSwept
    <3>1. \A w \in Workers : ~AllSweep(w)
      BY DEF AllSweep, DeleteObjects, Objects
    <3>. QED BY <1>0, <2>1, <3>1, SweepSteps DEF SourceSwept
  <2>. QED BY <2>2, <2>3 DEF LocalInv
<1>2. ASSUME NEW r \in Requests, BeginRequest(r) \/ ServeRequest(r)
      PROVE  LocalInv'
  <2>1. RequestStarts(r) \/ RequestProceeds(r)
    BY <1>2 DEF BeginRequest, ServeRequest
  <2>2. RequestAlone(r)
    BY <1>0, <2>1, RequestsApart
  <2>3. NoRemote'
    BY <1>0, <2>1, <2>2, RequestStaysLocal DEF NoRemote, RequestAlone
  <2>4. SourceSwept'
    <3>. SUFFICES ASSUME Swept', "source" \in objects'
                  PROVE  \E q \in Requests : rq'[q] \in PutOpen
      BY DEF SourceSwept
    <3>1. Swept
      <4>1. ASSUME NEW w \in Workers, AllSweep(w) PROVE FALSE
        BY <4>1 DEF AllSweep, DeleteObjects, Objects
      <4>. QED BY <4>1, SweepSteps
    <3>2. SourceAccounted(r)
      BY <1>0, <2>1, <3>1, SweptIsDeleting, RequestAccounted
    <3>. QED BY <1>0, <2>2, <3>1, <3>2 DEF SourceAccounted, SourceSwept, RequestAlone
  <2>. QED BY <2>3, <2>4 DEF LocalInv
<1>. QED BY <1>1, <1>2

-----------------------------------------------------------------------------
(* The theorems *)

\* Nothing that processing derives from an upload is left of a replay that was
\* deleted, once no consumer holds a job.
NoDerivedLeft ==
    Tombstone /\ (\A w \in Workers : ~HoldsJob(w)) =>
        "normalized" \notin objects /\ frames = {} /\ artifacts = {}


\* The inductive invariants hold at first.
LEMMA InitDerived == Init => ReadyInv /\ NoneDown /\ DerivedInv /\ LocalInv
<1>1. Init => NoneDown
  BY DEF Init, ProcessorInit, NoneDown
<1>2. Init => ~Swept /\ ~Cleared /\ ~Lapsed
  BY DEF Init, StoreInit, UnbornRow, ProcessorInit, Swept, Cleared, Lapsed, Tombstone
<1>3. Init => NoRemote
  BY DEF Init, StoreInit, ServiceInit, NoRemote, RemoteStep
<1>. QED
  BY <1>1, <1>2, <1>3, InitReady DEF DerivedInv, VideoSwept, FramesSwept, RowsSwept,
     LapsedAlone, LocalInv, SourceSwept

\* A consumer that answers for something holds a job.
LEMMA DerivedLeft ==
    ASSUME TypeInv, DerivedInv
    PROVE  NoDerivedLeft
<1>. SUFFICES ASSUME Tombstone, \A w \in Workers : ~HoldsJob(w)
              PROVE  "normalized" \notin objects /\ frames = {} /\ artifacts = {}
  BY DEF NoDerivedLeft
<1>1. \A w \in Workers : pc[w] \notin BusyStep
  BY ProcessesAssumption DEF TypeInv, PlaceOK, Busy, HoldsJob
<1>2. Swept /\ Cleared
  BY DEF Swept, Cleared
<1>. QED
  BY <1>1, <1>2 DEF DerivedInv, VideoSwept, FramesSwept, RowsSwept, RowWritingStep,
     BusyStep, ProcessStep, SettleStep

\* Where no step raises and no process is killed, a deletion leaves nothing that
\* a pipeline derived, wherever pipelines and how many of them ran beside it, on
\* either storage backend (_upload_if_not_deleting, _sweep_cancelled_derived,
\* delete_all).
THEOREM DerivedIsSwept ==
    ASSUME "error" \notin Faults, "crash" \notin Faults
    PROVE  Spec => []NoDerivedLeft
<1>1. TypeInv /\ TypeInv' /\ ReadyInv /\ [Next]_vars => ReadyInv'
  BY NextReady
<1>2. TypeInv /\ NoneDown /\ [Next]_vars => NoneDown'
  BY StaysUp
<1>3. TypeInv /\ ReadyInv /\ NoneDown /\ DerivedInv /\ [Next]_vars => DerivedInv'
  BY NextDerived
<1>4. TypeInv /\ DerivedInv => NoDerivedLeft
  BY DerivedLeft
<1>. QED BY <1>1, <1>2, <1>3, <1>4, InitDerived, SpecTypeInv, PTL DEF Spec

\* On the local store nothing is left at all once the requests are answered
\* too: a body that arrives after the sweep is removed by its own handler (the
\* content route's cleanup).
THEOREM DeletionLeavesNothing ==
    ASSUME "error" \notin Faults, "crash" \notin Faults, Backend = "local"
    PROVE  Spec => []NothingLeft
<1>1. TypeInv /\ TypeInv' /\ ReadyInv /\ [Next]_vars => ReadyInv'
  BY NextReady
<1>2. TypeInv /\ NoneDown /\ [Next]_vars => NoneDown'
  BY StaysUp
<1>3. TypeInv /\ ReadyInv /\ NoneDown /\ DerivedInv /\ [Next]_vars => DerivedInv'
  BY NextDerived
<1>4. TypeInv /\ ReadyInv /\ NoneDown /\ DerivedInv /\ LocalInv /\ [Next]_vars => LocalInv'
  BY NextLocal
<1>5. TypeInv /\ DerivedInv /\ LocalInv => NothingLeft
  <2>. SUFFICES ASSUME TypeInv, DerivedInv, LocalInv, Tombstone, NothingRuns
                PROVE  objects = {} /\ frames = {} /\ artifacts = {}
    BY DEF NothingLeft, Quiet, Tombstone
  <2>1. "normalized" \notin objects /\ frames = {} /\ artifacts = {}
    BY DerivedLeft DEF NoDerivedLeft, NothingRuns
  <2>2. "source" \notin objects
    BY DEF LocalInv, SourceSwept, Swept, NothingRuns, At, PutOpen
  <2>3. "tmp" \notin objects /\ objects \subseteq Objects
    BY DEF LocalInv, NoRemote, TypeInv, TypeOK, StoreTypeOK
  <2>. QED BY <2>1, <2>2, <2>3 DEF Objects
<1>. QED BY <1>1, <1>2, <1>3, <1>4, <1>5, InitDerived, SpecTypeInv, PTL DEF Spec

-----------------------------------------------------------------------------
(* One consumer, whatever fails: nothing derived outlives the sweeps *)

SweptInv ==
    /\ Swept => "normalized" \notin objects /\ frames = {}
    /\ Cleared => artifacts = {}
    /\ Tombstone => \A w \in Workers : pc[w] \notin PastLoad

\* A step that raises, or the end of a process, begins no phase.
LEMMA AnyPhaseBegins ==
    ASSUME NEW w \in Workers, TypeInv, ConsumerStep(w)
    PROVE  /\ pc'[w] = "all_rows" => AllSweep(w)
           /\ pc'[w] = "all_scrub" => AllRows(w)
           /\ pc'[w] \in PastLoad => pc[w] \in PastLoad \/ ~Gone
<1>1. CASE Calm(w)
  BY <1>1, PhaseBegins
<1>2. CASE FailStep(w) \/ StartWorker(w) \/ CrashWorker(w)
  <2>1. pc \in [Workers -> BusyStep \cup {"idle", "dead", "down"}]
    BY DEF TypeInv, PlaceOK, ProcessorTypeOK
  <2>2. pc'[w] \in {"fail_process", "fail", "idle", "down"}
    BY <1>2, <2>1 DEF FailStep, PipelineError, DeletionError, SucceedError, StartWorker,
       CrashWorker, Raise, RaiseProcess, Step, Lose, Release
  <2>. QED BY <2>2 DEF PastLoad, ProcessStep
<1>. QED BY <1>1, <1>2 DEF ConsumerStep, Calm

\* Only a pipeline past its first step writes an object or an artifact row.
LEMMA OnlyPipelinesWrite ==
    ASSUME NEW w \in Workers, ConsumerStep(w), pc[w] \notin PastLoad
    PROVE  Shrinks
<1>. USE DEF Shrinks, KeepMedia, DeleteObjects
<1>1. CASE RunConsumer(w) \/ ReportProgress(w)
  <2>1. CASE ClaimJob(w) \/ Load(w)
    BY <2>1 DEF ClaimJob, Load
  <2>2. CASE SettleProceeds(w)
    BY <2>2 DEF SettleProceeds, SettleJob, FailProcess, ReadFailed, MarkFailed,
       FailJob, Sweep, SweepRows, CancelJob
  <2>3. CASE DeletionProceeds(w)
    BY <2>3 DEF DeletionProceeds, SourceRead, SourceDelete, SourceClear, AllRead,
       AllMark, AllSweep, AllRows, AllScrub
  <2>4. ~(Download(w) \/ StoreHash(w) \/ Probe(w) \/ ReportProgress(w) \/ Normalize(w)
            \/ NormalizedCheck(w) \/ NormalizedUpload(w) \/ NormalizedRecheck(w)
            \/ Extract(w))
    BY DEF Download, StoreHash, Probe, ReportProgress, Progress, Normalize, NormalizedCheck,
       NormalizedUpload, NormalizedRecheck, Extract, Doing, PastLoad, ProcessStep
  <2>5. ~(FrameCheck(w) \/ FrameReuse(w) \/ FrameUpload(w) \/ FrameRecheck(w)
            \/ FrameUpsert(w) \/ FrameDone(w) \/ Ready(w))
    BY DEF FrameCheck, FrameReuse, FrameUpload, FrameRecheck, FrameUpsert, FrameDone, Ready,
       Doing, PastLoad, ProcessStep
  <2>. QED
    BY <1>1, <2>1, <2>2, <2>3, <2>4, <2>5 DEF RunConsumer, WorkerProceeds, ProcessProceeds
<1>2. CASE FailStep(w)
  <2>1. CASE PipelineError(w) \/ SucceedError(w)
    BY <2>1 DEF PipelineError, SucceedError
  <2>2. CASE DeletionError(w)
    BY <2>2 DEF DeletionError
  <2>. QED BY <1>2, <2>1, <2>2 DEF FailStep
<1>3. CASE StartWorker(w) \/ CrashWorker(w) \/ KillConsumer(w)
  BY <1>3 DEF StartWorker, CrashWorker, KillConsumer, mediaVars
<1>. QED BY <1>1, <1>2, <1>3 DEF ConsumerStep

\* While one consumer sweeps no pipeline runs, and on a tombstone none begins.
LEMMA NextSwept ==
    ASSUME \A v, w \in Workers : v = w, TypeInv, ReadyInv, SweptInv, [Next]_vars
    PROVE  SweptInv'
<1>0. RowTypeOK /\ PlaceOK /\ JobsNeedRow
  BY DEF TypeInv, TypeOK, StoreTypeOK, RowTypeOK, ReadyInv
<1>1. ASSUME NEW w \in Workers, pc'[w] # pc[w] PROVE ConsumerStep(w)
  BY <1>1, ConsumerSteps
<1>2. Tombstone' => Tombstone \/ \E w \in Workers : AllScrub(w)
  BY <1>0, TombstoneSteps
<1>3. Swept' => Swept \/ \E w \in Workers : AllSweep(w)
  <2>1. ASSUME NEW w \in Workers, pc'[w] \in {"all_rows", "all_scrub"}
        PROVE  Swept \/ AllSweep(w)
    BY <1>1, <2>1, AnyPhaseBegins DEF AllRows, Doing, Swept
  <2>2. Tombstone' => Swept
    BY <1>2 DEF Swept, AllScrub, Doing
  <2>. QED BY <2>1, <2>2 DEF Swept
<1>4. Cleared' => Cleared \/ \E w \in Workers : AllRows(w)
  <2>1. ASSUME NEW w \in Workers, pc'[w] = "all_scrub" PROVE Cleared \/ AllRows(w)
    BY <1>1, <2>1, AnyPhaseBegins DEF Cleared
  <2>2. Tombstone' => Cleared
    BY <1>2 DEF Cleared, AllScrub, Doing
  <2>. QED BY <2>1, <2>2 DEF Cleared
<1>5. Swept => Shrinks
  <2>1. ASSUME Swept, NEW w \in Workers PROVE pc[w] \notin PastLoad
    BY <2>1 DEF Swept, SweptInv, PastLoad, ProcessStep
  <2>. QED BY <2>1, OthersShrink, OnlyPipelinesWrite
<1>6. (Swept => "normalized" \notin objects /\ frames = {})'
  <2>1. CASE Swept
    BY <1>5, <2>1 DEF SweptInv, Shrinks
  <2>2. ASSUME NEW w \in Workers, AllSweep(w)
        PROVE  "normalized" \notin objects' /\ frames' = {}
    BY <2>2 DEF AllSweep, DeleteObjects, Objects
  <2>. QED BY <1>3, <2>1, <2>2
<1>7. (Cleared => artifacts = {})'
  <2>1. CASE Cleared
    BY <1>5, <2>1 DEF SweptInv, Shrinks, Cleared, Swept
  <2>2. ASSUME NEW w \in Workers, AllRows(w) PROVE artifacts' = {}
    BY <2>2 DEF AllRows
  <2>. QED BY <1>4, <2>1, <2>2
<1>8. (Tombstone => \A w \in Workers : pc[w] \notin PastLoad)'
  <2>. SUFFICES ASSUME Tombstone', NEW w \in Workers, pc'[w] \in PastLoad PROVE FALSE
    OBVIOUS
  <2>1. CASE Tombstone
    <3>1. Gone /\ pc[w] \notin PastLoad
      BY <2>1 DEF Tombstone, Gone, SweptInv
    <3>. QED BY <1>1, <3>1, AnyPhaseBegins
  <2>2. ASSUME NEW v \in Workers, AllScrub(v) PROVE FALSE
    <3>1. v = w /\ pc[w] \notin PastLoad /\ pc'[w] \in {"succeed", "fail"}
      BY <1>0, <2>2 DEF AllScrub, Doing, Step, Raise, PlaceOK, ProcessorTypeOK,
         PastLoad, ProcessStep
    <3>. QED BY <3>1 DEF PastLoad, ProcessStep
  <2>. QED BY <1>2, <2>1, <2>2
<1>. QED BY <1>6, <1>7, <1>8 DEF SweptInv

\* With one consumer a row is scrubbed only when all that its pipelines derived
\* is gone, and stays so, whichever steps raise half-way, whenever the process is
\* killed and started again, on either storage backend (delete_all).
THEOREM ScrubAfterSweep ==
    ASSUME \A v, w \in Workers : v = w
    PROVE  Spec => []ScrubbedIsSwept
<1>1. TypeInv /\ TypeInv' /\ ReadyInv /\ [Next]_vars => ReadyInv'
  BY NextReady
<1>2. TypeInv /\ ReadyInv /\ SweptInv /\ [Next]_vars => SweptInv'
  BY NextSwept
<1>3. Init => SweptInv
  BY DEF Init, StoreInit, UnbornRow, ProcessorInit, SweptInv, Swept, Cleared, Tombstone
<1>4. SweptInv => ScrubbedIsSwept
  BY DEF SweptInv, ScrubbedIsSwept, Swept, Cleared, Tombstone
<1>. QED BY <1>1, <1>2, <1>3, <1>4, InitReady, SpecTypeInv, PTL DEF Spec
=============================================================================
