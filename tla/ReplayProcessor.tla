--------------------------- MODULE ReplayProcessor ---------------------------
(* The consumers of the replay workers: workers/replay.py claims a job and     *)
(* services/replays/processor.py carries it out.  As in ReplayService, a step  *)
(* is one call to the database or the object store; probing, transcoding and   *)
(* frame extraction work on scratch files and only decide whether the next     *)
(* step is reached.                                                            *)
EXTENDS ReplayStore

VARIABLES
    pc,        \* the step each consumer is at
    frame,     \* the frame a PROCESS consumer is at, NumFrames + 1 after the last
    retryable  \* whether the error a consumer is settling may be retried

workerVars == <<pc, frame, retryable>>

ProcessStep ==
    {"load", "download", "hash", "probe", "normalize", "normalized_check",
     "normalized_upload", "normalized_recheck", "extract", "frame_check",
     "frame_reuse", "frame_upload", "frame_recheck", "frame_upsert", "frame_done", "ready"}
SettleStep ==
    {"succeed", "fail_process", "read_queued", "read_failed", "mark_queued",
     "mark_failed", "fail", "sweep", "sweep_rows", "cancel"}
\* The job is settled, the replay is not yet.
Settling == {"read_queued", "read_failed", "mark_queued", "mark_failed"}
DeleteStep ==
    {"source_read", "source_delete", "source_clear",
     "all_read", "all_mark", "all_sweep", "all_rows", "all_scrub"}
BusyStep == ProcessStep \cup SettleStep \cup DeleteStep

ProcessorTypeOK ==
    /\ pc \in [Workers -> BusyStep \cup {"idle", "dead", "down"}]
    /\ frame \in [Workers -> 1..NumFrames + 1]
    /\ retryable \in [Workers -> BOOLEAN]

ProcessorInit ==
    /\ pc = [w \in Workers |-> "idle"]
    /\ frame = [w \in Workers |-> 1]
    /\ retryable = [w \in Workers |-> FALSE]

-----------------------------------------------------------------------------
(* Steps of a consumer *)

Doing(w, step) == pc[w] = step
Busy(w) == pc[w] \in BusyStep
ProcessUp(w) == pc[w] # "down"

Step(w, step) == pc' = [pc EXCEPT ![w] = step] /\ UNCHANGED <<frame, retryable>>
Keep == UNCHANGED <<row, jobs, holding>>
KeepMedia == UNCHANGED <<objects, oversize, frames, artifacts>>

ReadRow(w) == current' = current \cup {w}
DropRow(w) == current' = current \ {w}

\* An exception reaches the handler of the job's kind.
Raise(w, handler, again) ==
    /\ pc' = [pc EXCEPT ![w] = handler]
    /\ retryable' = [retryable EXCEPT ![w] = again]
    /\ DropRow(w)
    /\ UNCHANGED frame
RaiseProcess(w, again) == Raise(w, "fail_process", again)

\* A consumer that lets go of its job keeps nothing of it: it is "idle" when
\* it goes back to claim_next, "dead" when the task ended with an exception,
\* "down" when the process did.
Release(w, state) ==
    /\ pc' = [pc EXCEPT ![w] = state]
    /\ frame' = [frame EXCEPT ![w] = 1]
    /\ retryable' = [retryable EXCEPT ![w] = FALSE]
    /\ holding' = [holding EXCEPT ![w] = None]
Lose(w, state) == Release(w, state) /\ DropRow(w)
Finish(w) == Lose(w, "idle")
FinishWriting(w) == Release(w, "idle") /\ current' = {}

FirstStep(kind) ==
    CASE kind = "process" -> "load"
      [] kind = "delete_source" -> "source_read"
      [] kind = "delete_all" -> "all_read"

\* _consumer_loop: claim the next job and dispatch it.
ClaimJob(w) ==
    /\ Doing(w, "idle")
    /\ \E j \in JobIds : Claim(w, j) /\ Step(w, FirstStep(jobs[j].kind))
    /\ UNCHANGED <<row, current>> /\ KeepMedia

\* _heartbeat_loop: refreshes the job only while this consumer owns it.
Heartbeat(w) ==
    /\ Busy(w)
    /\ LET j == holding[w] IN
         /\ jobs[j].status = "running" /\ jobs[j].worker = w /\ jobs[j].stale
         /\ jobs' = [jobs EXCEPT ![j].stale = FALSE]
    /\ UNCHANGED <<row, current, holding, workerVars>> /\ KeepMedia

-----------------------------------------------------------------------------
(* PROCESS: _process_in_scratch *)

\* _ensure_not_deleting at step `at`: a deletion stops the pipeline, a missing
\* row is an error that is not retried.
Check(w, next) ==
    /\ Keep /\ KeepMedia
    /\ \/ ~RowExists /\ RaiseProcess(w, FALSE)
       \/ Deleting /\ Raise(w, "sweep", FALSE)
       \/ RowExists /\ ~Deleting /\ Step(w, next) /\ UNCHANGED current

\* _transition: checks for a deletion, writes if the copy is current and the
\* status expected, and tells a conflict from a deletion by a second read.
Transition(w, expected, new, next) ==
    /\ IF MayWrite(w, expected)
       THEN Write(w, new) /\ Step(w, next)
       ELSE UNCHANGED row /\ (IF Deleting THEN Raise(w, "sweep", FALSE)
                              ELSE RaiseProcess(w, FALSE))
    /\ UNCHANGED <<jobs, holding>> /\ KeepMedia

Load(w) ==
    /\ Doing(w, "load")
    /\ Keep /\ KeepMedia
    /\ \/ ~RowExists /\ RaiseProcess(w, FALSE)
       \/ Deleting /\ Raise(w, "sweep", FALSE)
       \/ RowExists /\ ~Deleting /\ row.source_key /\ ReadRow(w) /\ Step(w, "download")
       \/ RowExists /\ ~Deleting /\ ~row.source_key /\ RaiseProcess(w, FALSE)

Download(w) ==
    /\ Doing(w, "download")
    /\ Keep /\ KeepMedia
    /\ IF "source" \in objects THEN Step(w, "hash") /\ UNCHANGED current
       ELSE RaiseProcess(w, FALSE)

\* The checksum is stored under the status the row has.
StoreHash(w) ==
    /\ Doing(w, "hash")
    /\ Transition(w, ProcessingStatus \cup {"failed"}, row, "probe")

Probe(w) ==
    /\ Doing(w, "probe")
    /\ Transition(w, ProcessingStatus \cup {"failed"},
                  [row EXCEPT !.status = "probing"], "normalize")

\* A canonical normalized object of an earlier attempt is reused.
Reusable == row.normalized_key /\ "normalized" \in objects

\* _on_progress, any number of times: unlike the other writes it takes over
\* the row as it is when its own write conflicts.
Progress(w) ==
    /\ Doing(w, "normalize") /\ ~Reusable
    /\ IF MayWrite(w, {"probing", "transcoding"})
       THEN Write(w, [row EXCEPT !.status = "transcoding"]) /\ UNCHANGED workerVars
       ELSE /\ UNCHANGED row
            /\ \/ ~RowExists /\ RaiseProcess(w, FALSE)
               \/ Deleting /\ Raise(w, "sweep", FALSE)
               \/ RowExists /\ ~Deleting /\ ReadRow(w) /\ UNCHANGED workerVars
    /\ UNCHANGED <<jobs, holding>> /\ KeepMedia

Normalize(w) ==
    /\ Doing(w, "normalize")
    /\ Transition(w, IF Reusable THEN ProcessingStatus ELSE {"probing", "transcoding"},
                  [row EXCEPT !.status = "transcoding"], "normalized_check")

\* _upload_if_not_deleting: check, upload, check again, take back on deletion.
NormalizedCheck(w) ==
    Doing(w, "normalized_check") /\ Check(w, "normalized_upload")
NormalizedUpload(w) ==
    /\ Doing(w, "normalized_upload")
    /\ PutObject("normalized")
    /\ Step(w, "normalized_recheck")
    /\ Keep /\ UNCHANGED <<current, frames, artifacts>>
NormalizedRecheck(w) ==
    /\ Doing(w, "normalized_recheck")
    /\ \/ ~Deleting /\ Check(w, "extract")
       \/ /\ Deleting
          /\ DeleteObjects({"normalized"})
          /\ Raise(w, "sweep", FALSE)
          /\ Keep /\ UNCHANGED <<frames, artifacts>>

Extract(w) ==
    /\ Doing(w, "extract")
    /\ Transition(w, {"transcoding", "extracting"},
                  [row EXCEPT !.status = "extracting", !.normalized_key = TRUE],
                  "frame_check")

\* Variant: a frame with its row or its object counts as done.
FrameCheckEither(w) ==
    /\ Doing(w, "frame_check")
    /\ Check(w, IF frame[w] \in artifacts \cup frames THEN "frame_done" ELSE "frame_upload")

\* _upsert_frame: a frame with its row and its object is left as it is.  The
\* check before the loop body and the one before the upload are one step.
FrameCheck(w) ==
    /\ Doing(w, "frame_check")
    /\ Check(w, IF frame[w] \in artifacts \cap frames THEN "frame_reuse" ELSE "frame_upload")

\* The row of a frame that is left is upserted as it was read: when it has been
\* deleted since, refreshing it raises.
FrameReuse(w) ==
    /\ Doing(w, "frame_reuse")
    /\ IF frame[w] \in artifacts THEN Step(w, "frame_done") /\ UNCHANGED current
       ELSE RaiseProcess(w, FALSE)
    /\ Keep /\ KeepMedia
FrameUpload(w) ==
    /\ Doing(w, "frame_upload")
    /\ frames' = frames \cup {frame[w]}
    /\ Step(w, "frame_recheck")
    /\ Keep /\ UNCHANGED <<current, objects, oversize, artifacts>>
FrameRecheck(w) ==
    /\ Doing(w, "frame_recheck")
    /\ \/ ~Deleting /\ Check(w, "frame_upsert")
       \/ /\ Deleting
          /\ frames' = frames \ {frame[w]}
          /\ Raise(w, "sweep", FALSE)
          /\ Keep /\ UNCHANGED <<objects, oversize, artifacts>>

\* The artifact row needs the replay row its foreign key names.
FrameUpsert(w) ==
    /\ Doing(w, "frame_upsert")
    /\ IF RowExists
       THEN artifacts' = artifacts \cup {frame[w]} /\ Step(w, "frame_done")
              /\ UNCHANGED current
       ELSE UNCHANGED artifacts /\ RaiseProcess(w, FALSE)
    /\ Keep /\ UNCHANGED <<objects, oversize, frames>>

FrameDone(w) ==
    /\ Doing(w, "frame_done")
    /\ IF MayWrite(w, {"extracting"})
       THEN /\ Write(w, row)
            /\ pc' = [pc EXCEPT ![w] = IF frame[w] < NumFrames THEN "frame_check" ELSE "ready"]
            /\ frame' = [frame EXCEPT ![w] = @ + 1]
            /\ UNCHANGED retryable
       ELSE UNCHANGED row /\ (IF Deleting THEN Raise(w, "sweep", FALSE)
                              ELSE RaiseProcess(w, FALSE))
    /\ UNCHANGED <<jobs, holding>> /\ KeepMedia

\* ready, with both retention deadlines counted from now.
Ready(w) ==
    /\ Doing(w, "ready")
    /\ Transition(w, {"extracting"},
                  [row EXCEPT !.status = "ready", !.retryable = FALSE,
                     !.finished = FailedRetention, !.source_delete = SourceRetention,
                     !.derived_delete = DerivedRetention],
                  "succeed")

\* Any step of the pipeline may raise: a transient storage, database or media
\* error is retryable, a media or content conflict error is not.
PipelineError(w) ==
    /\ pc[w] \in ProcessStep
    /\ \E again \in BOOLEAN : RaiseProcess(w, again)
    /\ Keep /\ KeepMedia

-----------------------------------------------------------------------------
(* Settling a job *)

\* A call to the job repository that raises ends the consumer task:
\* _consumer_loop has no handler.
Die(w) == Lose(w, "dead") /\ UNCHANGED jobs

\* A job that went with its replay's row: succeed raises, then the handler's
\* fail does.
SettleJob(w) ==
    /\ Doing(w, "succeed")
    /\ IF JobExists(holding[w]) THEN Succeed(holding[w]) /\ Finish(w) ELSE Die(w)
    /\ UNCHANGED row /\ KeepMedia

\* _handle_process_failure settles the job first; what became of the job
\* decides the status the replay is to get.
FailProcess(w) ==
    /\ Doing(w, "fail_process")
    /\ LET j == holding[w] IN
         IF MayFail(j, retryable[w])
         THEN /\ Fail(j, retryable[w])
              /\ Step(w, IF RetryScheduled(j, retryable[w])
                         THEN "read_queued" ELSE "read_failed")
              /\ UNCHANGED <<holding, current>>
         ELSE Die(w)
    /\ UNCHANGED row /\ KeepMedia

ReadFailed(w) ==
    /\ pc[w] \in {"read_queued", "read_failed"}
    /\ IF RowExists /\ ~Deleting
       THEN /\ ReadRow(w) /\ UNCHANGED holding
            /\ Step(w, IF Doing(w, "read_queued") THEN "mark_queued" ELSE "mark_failed")
       ELSE Finish(w)
    /\ UNCHANGED <<row, jobs>> /\ KeepMedia

\* Variant: the status follows the error, not what became of the job.
MarkFailedByError(w) ==
    /\ pc[w] \in {"mark_queued", "mark_failed"}
    /\ IF MayWrite(w, ProcessingStatus \cup {"failed"})
       THEN /\ row' = [row EXCEPT !.status = IF retryable[w] THEN "queued" ELSE "failed",
                         !.retryable = retryable[w],
                         !.finished = IF retryable[w] THEN None ELSE FailedRetention,
                         !.source_delete = SourceRetention]
            /\ FinishWriting(w)
       ELSE UNCHANGED row /\ Finish(w)
    /\ UNCHANGED jobs /\ KeepMedia

\* A conflict is swallowed whatever caused it.
MarkFailed(w) ==
    /\ pc[w] \in {"mark_queued", "mark_failed"}
    /\ LET queued == Doing(w, "mark_queued") IN
         IF MayWrite(w, ProcessingStatus \cup {"failed"})
         THEN /\ row' = [row EXCEPT !.status = IF queued THEN "queued" ELSE "failed",
                           !.retryable = retryable[w],
                           !.finished = IF queued THEN None ELSE FailedRetention,
                           !.source_delete = SourceRetention]
              /\ FinishWriting(w)
         ELSE UNCHANGED row /\ Finish(w)
    /\ UNCHANGED jobs /\ KeepMedia

\* _fail_job for a deletion or a failed cancellation sweep.
FailJob(w) ==
    /\ Doing(w, "fail")
    /\ IF MayFail(holding[w], TRUE) THEN Fail(holding[w], TRUE) /\ Finish(w) ELSE Die(w)
    /\ UNCHANGED row /\ KeepMedia

\* _sweep_cancelled_derived, then CANCELLED.
Sweep(w) ==
    /\ Doing(w, "sweep")
    /\ DeleteObjects({"normalized"}) /\ frames' = {}
    /\ Step(w, "sweep_rows")
    /\ Keep /\ UNCHANGED <<current, artifacts>>
\* Variant: the sweep forgets the artifact rows.
SweepRowsKept(w) ==
    /\ Doing(w, "sweep_rows")
    /\ Step(w, "cancel")
    /\ Keep /\ UNCHANGED current /\ KeepMedia
SweepRows(w) ==
    /\ Doing(w, "sweep_rows")
    /\ artifacts' = {}
    /\ Step(w, "cancel")
    /\ Keep /\ UNCHANGED <<current, objects, oversize, frames>>
CancelJob(w) ==
    /\ Doing(w, "cancel")
    /\ IF JobExists(holding[w]) THEN Cancel(holding[w]) /\ Finish(w) ELSE Die(w)
    /\ UNCHANGED row /\ KeepMedia

-----------------------------------------------------------------------------
(* DELETE_SOURCE *)

SourceRead(w) ==
    /\ Doing(w, "source_read")
    /\ IF RowExists
       THEN ReadRow(w) /\ Step(w, IF row.source_key THEN "source_delete" ELSE "source_clear")
       ELSE Raise(w, "fail", TRUE)
    /\ Keep /\ KeepMedia
SourceDelete(w) ==
    /\ Doing(w, "source_delete")
    /\ DeleteObjects({"source"})
    /\ Step(w, "source_clear")
    /\ Keep /\ UNCHANGED <<current, frames, artifacts>>
SourceClear(w) ==
    /\ Doing(w, "source_clear")
    /\ IF MayWrite(w, ReplayStatus)
       THEN /\ Write(w, [row EXCEPT !.source_key = FALSE, !.source_delete = None])
            /\ Step(w, "succeed")
       ELSE UNCHANGED row /\ Raise(w, "fail", TRUE)
    /\ UNCHANGED <<jobs, holding>> /\ KeepMedia

-----------------------------------------------------------------------------
(* DELETE_ALL *)

\* Variant: the objects are removed before the row is marked.
AllReadUnmarked(w) ==
    /\ Doing(w, "all_read")
    /\ IF RowExists
       THEN ReadRow(w) /\ Step(w, "all_sweep")
       ELSE Raise(w, "fail", TRUE)
    /\ Keep /\ KeepMedia
AllRead(w) ==
    /\ Doing(w, "all_read")
    /\ IF RowExists
       THEN ReadRow(w) /\ Step(w, IF Deleting THEN "all_sweep" ELSE "all_mark")
       ELSE Raise(w, "fail", TRUE)
    /\ Keep /\ KeepMedia

\* Whatever the row's status, without looking at its deadlines again.
AllMark(w) ==
    /\ Doing(w, "all_mark")
    /\ IF MayWrite(w, ReplayStatus \ DeletionStatus)
       THEN Write(w, [row EXCEPT !.status = "deleting"]) /\ Step(w, "all_sweep")
       ELSE UNCHANGED row /\ Raise(w, "fail", TRUE)
    /\ UNCHANGED <<jobs, holding>> /\ KeepMedia

\* Variant: what could not be removed is passed over.
AllSweepAnyway(w) ==
    /\ Doing(w, "all_sweep")
    /\ \E gone \in SUBSET objects, left \in SUBSET frames :
         DeleteObjects(gone) /\ frames' = left
    /\ Step(w, "all_rows")
    /\ Keep /\ UNCHANGED <<current, artifacts>>

\* The four prefixes of the replay, and the keys its rows name.
AllSweep(w) ==
    /\ Doing(w, "all_sweep")
    /\ DeleteObjects(Objects) /\ frames' = {}
    /\ Step(w, "all_rows")
    /\ Keep /\ UNCHANGED <<current, artifacts>>
AllRows(w) ==
    /\ Doing(w, "all_rows")
    /\ artifacts' = {}
    /\ Step(w, "all_scrub")
    /\ Keep /\ UNCHANGED <<current, objects, oversize, frames>>
AllScrub(w) ==
    /\ Doing(w, "all_scrub")
    /\ IF RowExists THEN ScrubDeleted /\ Step(w, "succeed")
       ELSE UNCHANGED row /\ Raise(w, "fail", TRUE)
    /\ UNCHANGED <<jobs, holding>> /\ KeepMedia

-----------------------------------------------------------------------------
\* A storage or database error while deleting: the job is retried.  A sweep
\* may have removed any part of what it covers.
DeletionError(w) ==
    /\ pc[w] \in DeleteStep \cup {"sweep", "sweep_rows"}
    /\ Raise(w, "fail", TRUE)
    /\ Keep /\ UNCHANGED artifacts
    /\ CASE pc[w] = "all_sweep" ->
              \E gone \in SUBSET objects, left \in SUBSET frames :
                DeleteObjects(gone) /\ frames' = left
         [] pc[w] = "sweep" ->
              \E gone \in SUBSET {"normalized"}, left \in SUBSET frames :
                DeleteObjects(gone) /\ frames' = left
         [] OTHER -> UNCHANGED <<objects, oversize, frames>>

\* succeed() itself raises: the error is settled like any other, and may be one
\* that is retried.
SucceedError(w) ==
    /\ Doing(w, "succeed")
    /\ IF jobs[holding[w]].kind = "process"
       THEN \E again \in BOOLEAN : RaiseProcess(w, again)
       ELSE Raise(w, "fail", TRUE)
    /\ Keep /\ KeepMedia

ProcessProceeds(w) ==
    \/ Load(w) \/ Download(w) \/ StoreHash(w) \/ Probe(w) \/ Normalize(w)
    \/ NormalizedCheck(w) \/ NormalizedUpload(w) \/ NormalizedRecheck(w)
    \/ Extract(w) \/ FrameCheck(w) \/ FrameReuse(w) \/ FrameUpload(w) \/ FrameRecheck(w)
    \/ FrameUpsert(w) \/ FrameDone(w) \/ Ready(w)
SettleProceeds(w) ==
    \/ SettleJob(w) \/ FailProcess(w) \/ ReadFailed(w) \/ MarkFailed(w)
    \/ FailJob(w) \/ Sweep(w) \/ SweepRows(w) \/ CancelJob(w)
DeletionProceeds(w) ==
    \/ SourceRead(w) \/ SourceDelete(w) \/ SourceClear(w)
    \/ AllRead(w) \/ AllMark(w) \/ AllSweep(w) \/ AllRows(w) \/ AllScrub(w)

\* Steps a consumer takes without any error.
WorkerProceeds(w) ==
    \/ ClaimJob(w) \/ ProcessProceeds(w) \/ SettleProceeds(w) \/ DeletionProceeds(w)
=============================================================================
