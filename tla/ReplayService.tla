---------------------------- MODULE ReplayService ----------------------------
(* The HTTP handlers of a replay: services/replays/service.py and the content  *)
(* route of api/replays.py.  A handler is a sequence of steps, one for every   *)
(* call that reads or writes the database or the object store; between two     *)
(* steps any other handler or worker may run.  A handler that answers, with    *)
(* success or an error, goes back to "idle".  Reads that answer at once        *)
(* (status, artifact listing, idempotent calls, refusals) change nothing.      *)
EXTENDS ReplayStore

CONSTANTS
    Backend,     \* replay_storage_backend: "local" or "s3"
    Operations   \* calls the clients of an instance make

ASSUME BackendAssumption == Backend \in {"local", "s3"}

VARIABLE rq      \* the step each request is at

RequestStep ==
    {"idle",
     "put_write", "put_mark", "put_commit", "put_cleanup", "client_upload",
     "promote_head", "promote_valid", "promote_big", "drop_valid", "drop_big",
     "stat_created", "stat_uploaded",
     "complete_reject", "complete_mark", "complete_queue",
     "retry_stat", "retry_queue", "delete_mark", "delete_enqueue"}

ServiceTypeOK == rq \in [Requests -> RequestStep]
ServiceInit == rq = [r \in Requests |-> "idle"]

-----------------------------------------------------------------------------
(* Steps of a request *)

At(r, step) == rq[r] = step
Start(r, operation) == At(r, "idle") /\ operation \in Operations
GoTo(r, step) == rq' = [rq EXCEPT ![r] = step]
Answer(r) == GoTo(r, "idle")

\* A copy of the row read now, and one no longer needed.
Read(r) == current' = current \cup {r}
Forget(r) == current' = current \ {r}

\* _authorize: the row exists and still has a token digest.
Authorized == RowExists /\ row.token
Expired == Due(row.upload_expires)

rowVars == <<row, jobs, holding>>
mediaVars == <<objects, oversize, frames, artifacts>>

\* create: the INSERT follows create_upload_target, which stores nothing.
CreateReplay(r) ==
    /\ Start(r, "create")
    /\ Insert
    /\ UNCHANGED <<rq, jobs, holding, mediaVars>>

-----------------------------------------------------------------------------
(* PUT /content, local storage only *)

PutStart(r) ==
    /\ Start(r, "put") /\ Backend = "local"
    /\ Authorized /\ row.status = "created" /\ row.source_key /\ ~Expired
    /\ GoTo(r, "put_write")
    /\ UNCHANGED storeVars

\* write_stream replaces the source object when the body is complete; a body
\* that is cut off or too large leaves what was there.
PutWrite(r) ==
    /\ At(r, "put_write")
    /\ \/ PutObject("source") /\ GoTo(r, "put_mark")
       \/ UNCHANGED <<objects, oversize>> /\ Answer(r)
    /\ UNCHANGED <<rowVars, current, frames, artifacts>>

\* mark_local_uploaded up to its transition; every error leads to the cleanup.
PutMark(r) ==
    /\ At(r, "put_mark")
    /\ \/ Authorized /\ row.status = "uploaded" /\ Answer(r) /\ UNCHANGED current
       \/ Authorized /\ row.status = "created" /\ ~Expired
            /\ GoTo(r, "put_commit") /\ Read(r)
       \/ (~Authorized \/ row.status \notin {"created", "uploaded"}
             \/ (row.status = "created" /\ Expired))
            /\ GoTo(r, "put_cleanup") /\ UNCHANGED current
    /\ UNCHANGED <<rowVars, mediaVars>>

PutCommit(r) ==
    /\ At(r, "put_commit")
    /\ IF MayWrite(r, {"created"})
       THEN /\ row' = [row EXCEPT !.status = "uploaded"]
            /\ current' = {}
            /\ Answer(r)
       ELSE GoTo(r, "put_cleanup") /\ Forget(r) /\ UNCHANGED row
    /\ UNCHANGED <<jobs, holding, mediaVars>>

\* The content route's handler for a failed mark_local_uploaded.
PutCleanup(r) ==
    /\ At(r, "put_cleanup")
    /\ DeleteObjects({"source"})
    /\ Answer(r)
    /\ UNCHANGED <<rowVars, current, frames, artifacts>>

\* The browser's PUT to the presigned URL of the temporary key.  The store
\* checks the URL's expiry when the request arrives and nothing of the row, so
\* the object may appear when the row has moved on.
ClientUploadStart(r) ==
    /\ Start(r, "put") /\ Backend = "s3"
    /\ RowExists /\ ~Expired
    /\ GoTo(r, "client_upload")
    /\ UNCHANGED storeVars
ClientUpload(r) ==
    /\ At(r, "client_upload")
    /\ \/ PutObject("tmp")
       \/ objects' = objects \cup {"tmp"} /\ oversize' = oversize \cup {"tmp"}
    /\ Answer(r)
    /\ UNCHANGED <<rowVars, current, frames, artifacts>>

-----------------------------------------------------------------------------
(* POST /complete *)

CompleteStart(r) ==
    /\ Start(r, "complete")
    /\ Authorized /\ row.status \in {"created", "uploaded"}
    /\ ~Expired /\ row.source_key
    /\ GoTo(r, IF row.status = "uploaded" THEN "stat_uploaded"
               ELSE IF Backend = "s3" THEN "promote_head" ELSE "stat_created")
    /\ Read(r)
    /\ UNCHANGED <<rowVars, mediaVars>>

\* Where a verified source leads: the status read at the start of the call
\* decides whether the upload is still to be marked.
Stat(r, verified) ==
    /\ \/ "source" \notin objects /\ Answer(r) /\ Forget(r)
       \/ "source" \in oversize /\ GoTo(r, "complete_reject") /\ UNCHANGED current
       \/ "source" \in objects \ oversize /\ GoTo(r, verified) /\ UNCHANGED current
    /\ UNCHANGED <<rowVars, mediaVars>>

CompleteStat(r) ==
    \/ At(r, "stat_created") /\ Stat(r, "complete_mark")
    \/ At(r, "stat_uploaded") /\ Stat(r, "complete_queue")

\* storage.promote reads the size of the temporary object first.  When that
\* object is gone (an earlier call moved it) the source is stat-ed instead.
PromoteHead(r) ==
    /\ At(r, "promote_head")
    /\ IF "tmp" \in objects
       THEN /\ GoTo(r, IF "tmp" \in oversize THEN "promote_big" ELSE "promote_valid")
            /\ UNCHANGED <<rowVars, current, mediaVars>>
       ELSE Stat(r, "complete_mark")

\* Then it copies the object over the source, as it is by now.
Copy(r, next) ==
    /\ IF "tmp" \in objects
       THEN /\ objects' = objects \cup {"source"}
            /\ oversize' = IF "tmp" \in oversize THEN {"tmp", "source"} ELSE {}
            /\ GoTo(r, next) /\ UNCHANGED current
       ELSE UNCHANGED <<objects, oversize>> /\ Answer(r) /\ Forget(r)
    /\ UNCHANGED <<rowVars, frames, artifacts>>

PromoteCopy(r) ==
    \/ At(r, "promote_valid") /\ Copy(r, "drop_valid")
    \/ At(r, "promote_big") /\ Copy(r, "drop_big")

\* And deletes the temporary object, or the one uploaded in its place meanwhile.
PromoteDrop(r) ==
    /\ rq[r] \in {"drop_valid", "drop_big"}
    /\ DeleteObjects({"tmp"})
    /\ GoTo(r, IF At(r, "drop_valid") THEN "complete_mark" ELSE "complete_reject")
    /\ UNCHANGED <<rowVars, current, frames, artifacts>>

\* An object over the limits is removed from the source key again.
CompleteReject(r) ==
    /\ At(r, "complete_reject")
    /\ DeleteObjects({"source"})
    /\ Answer(r) /\ Forget(r)
    /\ UNCHANGED <<rowVars, frames, artifacts>>

\* Variant: the upload is marked without the version and status precondition.
CompleteMarkBlindly(r) ==
    /\ At(r, "complete_mark")
    /\ RowExists
    /\ Write(r, [row EXCEPT !.status = "uploaded"]) /\ GoTo(r, "complete_queue")
    /\ UNCHANGED <<jobs, holding, mediaVars>>

\* created -> uploaded.  After a conflict the row is read again: an upload
\* someone else marked is queued, anything else ends the call.
CompleteMark(r) ==
    /\ At(r, "complete_mark")
    /\ IF MayWrite(r, {"created"})
       THEN Write(r, [row EXCEPT !.status = "uploaded"]) /\ GoTo(r, "complete_queue")
       ELSE /\ UNCHANGED row
            /\ IF Authorized /\ row.status = "uploaded"
               THEN Read(r) /\ GoTo(r, "complete_queue")
               ELSE Forget(r) /\ Answer(r)
    /\ UNCHANGED <<jobs, holding, mediaVars>>

\* queue_process_job: the transition and the INSERT of the job commit together
\* or not at all.
CompleteQueue(r) ==
    /\ At(r, "complete_queue")
    /\ IF MayWrite(r, {"uploaded"}) /\ ~HasActive("process")
       THEN row' = [row EXCEPT !.status = "queued"] /\ current' = {} /\ AddJob("process")
       ELSE UNCHANGED <<row, jobs>> /\ Forget(r)
    /\ Answer(r)
    /\ UNCHANGED <<holding, mediaVars>>

-----------------------------------------------------------------------------
(* POST /retry *)

RetryStart(r) ==
    /\ Start(r, "retry")
    /\ Authorized /\ row.status = "failed" /\ row.retryable
    /\ row.source_delete # None /\ ~Due(row.source_delete) /\ row.source_key
    /\ GoTo(r, "retry_stat") /\ Read(r)
    /\ UNCHANGED <<rowVars, mediaVars>>

RetryStat(r) ==
    /\ At(r, "retry_stat")
    /\ \/ "source" \in objects /\ GoTo(r, "retry_queue") /\ UNCHANGED current
       \/ "source" \notin objects /\ Answer(r) /\ Forget(r)
    /\ UNCHANGED <<rowVars, mediaVars>>

\* The source deadline set by the failure stays in force.
RetryQueue(r) ==
    /\ At(r, "retry_queue")
    /\ IF MayWrite(r, {"failed"}) /\ ~HasActive("process")
       THEN /\ row' = [row EXCEPT !.status = "queued", !.retryable = FALSE]
            /\ current' = {}
            /\ AddJob("process")
       ELSE UNCHANGED <<row, jobs>> /\ Forget(r)
    /\ Answer(r)
    /\ UNCHANGED <<holding, mediaVars>>

-----------------------------------------------------------------------------
(* DELETE *)

DeleteStart(r) ==
    /\ Start(r, "delete")
    /\ Authorized /\ ~Deleting
    /\ GoTo(r, "delete_mark") /\ Read(r)
    /\ UNCHANGED <<rowVars, mediaVars>>

\* A conflict is not caught: the call ends in a server error.
DeleteMark(r) ==
    /\ At(r, "delete_mark")
    /\ IF MayWrite(r, ReplayStatus \ DeletionStatus)
       THEN /\ row' = [row EXCEPT !.status = "deleting"]
            /\ current' = {}
            /\ GoTo(r, "delete_enqueue")
       ELSE UNCHANGED row /\ Forget(r) /\ Answer(r)
    /\ UNCHANGED <<jobs, holding, mediaVars>>

\* The job is inserted by a second transaction.  Its foreign key fails once
\* retention has removed the row.
DeleteEnqueue(r) ==
    /\ At(r, "delete_enqueue")
    /\ IF RowExists THEN EnsureJob("delete_all") ELSE UNCHANGED jobs
    /\ Answer(r)
    /\ UNCHANGED <<row, holding, current, mediaVars>>

-----------------------------------------------------------------------------
(* A handler that stops between two of its steps: an exception of the storage  *)
(* or the database, or the end of the API process.                             *)
Abandon(r) ==
    /\ ~At(r, "idle")
    /\ Answer(r) /\ Forget(r)
    /\ UNCHANGED <<rowVars, mediaVars>>

\* A database error while the upload is marked: the content route cleans up.
PutError(r) ==
    /\ rq[r] \in {"put_mark", "put_commit"}
    /\ GoTo(r, "put_cleanup") /\ Forget(r)
    /\ UNCHANGED <<rowVars, mediaVars>>

\* Steps a request in flight takes without any new input.
RequestProceeds(r) ==
    \/ PutWrite(r) \/ PutMark(r) \/ PutCommit(r) \/ PutCleanup(r)
    \/ ClientUpload(r)
    \/ CompleteStat(r) \/ PromoteHead(r) \/ PromoteCopy(r) \/ PromoteDrop(r)
    \/ CompleteReject(r) \/ CompleteMark(r) \/ CompleteQueue(r)
    \/ RetryStat(r) \/ RetryQueue(r)
    \/ DeleteMark(r) \/ DeleteEnqueue(r)

RequestStarts(r) ==
    \/ CreateReplay(r) \/ PutStart(r) \/ ClientUploadStart(r)
    \/ CompleteStart(r) \/ RetryStart(r) \/ DeleteStart(r)
=============================================================================
