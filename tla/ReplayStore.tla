----------------------------- MODULE ReplayStore -----------------------------
(* The persistent state of the replay subsystem and the operations of         *)
(* repositories/replays.py on it, each one PostgreSQL transaction and hence    *)
(* one atomic step, together with the object store that the API and the       *)
(* workers share.  The module follows one replay: repository operations name   *)
(* a replay id, and rows of different replays share only the job queue.        *)
(*                                                                             *)
(* Time is kept as countdowns.  Each timestamp column holds the number of      *)
(* clock ticks until the code's comparison with `now` turns true, 0 once it    *)
(* is true, None while the column is NULL.  The countdowns of one row keep     *)
(* the order of its deadlines without bounding the length of a behaviour.      *)
(*                                                                             *)
(* Optimistic concurrency: the only use of the version column is to compare    *)
(* a version read earlier with the present one, so the model records, in       *)
(* `current`, which processes hold a copy of the row that still agrees with    *)
(* its version and status.                                                     *)
EXTENDS Naturals, FiniteSets

CONSTANTS
    Workers,             \* consumers of replay workers (one process each)
    Requests,            \* concurrent HTTP requests about the replay
    JobIds,              \* slots of the replay_jobs table, an initial part of 1, 2, ...
    NumFrames,           \* frames plan_frame_game_times asks for
    MaxAttempts,         \* max_attempts of a job
    UploadWindow,        \* replay_upload_expiry_seconds, in ticks
    SourceRetention,     \* replay_source_retention_hours, in ticks
    DerivedRetention,    \* replay_derived_retention_days, in ticks
    FailedRetention,     \* _FAILED_FULL_DELETE_AFTER, in ticks
    TombstoneRetention,  \* _TOMBSTONE_RETENTION, in ticks
    None                 \* NULL

ASSUME CountsAssumption ==
    /\ NumFrames \in Nat \ {0}
    /\ MaxAttempts \in Nat \ {0}
    /\ JobIds \subseteq Nat

ASSUME DeadlinesAssumption ==
    /\ {UploadWindow, SourceRetention, DerivedRetention,
        FailedRetention, TombstoneRetention} \subseteq Nat \ {0}
    /\ None \notin Nat

ASSUME ProcessesAssumption ==
    /\ Workers \cap Requests = {}
    /\ None \notin Workers
    /\ None \notin JobIds

VARIABLES
    row,        \* the replay_uploads row
    current,    \* processes whose copy of the row has its version and status
    jobs,       \* the replay_jobs rows of the replay
    holding,    \* the job each consumer has claimed and not yet let go of
    objects,    \* objects of the replay in storage other than frames
    oversize,   \* those of them that exceed the declared or maximal size
    frames,     \* frame objects in storage
    artifacts   \* replay_artifacts rows, one per frame

storeVars == <<row, current, jobs, holding, objects, oversize, frames, artifacts>>

-----------------------------------------------------------------------------
(* Types *)

ProcessingStatus == {"queued", "probing", "transcoding", "extracting"}
DeletionStatus == {"deleting", "deleted"}
ReplayStatus == ProcessingStatus \cup DeletionStatus
                  \cup {"created", "uploaded", "ready", "failed", "expired"}

\* A replay before its INSERT and after retention's DELETE of its row.
RowStatus == ReplayStatus \cup {"unborn", "purged"}

JobKind == {"process", "delete_source", "delete_all"}
ActiveJobStatus == {"pending", "running", "retry_scheduled"}
JobStatus == ActiveJobStatus \cup {"succeeded", "failed", "cancelled"}

Upto(n) == 0..n \cup {None}
FrameIds == 1..NumFrames
Objects == {"tmp", "source", "normalized"}
Processes == Workers \cup Requests

\* token stands for every field of _SENSITIVE_SCRUB_FIELDS but the two keys;
\* retryable is `error_retryable is True`.
Row == [status: RowStatus, token: BOOLEAN, source_key: BOOLEAN,
        normalized_key: BOOLEAN, retryable: BOOLEAN,
        upload_expires: Upto(UploadWindow),
        source_delete: Upto(SourceRetention),
        derived_delete: Upto(DerivedRetention),
        finished: Upto(FailedRetention),
        tombstone: Upto(TombstoneRetention)]

\* due: available_at <= now.  stale: heartbeat_at is older than _STALE_HEARTBEAT.
\* A slot whose status is "none" holds no row.
Job == [kind: JobKind, status: JobStatus \cup {"none"}, attempts: 0..MaxAttempts,
        worker: Workers \cup {None}, due: BOOLEAN, stale: BOOLEAN]

StoreTypeOK ==
    /\ row \in Row
    /\ current \subseteq Processes
    /\ jobs \in [JobIds -> Job]
    /\ holding \in [Workers -> JobIds \cup {None}]
    /\ objects \subseteq Objects
    /\ oversize \subseteq {"tmp", "source"}
    /\ frames \subseteq FrameIds
    /\ artifacts \subseteq FrameIds

UnbornRow ==
    [status |-> "unborn", token |-> FALSE, source_key |-> FALSE,
     normalized_key |-> FALSE, retryable |-> FALSE, upload_expires |-> None,
     source_delete |-> None, derived_delete |-> None, finished |-> None,
     tombstone |-> None]

NoJob == [kind |-> "process", status |-> "none", attempts |-> 0,
          worker |-> None, due |-> FALSE, stale |-> FALSE]

StoreInit ==
    /\ row = UnbornRow
    /\ current = {}
    /\ jobs = [j \in JobIds |-> NoJob]
    /\ holding = [w \in Workers |-> None]
    /\ objects = {} /\ oversize = {} /\ frames = {} /\ artifacts = {}

-----------------------------------------------------------------------------
(* The object store: writing an object replaces it, deleting a missing one is  *)
(* a success.                                                                  *)

PutObject(object) ==
    objects' = objects \cup {object} /\ oversize' = oversize \ {object}
DeleteObjects(gone) ==
    objects' = objects \ gone /\ oversize' = oversize \ gone

-----------------------------------------------------------------------------
(* SqlReplayRepository *)

RowExists == row.status \in ReplayStatus
Deleting == row.status \in DeletionStatus

\* The value None stays, a deadline that has passed stays passed.
Due(deadline) == deadline = 0
Sooner(deadline) == IF deadline \in {None, 0} THEN deadline ELSE deadline - 1

\* create: INSERT with status created.
Insert ==
    /\ row.status = "unborn"
    /\ row' = [UnbornRow EXCEPT !.status = "created", !.token = TRUE,
                 !.source_key = TRUE, !.upload_expires = UploadWindow]
    /\ current' = {}

\* The precondition of transition and queue_process_job: p's copy has the
\* version of the row and the row's status is one of the expected ones.
MayWrite(p, expected) == p \in current /\ row.status \in expected

\* The UPDATE of a transition sets the row to new and its version to a value
\* that only the writer p sees, in the row returned to it.
Write(p, new) == row' = new /\ current' = {p}

\* scrub_deleted: unconditional, by id, and without a new version.  Copies
\* with another status fail the status test from here on.
Scrubbed == [row EXCEPT !.status = "deleted", !.token = FALSE,
               !.source_key = FALSE, !.normalized_key = FALSE,
               !.retryable = FALSE, !.tombstone = TombstoneRetention]
\* Variant: the scrub forgets the key of the normalized video.
ScrubDeletedButKey ==
    /\ RowExists
    /\ row' = [Scrubbed EXCEPT !.normalized_key = row.normalized_key]
    /\ current' = IF row.status = "deleted" THEN current ELSE {}
ScrubDeleted ==
    /\ RowExists
    /\ row' = Scrubbed
    /\ current' = IF row.status = "deleted" THEN current ELSE {}

-----------------------------------------------------------------------------
(* SqlReplayJobRepository *)

Active(j) == jobs[j].status \in ActiveJobStatus
HasActive(kind) == \E j \in JobIds : Active(j) /\ jobs[j].kind = kind
HoldsJob(w) == holding[w] # None

\* Nothing reads a row that is neither active nor in a consumer's hands, so
\* its slot may be used again.
FreeSlot(j) == ~Active(j) /\ \A w \in Workers : holding[w] # j
NextSlot(j) == FreeSlot(j) /\ \A i \in JobIds : FreeSlot(i) => j <= i

\* _new_job
NewJob(kind) == [kind |-> kind, status |-> "pending", attempts |-> 0,
                 worker |-> None, due |-> TRUE, stale |-> FALSE]

\* INSERT of a pending job; the unique index uq_replay_active_job has no other
\* active row of this kind.
AddJob(kind) ==
    /\ ~HasActive(kind)
    /\ \E j \in JobIds :
         /\ NextSlot(j)
         /\ jobs' = [jobs EXCEPT ![j] = NewJob(kind)]

\* enqueue_idempotent: an active job of the kind counts as success.
EnsureJob(kind) ==
    \/ AddJob(kind)
    \/ HasActive(kind) /\ UNCHANGED jobs

\* The columns a claim sets.
Claimed(w, j) ==
    [jobs[j] EXCEPT !.status = "running", !.worker = w,
       !.attempts = jobs[j].attempts + 1, !.stale = FALSE]

\* Variant: jobs scheduled for a retry are not picked up.
ClaimPending(w, j) ==
    /\ jobs[j].status = "pending" /\ jobs[j].due
    /\ jobs' = [jobs EXCEPT ![j] = Claimed(w, j)]
    /\ holding' = [holding EXCEPT ![w] = j]

\* claim_next.  ORDER BY available_at only ranks rows no other claim has
\* locked: SKIP LOCKED lets a concurrent claim take a later row first.
Claim(w, j) ==
    /\ jobs[j].status \in {"pending", "retry_scheduled"} /\ jobs[j].due
    /\ jobs' = [jobs EXCEPT ![j] = Claimed(w, j)]
    /\ holding' = [holding EXCEPT ![w] = j]

\* The columns succeed, fail, cancel and recover_stale clear.  The three
\* setters address the job by id alone: neither its status nor its worker is
\* tested.
Released(j, status) ==
    [jobs[j] EXCEPT !.status = status, !.worker = None, !.stale = FALSE, !.due = FALSE]

JobExists(j) == jobs[j].status # "none"
Succeed(j) == JobExists(j) /\ jobs' = [jobs EXCEPT ![j] = Released(j, "succeeded")]
Cancel(j) == JobExists(j) /\ jobs' = [jobs EXCEPT ![j] = Released(j, "cancelled")]

\* Variant: one attempt too many.
RetryScheduledOnceMore(j, retryable) == retryable /\ jobs[j].attempts <= MaxAttempts

\* fail: retry_scheduled while the caller passes an available_at and attempts
\* are left, else failed.
RetryScheduled(j, retryable) == retryable /\ jobs[j].attempts < MaxAttempts
FailStatus(j, retryable) ==
    IF RetryScheduled(j, retryable) THEN "retry_scheduled" ELSE "failed"

\* Making a settled job active again breaks the unique index when another
\* active job has its kind: the UPDATE raises.
Resurrects(j, retryable) ==
    /\ RetryScheduled(j, retryable) /\ ~Active(j)
    /\ \E i \in JobIds \ {j} : Active(i) /\ jobs[i].kind = jobs[j].kind
MayFail(j, retryable) == JobExists(j) /\ ~Resurrects(j, retryable)
Fail(j, retryable) ==
    /\ MayFail(j, retryable)
    /\ jobs' = [jobs EXCEPT ![j] = Released(j, FailStatus(j, retryable))]

\* Variant: running jobs are recovered whatever their heartbeat.
RunningJobs == {j \in JobIds : jobs[j].status = "running"}

\* recover_stale: every stale running job, in one transaction.
StaleJobs == {j \in JobIds : jobs[j].status = "running" /\ jobs[j].stale}
StaleProcess == {j \in StaleJobs : jobs[j].kind = "process"}
RecoveredStatus(j) ==
    IF jobs[j].kind = "process" /\ Deleting THEN "cancelled" ELSE FailStatus(j, TRUE)

\* _sync_replay_after_stale_process_job
SyncedRow(j) ==
    IF RetryScheduled(j, TRUE)
    THEN [row EXCEPT !.status = "queued", !.retryable = TRUE, !.finished = None]
    ELSE [row EXCEPT !.status = "failed", !.retryable = TRUE,
            !.finished = FailedRetention, !.source_delete = SourceRetention]
\* Variant: the row is reset although its deletion has begun.
RecoverStaleBlindly ==
    /\ jobs' = [j \in JobIds |-> IF j \in StaleJobs
                                 THEN Released(j, RecoveredStatus(j)) ELSE jobs[j]]
    /\ IF StaleProcess = {}
       THEN UNCHANGED <<row, current>>
       ELSE /\ \E j \in StaleProcess : row' = SyncedRow(j)
            /\ current' = {}
RecoverStale ==
    /\ jobs' = [j \in JobIds |-> IF j \in StaleJobs
                                 THEN Released(j, RecoveredStatus(j)) ELSE jobs[j]]
    /\ IF StaleProcess = {} \/ Deleting
       THEN UNCHANGED <<row, current>>
       ELSE /\ \E j \in StaleProcess : row' = SyncedRow(j)
            /\ current' = {}

\* Variants of the predicate below, each without one of its cases.
DeleteAllDueButDeleting ==
    /\ RowExists
    /\ \/ Due(row.derived_delete)
       \/ Due(row.upload_expires) /\ row.status \in {"created", "uploaded", "expired"}
       \/ Due(row.finished) /\ row.status = "failed"
DeleteAllDueButUploads ==
    /\ RowExists
    /\ \/ Due(row.derived_delete)
       \/ row.status = "deleting"
       \/ Due(row.finished) /\ row.status = "failed"
DeleteAllDueButFailed ==
    /\ RowExists
    /\ \/ Due(row.derived_delete)
       \/ row.status = "deleting"
       \/ Due(row.upload_expires) /\ row.status \in {"created", "uploaded", "expired"}

\* _delete_all_due_predicate
DeleteAllDue ==
    /\ RowExists
    /\ \/ Due(row.derived_delete)
       \/ row.status = "deleting"
       \/ Due(row.upload_expires) /\ row.status \in {"created", "uploaded", "expired"}
       \/ Due(row.finished) /\ row.status = "failed"
DeleteSourceDue ==
    /\ RowExists /\ ~Deleting
    /\ Due(row.source_delete)
    /\ ~DeleteAllDue

\* The DELETE of expired tombstones cascades to jobs and artifacts.
TombstoneDue == row.status = "deleted" /\ Due(row.tombstone)

\* enqueue_due_retention
PurgeTombstone ==
    /\ TombstoneDue
    /\ row' = [UnbornRow EXCEPT !.status = "purged"]
    /\ current' = {}
    /\ jobs' = [j \in JobIds |-> NoJob]
    /\ artifacts' = {}
QueueRetention ==
    /\ ~TombstoneDue
    /\ \/ DeleteAllDue /\ AddJob("delete_all")
       \/ DeleteSourceDue /\ ~HasActive("delete_all") /\ AddJob("delete_source")
    /\ UNCHANGED <<row, current, artifacts>>
EnqueueDueRetention ==
    /\ PurgeTombstone \/ QueueRetention
    /\ UNCHANGED <<holding, objects, oversize, frames>>

\* A tick of the clock moves every deadline; a retry delay is shorter.
Tick ==
    /\ row' = [row EXCEPT !.upload_expires = Sooner(@), !.source_delete = Sooner(@),
                 !.derived_delete = Sooner(@), !.finished = Sooner(@),
                 !.tombstone = Sooner(@)]
    /\ row' # row
    /\ UNCHANGED <<current, jobs, holding, objects, oversize, frames, artifacts>>

\* A retry delay (_retry_delay, or recover_stale's second) elapses.
BecomesAvailable(j) ==
    /\ jobs[j].status = "retry_scheduled" /\ ~jobs[j].due
    /\ jobs' = [jobs EXCEPT ![j].due = TRUE]
    /\ UNCHANGED <<row, current, holding, objects, oversize, frames, artifacts>>
=============================================================================
