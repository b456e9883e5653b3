# Verification of the LoL AI coach

TLA+ modules, TLC instances and TLAPS proofs kept beside the repository. They
model the parts of the program in which something can go wrong between two
steps: replays that are uploaded, processed, retried and deleted by processes
that share a database and an object store; the media pipeline and its child
processes; the rate limits and files of an upload; platform detection and the
caches over the Riot API, shared by concurrent requests; and the replay section
of the web page, which polls all of this.

Source paths below are relative to `backend/app/` unless they begin with
`docs/` or `frontend/`.

## Inventory

| part | state it keeps | operations | what is hard | what makes it correct |
|---|---|---|---|---|
| **Replay persistence** `repositories/replays.py`, `models/replay.py`, `services/replays/domain.py` | rows of replays, jobs, artifacts | create, transition, queue_process_job, scrub_deleted; enqueue, claim_next, heartbeat, succeed, fail, cancel, recover_stale, enqueue_due_retention | optimistic versions, SKIP LOCKED claims, jobs addressed by id alone, recovery, six deadlines | a job belongs to one worker; attempts stay within max_attempts; deletion is final |
| **Replay HTTP service** `services/replays/service.py`, `api/replays.py` | none of its own; row copies across awaits | create, PUT content, complete, retry, delete | two transactions or storage calls per handler, the race of two calls | no handler overwrites another's write |
| **Replay processor** `services/replays/processor.py` | row copy, scratch files | PROCESS, DELETE_SOURCE, DELETE_ALL, failure handling, cancellation sweep | deletion overtakes an upload; job and replay settled apart | ready means complete; deleted means nothing left |
| **Replay worker** `workers/replay.py` | consumers, heartbeat and retention tasks | recover_stale at start, claim and dispatch, heartbeat every 15 s, retention every 60 s | kill, silent death of a task, restart before the heartbeat is stale | every accepted piece of work ends |
| **Media tools** `services/replays/media.py` | child process, progress reports in flight | probe, normalize, extract_frame; timeout, SIGTERM, SIGKILL | a child that hangs, reports that overtake each other, lengths that change with normalization | no process outlives its attempt; progress grows; frames exist where the coverage says |
| **Object storage** `services/replays/storage/*` | objects, partial files | write, head, promote, delete, delete_prefix | promotion in three calls, late presigned PUT, shared `.part` file | no object outlives its replay, none is over the limit |
| **Rate limiter** `services/replays/rate_limit.py`, `core/errors.py` 115-128 | windows and slots per client | hit, acquire, release, Retry-After | edge of the window, limit reached, a wait that is rounded, release after failure | never more than the limit in any window; slots come back |
| **Token security** `services/replays/security.py` | none | digest, compare | — | — |
| **Riot client** `services/riot/*` | none between calls | get with one retry | Retry-After against the total budget | at most two requests, never beyond the budget |
| **Platform detection** `services/platform_detection.py`, `repositories/platform_detections.py` | single-flight table, stored verdicts, probe permits | detect, confirm | cancelled callers, partial failures, stale renewals | one detection per Riot ID; a verdict is what the platforms said |
| **Players, matches** `services/players.py`, `services/matches.py`, their repositories | rows in PostgreSQL, load tasks, permits | resolve, get by puuid, list, get detail | shared loads, callers that leave, expired rows that conflict | one load per match; a stored match is immutable; failures are forgotten |
| **Replay section** `frontend/src/components/replay-section.tsx`, `replays/storage.ts`, `api/client.ts` | component state, capabilities in localStorage | load, poll, upload, cancel, retry, delete, refresh artifacts | effects that abort each other's requests, second poll chains, late answers | a known replay is followed until it ends; its token is not lost |
| **Static data**, **parsing and routing** | version and name tables | resolve names, parse payloads | — | — |
| **Application shell** `main.py`, `core/*` | settings, engine, metrics | start, stop, error mapping | what `errors.py` rounds, and an exception that ends a handler: in `LocalUpload` and `ReplayService` | — |
| **Other pages** `frontend/src/components/*` | a fetch in flight | load a player, a match | — | — |

Interactions. The API and the workers never call each other: they meet in the
database (`replay_uploads`, `replay_jobs`, `replay_artifacts`) and in the
object store. The service inserts jobs; a consumer claims them; a heartbeat
task per running job refreshes `heartbeat_at`; the retention loop of every
worker process turns deadlines into jobs; `recover_stale`, run once when a
worker starts, turns jobs whose heartbeat is over a minute old into retries or
failures and resets their replay. Nothing is locked between two calls of a
handler or a pipeline: each later write carries the version and the statuses it
expects. Detection and matches call the player service, and all three the Riot
gateway; their rows are written by upserts without versions, and requests meet
in tables of running tasks in the memory of the API process. The page knows the
API by its answers only.

## Modules

```
ReplayStore            rows, jobs, objects, clock; operations of the repositories
  |-- ReplayService    HTTP handlers, one step per database or storage call
  |-- ReplayProcessor  consumers: claim, the three job kinds, settling
        \-- ReplaySystem    all of them together, retention, restart, faults;
              |             properties; refinement of ReplayLifecycle
              |-- MCReplay      instances for TLC
              \-- ReplayProofs  theorems; on top of it StatusProofs (what a status
                                promises, the refinement), then CleanupProofs
                                (what a deletion leaves)
ReplayLifecycle        what a replay's owner is promised (abstract)

FramePlan              coverage and frame plan, pure functions
  \-- MediaPipeline    one attempt of the pipeline and its child processes
        |-- MCMedia, MediaProofs
LocalUpload            rate limits, upload route, files of the local store
  |-- MCUpload, UploadProofs

RiotClient             one call of the Riot API, pure
  |-- PlatformDetection    detect and confirm
  |     |-- MCDetection, DetectionProofs
  \-- PlayerService        resolve and get_by_puuid
        \-- MatchService   list_recent and get_detail over the player service
              |-- MCMatches, MatchProofs
SharedWork             what callers that load the same thing are promised
                       (abstract); PlatformDetection and MatchService refine it

ReplaySection          the component of the page, against a server that moves
  |-- MCSection, SectionProofs
```

**ReplayStore.** `row` is the `replay_uploads` row, `jobs` the `replay_jobs`
rows of the replay, `artifacts` its `replay_artifacts` rows, `objects`,
`oversize` and `frames` what is in storage. A repository method is one
PostgreSQL transaction and one atomic operator: `Insert`, `Write` under
`MayWrite` (transition), `ScrubDeleted`, `AddJob`/`EnsureJob` (enqueue),
`Claim`, `Succeed`, `Fail`, `Cancel`, `RecoverStale`, `EnqueueDueRetention`.
`holding[w]` is the job a consumer has in memory, which need not be one it
still owns.

**ReplayService.** `rq[r]` is the call a handler is about to make; `PutStart`,
`PutWrite`, `PutMark`, `PutCommit`, `PutCleanup` are the content route,
`Complete…` the completion, with `PromoteHead`, `PromoteCopy` and `PromoteDrop`
the three calls of a promotion under S3, `Retry…`, `Delete…` the others.
`Abandon` is an exception or a kill that ends a handler between two calls. `ClientUpload` is the browser's PUT to a presigned URL, external code.

**ReplayProcessor.** `pc[w]` is the step of a consumer, `frame[w]` the frame of
its loop, `retryable[w]` the classification of the error it is settling. Every
write of the pipeline is preceded by the reads the code makes, and every
upload by a check for a deletion and followed by another.

**ReplaySystem.** The interleaving of all of this, `StartWorker` (with
`RecoverStale`), `RunRetention`, `AdvanceClock`, and the faults an instance
admits: `error` (any call of a step raises), `crash` (the worker process is
killed anywhere), `death` (an exception ends a consumer task, which its process
does not notice), `silence` (the heartbeat task of a working consumer stops),
`quick_restart` (a worker starts again before its predecessor's heartbeat is
stale).

**ReplayLifecycle.** The abstract specification: upload, processing, ready or
failed, deleting, deleted, gone. `ReplaySystem` implements it under the mapping
`PhaseOf(row.status)`, while no worker is killed; see below for the kill that
breaks it.

**FramePlan, MediaPipeline.** `FramePlan` has `calculate_coverage`,
`extractable_frame_end_ms` and `plan_frame_game_times` as functions of
durations. `MediaPipeline` is one attempt: `stage` goes from probe over
transcode, check and extraction to an end, with a child process (`child`,
`exit`) that `AsyncSubprocessRunner` awaits, times out (`TimeoutFires`),
terminates and kills (`KillAfterGrace`); `Line`, `Submit…` are the progress
reports of ffmpeg, tasks that write `percent` beside the pipeline and are
gathered at its end. The source's and the output's duration, the anchor and the
match length are inputs.

**LocalUpload.** `hits`, `active` are the limiter; `up[u]` an upload from the
dependencies of the route to the release of its slot; `part`, `final`, `inode`
the two names of the source key and the files behind them, since a handle stays
open when its name is moved or removed. The clock runs in ticks of a `Second`-th
of a second, and `RetryAfter` is the header of `replay_rate_limited`: the exact
wait rounded to a second, the even one of two that are as near, and one at least
(`core/errors.py` 120). `params.retry_after_seconds`, the same wait rounded to a
thousandth, is not modelled. `accepted` and `told` are history for the
properties. A call that is cancelled in `Mark` gives its slot back but cleans
nothing up (`api/replays.py` 257 catches `Exception` only); `OpenFails` is a
directory or a partial file that cannot be opened.

**RiotClient.** `GetJson(first, second)` is `get_json` as a function of the
replies to its one or two requests: status, time taken, Retry-After. The
services see only `Answers`, the codes a call can end with.

**PlatformDetection.** `rq[r]` is a call of detect or confirm at its next
await, `tasks[t]` a detection with its region, account and probes, `inflight`
the table that joins callers to it, `verdict` the stored row per Riot ID.
`owner` and `lives` are the world: who has a Riot ID and where accounts play.

**PlayerService, MatchService.** `players` and `matches` are the rows,
`recents` the accounts with an unexpired recent-match row, `inflight` and
`loads` the shared load tasks. `name` and `content` are the world.

**SharedWork.** The abstract specification of single flight: `running` is what
somebody works on, `waits` what each caller awaits. In detection it is the Riot
IDs of running tasks and of requests at `wait`; for matches the matches of loads
that are not over, and a caller may await several.

**ReplaySection.** React state is kept twice, `view` as last committed (which
event handlers and effects close over) and `next` with the updates queued
since; committing a change of the effects' dependencies aborts their requests,
clears the timer that `handle` names and starts them anew. `chains` are the
polls, `listing`, `upload`, `asks` the other calls in flight, `saved` the
capabilities in localStorage, `server` what the server says of each replay.

### Abstractions

- One replay in `ReplaySystem` and `LocalUpload`. Rows of different replays
  share only the queue, so other replays show as consumers slow to claim.
- Timestamps are countdowns to the moment at which the code's comparison with
  `now` turns true, or flags that turn; the version column is the set `current`
  of processes whose copy still has the row's version and status.
- A worker process has one consumer (`replay_worker_concurrency` is 1 by
  default); two workers stand for two consumers.
- In `ReplayProcessor` the frame plan is never empty and frame extraction is
  deterministic, so that `ReplayArtifactConflict` arises only as an error
  fault; what the media tools do is the subject of `MediaPipeline`.
- `AllSweep` is one step: the known keys are deleted again after the prefixes,
  and `DeletionError` covers a sweep that stops anywhere, with any of the frames
  left. `FrameCheck` joins
  two checks with nothing between them. Slots of settled jobs are used again.
- A tombstone's last day waits for running requests and jobs
  (`NothingRuns`): it lasts seven days, a job at most the two hours of
  `REPLAY_PROCESS_TIMEOUT_SECONDS`.
- `FrameUpsert` and `DeleteEnqueue` keep the branch for a row that has been
  purged, because the code has it; that assumption makes it unreachable.
- The progress callback of `ReplayProcessor` may run any number of times, or
  never.
- A locked section without an await, and the code between two awaits, are one
  step. A database call of detection, players and matches is one step at its
  commit; its caller goes on at once.
- The two windows of the limiter have one length; their counters are apart.
- `KillAfterGrace` is one step and SIGKILL is taken to work: the second bounded
  wait (`media.py` 545-547) would let an attempt end beside a process that even
  SIGKILL does not end.
- When one progress report has failed, those that still run write nothing more.
  In the code they may; the values only grow, so that no property tells.
- A click is committed before the next event, as React does for discrete
  events; answers are committed by a later `Render`. A poll's delay is over
  whenever all renders are.

## Runs

Deadlock checking is off because every one of these systems may stop: the
replay is purged, the attempt has ended, or nobody asks for anything. TLC
explores all states of every passing run, between 59,000 and 1.35 million.

| run | instance | shows |
|---|---|---|
| `replay_concurrent` | 2 workers, 2 requests, local, no faults | `ReadyIsComplete`, `NothingLeft` in every interleaving of two handlers, two consumers, retention and time |
| `replay_faults` | 2 workers, 1 request, one error, kill or dead task | `ExclusiveJob`, `DeletionIsFinal` |
| `replay_silence` | 2 workers, 1 request, one silent heartbeat | `ReadyIsComplete`, `TombstoneIsScrubbed` while two consumers work on one job |
| `replay_s3` | 1 worker, 2 requests, S3 with promotion, one error | `TypeOK`, `ProcessingHasJob`, `ScrubbedIsSwept`, the refinement `LifecycleSpec` |
| `replay_liveness` | 1 worker, 1 request, fair, one error or kill | `DeletionCompletes`, `AbandonedUploadEnds`, `ProcessingEnds`, `FinishedReplayEnds` |
| `detection` | 2 requests on 1 Riot ID, 2 regions, 2 platforms, 1 permit, every reply of Riot, 1 move | `TypeOK`, `SingleFlight`, `VerdictIsTrue`, `CallsBounded`, the refinement `DetectionsAreShared`, `CallsEnd` |
| `matches` | 1 account, 2 matches, 2 contents, 2 load tasks, 1 permit, 1 move | `OneLoad`, the refinement `LoadsAreShared`, `MatchIsImmutable`, `CallsEnd`, `FailureForgotten` |
| `section` | 2 replays, 2 poll chains, 4 clicks, 1 failing call | `TypeOK`, `PollsStop`, `Held`, `TokenKept`, `Followed` |
| `media` | 6 durations, 3 anchors, 3 match lengths, 4 output times | `NoOrphan`, `SeekIsSafe`, `CoverageIsSampled`, `ProgressForward`, `AttemptEnds` |
| `upload` | 1 client, 3 uploads, 2 slots, 3 requests and 1 creation in a window of 3 seconds of 2 ticks | `WindowBound`, `SecondWaitIsEnough`, `SlotsMatch`, `SizeBounded`, `NoPartLeft` |
| `stuck_processing` | 1 worker, 1 request, one error and one kill | the code against `ProcessingHasJob`, below |
| `section_artifacts` | 1 replay, 1 click, no fault | the code against `ReadyShowsArtifacts`, below |

Bounds.

- *Replay runs.* Five job slots hold the three kinds of active job and two
  settled ones still in a consumer's hands; one frame is enough because the
  frames are worked on one at a time by the same steps, and `frame` still runs
  past the last one; two attempts (one under S3) show a retry and an exhausted
  job; deadlines of one or two ticks give every order in which they can expire;
  the fault budget is one (two in `stuck_processing`, which needs an error and
  a kill). Workers and requests are symmetric in the safety runs.
- *detection.* Two callers give a leader and a waiter, and one of them may be
  cancelled and come back as a third while the detection goes on; two ids let a
  renewal write back an id that was replaced; one permit makes probes queue.
  Calls are enumerated with every pair of replies of 0 to 4 ticks against a
  budget of 3.
- *matches.* Callers come one after another: one that leaves a load running
  and asks again meets its own load, which is how two callers meet. Two matches
  make a caller wait for two loads that share one permit. Two callers that
  wait at once are in `detection`, and in the theorem `LoadsShared`. That two
  accounts hold one name in fresh rows needs a second account and is left to the
  model.
- *section.* Two chains are one more than there should be; four clicks are an
  upload, a tab switch, a delete and an upload of another replay.
- *media.* With an interval of 3 and a margin of 1, the durations lie below,
  at and above the two limits and on, before and behind a multiple of the
  interval; one anchor is outside the shortest; four frames are the most a
  supported medium can need, so the cut is met exactly.
- *upload.* Three uploads are one more than there are slots. With half seconds
  between the seconds a wait is rounded up or down, to the even second: 2.5 s
  left are told as 2, a client that comes back then has half a second left and
  is told 1. The last tick is the end of that second wait and the edge of
  the window after a hit of the second tick. Uploads do not
  read the clock, so they are all at work within those first two
  (`BusyEarly`), and the windows run on alone. Bodies of zero and one chunk, and
  one more.

Fairness.

- `FairSpec` of `ReplaySystem`: weak fairness of `ServeRequest` (a handler runs
  on), `RunConsumer` (consumers run on and poll every second), `SendHeartbeat`
  (every 15 s), `RunRetention` (every 60 s), `AdvanceClock` and `EndRetryDelay`
  (time passes), `ExpireAbandoned` (nobody refreshes an abandoned job), and
  `StartWorker`: somebody starts a worker that is gone. The last is an
  assumption on the operator, since `docker-compose.yml` gives the worker no
  restart policy; only behaviours with a kill depend on it, and the new worker
  starts after its predecessor's heartbeat has expired. Requests and faults are
  never forced, and a dead consumer is never replaced.
- `PlatformDetection`, `MatchService`: weak fairness of a request (the event
  loop runs what is ready) and strong fairness of a detection or load:
  `asyncio.Semaphore` serves those who wait for a permit in turn, so one that
  can get a permit again and again gets it; every Riot call ends by its
  timeout. Callers, expiries and the world are not forced.
- `MediaPipeline`: the pipeline and the runner go on and timeouts fire; the
  child itself owes nothing, it may hang and ignore SIGTERM.
- `ReplaySection`: calls are answered or fail, renders and timers run. Clicks
  and the server's own progress are not forced.

## Findings

1. `stuck_processing`: `_handle_process_failure` fails the job and then the
   replay in two transactions; a worker killed in between leaves a replay in
   processing without a job.
2. `section_artifacts`: the answer that says a replay is ready starts the
   request for its artifacts under the signal of the running effect; the render
   that commits the new status runs that effect's cleanup, which aborts the
   signal (`replay-section.tsx` 226, 299-303). Nothing asks again: the gallery,
   which has the refresh, appears with the artifacts only. A reload takes the
   same way. The component's tests mock the client with answers that are there at
   once, before the next render, as no network's are.

`PROJECT.json` quotes the document each one disagrees with.

### Further counterexamples

The model has other behaviours that disagree with a document. They have no run
of their own; each is found by checking the property named in a copy of the
instance named, changed as stated.

| property | instance | behaviour |
|---|---|---|
| `LifecycleSpec` | `replay_faults` with faults `{"crash"}` and no `"retry"` | a worker killed between READY and `jobs.succeed`: recovery resets the ready replay to queued (`repositories/replays.py` 704). So the refinement holds without kills only |
| `TombstoneIsPurged` | `replay_liveness` without faults | `derived_delete_after` survives the scrub: retention scrubs the tombstone on every pass and its seven days begin anew (645) |
| `UploadedHasSource` | `replay_concurrent` with one worker | of two uploads the loser's cleanup deletes the shared source (`api/replays.py` 257) |
| `NothingLeft` | `replay_s3` without faults, two attempts | an upload to a presigned URL that completes after the sweep stays (`processor.py` 157) |
| `ProcessingHasJob` | `replay_faults` with two faults, all `"error"` | no kill: a consumer held up between failing its job and marking the replay is overtaken by the retry it scheduled (due after two seconds); it then writes queued, and the final failure of the retry, a version conflict by now, is swallowed (`processor.py` 542-548). The replay stays queued with a failed job: retry refuses it, and retention has no case for it |
| `StaleJobRecovered` | `replay_liveness` with faults `{"crash", "quick_restart"}` | a worker started within a minute of a kill does not recover the job left running, and no later pass does (`workers/replay.py` 77) |
| `FirstWaitIsEnough` | `upload` | a client that is refused with 2.5 s left is told 2, comes back when told and is refused again (`core/errors.py` 120; `backend/tests/test_errors.py` 111-118 has 12.4 s told as 12) |
| `SourceIsOneBody` | `upload` | two uploads write one `.part` file, each at offsets of its own (`local.py` 64; the design document asks for an unpredictable temporary object) |

## Proofs

Each proof module holds for every value of the constants that meets the named
assumptions of its model.

**ReplayProofs**, for every set of workers, requests and job slots, every
number of frames and attempts, all retention periods, both backends and every
set and number of faults:

- `TypeCorrect`: `Spec => []TypeOK`. Its substance is numeric: attempts never
  exceed `max_attempts` and no frame outside the plan is stored. Neither is
  inductive alone. The invariant is `TypeInv == TypeOK /\ PlaceOK /\ JobsOK`:
  `PlaceOK` ties the step of a consumer to the job it holds and to its frame
  counter, `JobsOK` says that a job which can be claimed has an attempt left.
- `DeletionFinal`: `Spec => DeletionIsFinal`. Every writer of the row is one of
  a short list (`RowWriters`), and each of them tests the status or moves on
  within the deletion.
- `TombstoneScrubbed`: `Spec => []TombstoneIsScrubbed`, from the same list.
- `Exclusive`: if no heartbeat falls silent, `Spec => []ExclusiveJob`.
  `ExclusiveInv` adds that the job of a working consumer is not stale, without
  which `RecoverStale` would take it. The hypothesis is needed: with `silence`
  the property is false, and `replay_silence` shows what still holds then.

**StatusProofs**, in the same generality: `ReadyComplete`,
`Spec => []ReadyIsComplete`. `ReadyInv` relates the step of each consumer to
what is in the store (`Stored`): behind its upload the normalized video, in the
loop the key in the row and every frame before the current one with its row.
That only holds outside of a deletion, so the argument is: whoever sweeps has
seen the deletion (`SweptIsGone`); a deletion is never left, not by recovery
either, which needs that no job outlives its replay's row (`JobsNeedRow`); and
so, outside of one, objects and rows are only gained (`MediaKept`). It needs
neither exclusive jobs nor live heartbeats: two pipelines may fill the store
side by side.

If no worker process is killed, `ImplementsLifecycle`,
`Spec => LifecycleSpec`. `StatusStep` lists the changes of status; every writer
but two names the statuses it writes over. The scrub names none, but comes
after a sweep, hence in a deletion (`SweptIsGone`); recovery names none either,
but runs at the start of a process only. With kills the refinement is false
(table above).

With one consumer that nobody kills, `ProcessingIsCarriedOn`:
`Spec => []ProcessingHasJob`, under any failing steps, silent heartbeats,
retries and deletions. `_handle_process_failure` settles the job in one
transaction and marks the replay in another, so the invariant `JobInv` says
what a consumer still owes between the two: until it settles, its job runs and
is of the kind its step is about (`HeldOK`); about to write queued it has left a
job that can be claimed, and about to write failed it either still has the row's
version or another request has queued a job since (`MarkOK`). Neither hypothesis
can go: a kill between the two transactions leaves a replay in processing with
a failed job, and with two consumers the retry may overtake the consumer that
scheduled it (table above).

**CleanupProofs**, for any number of consumers and requests, where no step
raises and no process is killed (heartbeats may fall silent, and a consumer task
may die where it claims or settles a job):

- `DerivedIsSwept`, on either backend: when a replay is deleted and no consumer
  holds a job, nothing that a pipeline derived is left, neither video nor frames
  nor rows. Two pipelines and a deletion may run beside each other: the sweep may
  come before an upload it should have taken. So the invariant `DerivedInv` is
  not that storage stays empty but that whoever wrote after the sweep still
  answers for it: a consumer is about to look at the replay again
  (`VideoSwept`, `FramesSwept`) or to take its rows back (`RowsSwept`), and
  retention purges the tombstone only after every pipeline that had read the row
  (`LapsedAlone`), since a consumer that finds no row leaves what it wrote.
- `DeletionLeavesNothing`: on the local store, `Spec => []NothingLeft`. A body
  that arrives after the sweep is still the business of its handler until the
  row is marked or the body removed (`SourceSwept`).

The hypotheses are those of the code's own promise. A step that raises between
the write and the second look, a sweep that fails or a recovery that cancels
without one leaves objects behind, and no later pass takes them; so does a
handler that is abandoned before it marks the row. On S3 the client writes the
object itself, with a presigned URL that outlives the deletion (table above):
there the theorem about derived data is all that holds.

With one consumer, `ScrubAfterSweep`: `Spec => []ScrubbedIsSwept`, whichever
steps raise half-way and however often the worker is killed and started again.
`SweptInv` says that from the sweep on there is neither video nor frame, from
the removal of the rows on no row, and that no pipeline is at work on a replay
that is deleted. With a second consumer the property is false: its pipeline may upload
after the sweep and takes back what it wrote only then, which is what
`DerivedIsSwept` is about.

**DetectionProofs**, for any number of Riot IDs, accounts, platforms, regions,
permits, callers, detections and ids:

- `CallIsBounded`: for every budget, delay and Retry-After, a call makes at
  most two requests, ends within the budget and does not spend it in the pause
  it was told to make; `CallsAreBounded` carries it to every probe.
- `DetectionTypes`, `DetectionIsSingle`: type correctness and `SingleFlight`.
- `DetectionsShared`: `Spec => DetectionsAreShared`, step by step. To lead is to
  start a Riot ID's work and to join is to await it; the end of a detection, in
  whichever step, answers exactly those who await its Riot ID, since no other
  detection of it runs.
- `VerdictsAreTrue`: `VerdictIsTrue` needs to know what is on its way: that a
  probe found is one of the account's platforms, one absent is not, that the
  account of a detection is the owner's, and that the copy a renewal writes
  back was a true row.

**MatchProofs**: `MatchIsLoadedOnce` (`OneLoad`) and `SnapshotsAreImmutable`
(`MatchIsImmutable`) for any number of callers, matches, tasks and permits, and
`LoadsShared`: `Spec => LoadsAreShared`. `LoadsAdded` says what a look-up does
to the tables; a load whose callback has not run is over for `SharedWork`, and
clearing it is a stutter.

**MediaProofs**, for every interval, margin, limit and set of media:

- `PlanCovers`: the plan of a supported medium is not cut, reaches its end and
  leaves no moment an interval or more behind the frame before it. It rests on
  the assumption `PlanAssumption` that the maximum duration is at most 180
  intervals. The default of 5400 s meets it with equality; the setting
  (`core/config.py` 45) is not bounded, and with a longer maximum the plan of
  the longest media is cut.
- `AttemptLeavesNoProcess` (`NoOrphan`), `FramesAreSeekable` (`SeekIsSafe`),
  `ReadyIsSampled` (`CoverageIsSampled`). `FrameInv` ties the frames taken so
  far to a prefix of the plan.
- `ProgressOnlyGrows` (`ProgressForward`): reports in flight are sorted and lie
  between what is stored and what was last accepted (`ProgressInv`).

**UploadProofs**, for every number of clients and uploads, all limits, windows
and body sizes, and any length of time:

- `WindowsAreBounded` (`WindowBound`).
  `CounterOK` says that the hits kept are the last ones allowed and that those
  dropped were a window old, so a hit and the one as many before it as the
  limit are a window apart. No order of the hits in the deque is needed.
- `SecondWaitSuffices` (`SecondWaitIsEnough`), for every subdivision of a second.
  By the lemma `Rounding` the header is at most half a second short of the exact
  wait, and never short of a wait of at most a second, so a client that waited as
  told and is refused has at most half a second left, and the second header is
  not below it. `ToldOK` ties what a client was told to the hit that has to leave
  first.
- `SlotsAreCounted` (`SlotsMatch`), by counting the uploads past `acquire`.
- `SizesAreBounded` (`SizeBounded`), `PartsAreCleaned` (`NoPartLeft`):
  `FilesOK` says that a partial file always has an upload at work that will
  rename or remove it, and that every file, named or not, is within the limit.

**SectionProofs**, for any number of replays, chains of polls, clicks and
failing calls:

- `SectionIsTyped`, `SectionPollsStop`, `SectionHolds` (`TypeOK`, `PollsStop`,
  `Held`). `WatchedOK` says that a chain with a poll due or answered belongs to
  a commit that still follows something: `Committed` shows that a commit either
  restarts the effects or leaves what is followed as it was. `KnownOK` says that
  whatever the page may ask about exists on the server.
- `SectionKeepsToken` (`TokenKept`). Answers are applied late, so the invariant
  carries what each of them says until then: an answer expired or gone is about
  a replay the server has lost for good (`AnswerOK`), the artifacts an effect
  asked for are those of a replay that is ready or lost since (`ListOK`), a
  deletion that is to be acknowledged has begun (`AskOK`). `ServerMovesOn` shows
  that the server never takes these back. The lemmas about `Without` replace an
  induction over the sequence: an entry is removed at its position.

The assumptions are those named in the modules (`…Assumption`). `JobIds` need
not be finite.

Every safety and action property of a passing run is a theorem, under the
hypotheses given above. The liveness properties are out of the prover's reach and
only model-checked: `DeletionCompletes`, `AbandonedUploadEnds`,
`FinishedReplayEnds` and `ProcessingEnds`, `CallsEnd` of detection and matches,
`FailureForgotten`, `Followed`, and `AttemptEnds`.

## Not modelled

- Token digests, request validation, byte ranges, parsing and routing, static
  data, the rest of the application shell, pages without a replay section: sequential code
  or pure I/O without state that outlives a call.
- S3 multipart uploads and downloads, key validation; a crash of the API
  process in the middle of an upload, after which a `.part` file or a slot is
  only gone with the process's memory or the next sweep of the prefix.
- The progress and frame steps of two consumers at once: `MediaPipeline` is one
  attempt, `ReplaySystem` has two consumers without the media.
- Task death in the retention loop, several consumers in one process.
- Replay section: a change of match without a reload of the page, the age limit
  of saved capabilities, the wording of refusals of retry and delete, several
  tabs that write one localStorage.
- Which answer a recent-match row holds, and the static data a match or player
  is completed with.

