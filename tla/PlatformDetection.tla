-------------------------- MODULE PlatformDetection --------------------------
(* On which platforms a Riot ID plays: services/platform_detection.py over the *)
(* table of repositories/platform_detections.py.  A request reads the stored   *)
(* verdict, joins or starts the one detection of its Riot ID, or confirms one  *)
(* candidate of an ambiguous verdict.  A detection is a task of its own: it    *)
(* asks the regions for the account, then every platform at once, and stores   *)
(* what it found.  Every await is a step, so anything may run between two.     *)
EXTENDS RiotClient, FiniteSets

CONSTANTS
    Keys,            \* Riot IDs, as (game_name_key, tag_line_key)
    Puuids,          \* accounts
    Platforms,       \* detection_probe_platforms()
    NumRegions,      \* length of _region_order()
    MaxConcurrency,  \* permits of _probe_semaphore
    Requests, Tasks, \* callers, and detections that can exist at a time
    Ids,             \* detection ids
    MaxMoves         \* changes of the world outside that an instance allows

ASSUME DetectionAssumption ==
    /\ NumRegions \in Nat \ {0}
    /\ MaxConcurrency \in Nat \ {0}
    /\ MaxMoves \in Nat
    /\ IsFiniteSet(Platforms)
    /\ None \notin Keys \cup Puuids \cup Tasks \cup Ids

VARIABLES
    owner,     \* the account that has a Riot ID
    lives,     \* platforms an account plays on
    moves,     \* changes of owner and lives so far
    verdict,   \* the row stored for a Riot ID
    inflight,  \* _inflight: the detection a Riot ID waits for
    tasks,     \* detections
    rq         \* requests

outside == <<owner, lives, moves>>
vars == <<owner, lives, moves, verdict, inflight, tasks, rq>>

-----------------------------------------------------------------------------
(* Rows.  fresh: expires_at is ahead; conf: confirmation_expires_at is.  The   *)
(* status is what the candidates say.                                          *)

Ambiguous(rec) == Cardinality(rec.candidates) > 1

\* What __post_init__ accepts.
Record ==
    {rec \in [id : Ids, puuid : Puuids \cup {None}, candidates : SUBSET Platforms,
              fresh : BOOLEAN, conf : BOOLEAN] :
       /\ rec.puuid = None <=> rec.candidates = {}
       /\ rec.conf => Ambiguous(rec)}

Row(key) == verdict[key]
Fresh(key) == Row(key) # None /\ Row(key).fresh

\* ON CONFLICT (the two keys) DO UPDATE: all but the id is replaced.
Upsert(key, rec) ==
    verdict' = [verdict EXCEPT ![key] =
                  IF Row(key) = None THEN rec ELSE [rec EXCEPT !.id = Row(key).id]]

-----------------------------------------------------------------------------
(* Detections *)

ProbeState == {"idle", "queued", "asked", "found", "absent"}

NoProbes == [p \in Platforms |-> "idle"]
NoTask == [step |-> "free", key |-> None, region |-> 0, puuid |-> None,
           probes |-> NoProbes]

Task == [step : {"free", "account", "probe", "missing"}, key : Keys \cup {None},
         region : 0..NumRegions, puuid : Puuids \cup {None},
         probes : [Platforms -> ProbeState]]

Running(t) == tasks[t].step # "free"

\* As if a permit were held until the whole detection is over.
AskedOrAnswered ==
    {tp \in Tasks \X Platforms :
       tasks[tp[1]].probes[tp[2]] \in {"asked", "found", "absent"}}

\* Probes that hold a permit of the semaphore, of all detections.
Asked == {tp \in Tasks \X Platforms : tasks[tp[1]].probes[tp[2]] = "asked"}

Found(t) == {p \in Platforms : tasks[t].probes[p] = "found"}

Answered(t) == \A p \in Platforms : tasks[t].probes[p] \in {"found", "absent"}

-----------------------------------------------------------------------------
(* Requests *)

RequestStep == {"idle", "read", "renew", "join", "wait", "confirm",
                "summoner", "delete"}

Idle == [step |-> "idle", key |-> None, task |-> None, id |-> None,
         platform |-> None, puuid |-> None, rec |-> None]

Request == [step : RequestStep, key : Keys \cup {None}, task : Tasks \cup {None},
            id : Ids \cup {None}, platform : Platforms \cup {None},
            puuid : Puuids \cup {None}, rec : Record \cup {None}]

At(r, step) == rq[r].step = step

\* The call answers: with an error, with the candidates, or with the profile of
\* the player service, which reads nothing of this module (_result_for).
Answer(r) == rq' = [rq EXCEPT ![r] = Idle]

\* Those who wait for t get its record, or its error, and answer.
Waiting(t) == {r \in Requests : At(r, "wait") /\ rq[r].task = t}

Wake(t) == rq' = [r \in Requests |-> IF r \in Waiting(t) THEN Idle ELSE rq[r]]

-----------------------------------------------------------------------------
TypeOK ==
    /\ owner \in [Keys -> Puuids \cup {None}]
    /\ lives \in [Puuids -> SUBSET Platforms]
    /\ moves \in 0..MaxMoves
    /\ verdict \in [Keys -> Record \cup {None}]
    /\ inflight \in [Keys -> Tasks \cup {None}]
    /\ tasks \in [Tasks -> Task]
    /\ rq \in [Requests -> Request]

Init ==
    /\ owner \in [Keys -> Puuids \cup {None}]
    /\ lives \in [Puuids -> SUBSET Platforms]
    /\ moves = 0
    /\ verdict = [k \in Keys |-> None]
    /\ inflight = [k \in Keys |-> None]
    /\ tasks = [t \in Tasks |-> NoTask]
    /\ rq = [r \in Requests |-> Idle]

-----------------------------------------------------------------------------
(* detect *)

Detect(r, k) ==
    /\ At(r, "idle")
    /\ rq' = [rq EXCEPT ![r] = [Idle EXCEPT !.step = "read", !.key = k]]
    /\ UNCHANGED <<outside, verdict, inflight, tasks>>

\* get_fresh missed.
ReadMiss(r) ==
    /\ At(r, "read")
    /\ ~Fresh(rq[r].key)
    /\ rq' = [rq EXCEPT ![r].step = "join"]
    /\ UNCHANGED <<outside, verdict, inflight, tasks>>

\* get_fresh hit, and the confirmation is open or there is none to open.
ReadHit(r) ==
    LET rec == Row(rq[r].key) IN
    /\ At(r, "read")
    /\ Fresh(rq[r].key)
    /\ ~(Ambiguous(rec) /\ ~rec.conf)
    /\ Answer(r)
    /\ UNCHANGED <<outside, verdict, inflight, tasks>>

\* get_fresh hit an ambiguous verdict whose confirmation has run out.
ReadLapsed(r) ==
    LET rec == Row(rq[r].key) IN
    /\ At(r, "read")
    /\ Fresh(rq[r].key)
    /\ Ambiguous(rec) /\ ~rec.conf
    /\ rq' = [rq EXCEPT ![r].step = "renew", ![r].rec = rec]
    /\ UNCHANGED <<outside, verdict, inflight, tasks>>

\* The row as it was read is written back with a new confirmation window,
\* whatever has become of it since.
Renew(r) ==
    /\ At(r, "renew")
    /\ Upsert(rq[r].key, [rq[r].rec EXCEPT !.conf = TRUE])
    /\ Answer(r)
    /\ UNCHANGED <<outside, inflight, tasks>>

\* _detect_single_flight: the lock is held over no await, so finding no task
\* and registering one are one step.
Join(r) ==
    LET k == rq[r].key IN
    /\ At(r, "join")
    /\ inflight[k] # None
    /\ rq' = [rq EXCEPT ![r].step = "wait", ![r].task = inflight[k]]
    /\ UNCHANGED <<outside, verdict, inflight, tasks>>

\* As if the registered detection were not looked for under the lock.
LeadAlways(r) ==
    LET k == rq[r].key
        t == CHOOSE free \in Tasks : ~Running(free) IN
    /\ At(r, "join")
    /\ \E free \in Tasks : ~Running(free)
    /\ tasks' = [tasks EXCEPT ![t] =
                   [NoTask EXCEPT !.step = "account", !.key = k, !.region = 1]]
    /\ inflight' = [inflight EXCEPT ![k] = t]
    /\ rq' = [rq EXCEPT ![r].step = "wait", ![r].task = t]
    /\ UNCHANGED <<outside, verdict>>

Lead(r) ==
    LET k == rq[r].key
        t == CHOOSE free \in Tasks : ~Running(free) IN
    /\ At(r, "join")
    /\ inflight[k] = None
    /\ \E free \in Tasks : ~Running(free)
    /\ tasks' = [tasks EXCEPT ![t] =
                   [NoTask EXCEPT !.step = "account", !.key = k, !.region = 1]]
    /\ inflight' = [inflight EXCEPT ![k] = t]
    /\ rq' = [rq EXCEPT ![r].step = "wait", ![r].task = t]
    /\ UNCHANGED <<outside, verdict>>

\* A caller goes away; the detection it waits for is shielded.
Cancel(r) ==
    /\ ~At(r, "idle")
    /\ Answer(r)
    /\ UNCHANGED <<outside, verdict, inflight, tasks>>

-----------------------------------------------------------------------------
(* _detect_uncached *)

\* _detect_and_remove: the task leaves _inflight whatever its end, and those
\* who wait for it are answered.
End(t) ==
    /\ tasks' = [tasks EXCEPT ![t] = NoTask]
    /\ inflight' = [k \in Keys |-> IF k = tasks[t].key /\ inflight[k] = t
                                   THEN None ELSE inflight[k]]
    /\ Wake(t)

\* _find_account: one region after the other until one knows the name.
AccountAnswer(t) ==
    LET task == tasks[t]
        puuid == owner[task.key] IN
    /\ task.step = "account"
    /\ \E code \in Answers(puuid # None) :
         \/ /\ code = "OK"
            /\ tasks' = [tasks EXCEPT ![t].step = "probe", ![t].puuid = puuid,
                           ![t].probes = [p \in Platforms |-> "queued"]]
            /\ UNCHANGED <<inflight, rq>>
         \/ /\ code = "NOT_FOUND" /\ task.region < NumRegions
            /\ tasks' = [tasks EXCEPT ![t].region = @ + 1]
            /\ UNCHANGED <<inflight, rq>>
         \/ /\ code = "NOT_FOUND" /\ task.region = NumRegions
            /\ tasks' = [tasks EXCEPT ![t].step = "missing"]
            /\ UNCHANGED <<inflight, rq>>
         \/ code \in Failures /\ End(t)
    /\ UNCHANGED <<outside, verdict>>

\* A probe takes a permit of the semaphore.
ProbeStart(t, p) ==
    /\ tasks[t].step = "probe" /\ tasks[t].probes[p] = "queued"
    /\ Cardinality(Asked) < MaxConcurrency
    /\ tasks' = [tasks EXCEPT ![t].probes[p] = "asked"]
    /\ UNCHANGED <<outside, verdict, inflight, rq>>

\* As if an outage counted as an answer.
AbsentOrDown(code) == code \in {"NOT_FOUND", "RIOT_UNAVAILABLE"}

\* Only the not-found code of a probe means that the account is not there.
Absent(code) == code = "NOT_FOUND"

\* _probe_platform ends and gives its permit back.  The first that fails ends
\* the detection: gather raises, the others are cancelled and awaited.
ProbeAnswer(t, p) ==
    LET there == p \in lives[tasks[t].puuid] IN
    /\ tasks[t].step = "probe" /\ tasks[t].probes[p] = "asked"
    /\ \E code \in Answers(there) :
         \/ /\ code = "OK"
            /\ tasks' = [tasks EXCEPT ![t].probes[p] = "found"]
            /\ UNCHANGED <<inflight, rq>>
         \/ /\ Absent(code)
            /\ tasks' = [tasks EXCEPT ![t].probes[p] = "absent"]
            /\ UNCHANGED <<inflight, rq>>
         \/ code # "OK" /\ ~Absent(code) /\ End(t)
    /\ UNCHANGED <<outside, verdict>>

\* As if the account were kept when no platform knows it.
VerdictOfAccount(t, id) ==
    [id |-> id, puuid |-> tasks[t].puuid, candidates |-> Found(t), fresh |-> TRUE,
     conf |-> Cardinality(Found(t)) > 1]

\* The record of a detection that is over; without candidates it has no puuid.
Verdict(t, id) ==
    [id |-> id, puuid |-> IF Found(t) = {} THEN None ELSE tasks[t].puuid,
     candidates |-> Found(t), fresh |-> TRUE, conf |-> Cardinality(Found(t)) > 1]

\* uuid4: an id that no row and no request has.
KnownIds == {Row(k).id : k \in {key \in Keys : Row(key) # None}}
            \cup {rq[r].id : r \in {q \in Requests : rq[q].step \in {"summoner", "delete"}}}
            \cup {rq[r].rec.id : r \in {q \in Requests : At(q, "renew")}}

NewId == CHOOSE id \in Ids : Ids \subseteq KnownIds \/ id \notin KnownIds

StoreVerdict(t) ==
    LET new == Verdict(t, NewId) IN
    /\ \/ tasks[t].step = "missing"
       \/ tasks[t].step = "probe" /\ Answered(t)
    /\ Row(tasks[t].key) # None \/ Ids \ KnownIds # {}
    /\ Upsert(tasks[t].key, new)
    /\ End(t)
    /\ UNCHANGED outside

-----------------------------------------------------------------------------
(* confirm *)

Confirm(r, id, p) ==
    /\ At(r, "idle")
    /\ rq' = [rq EXCEPT ![r] = [Idle EXCEPT !.step = "confirm", !.id = id,
                                            !.platform = p]]
    /\ UNCHANGED <<outside, verdict, inflight, tasks>>

\* get_for_confirmation: the row of that id, fresh and with an open window.
Confirmable(id) == {k \in Keys : Fresh(k) /\ Row(k).id = id /\ Row(k).conf}

\* Without such a row, or for a platform that is no candidate, it is refused.
ConfirmRead(r) ==
    /\ At(r, "confirm")
    /\ \/ /\ \A k \in Confirmable(rq[r].id) : rq[r].platform \notin Row(k).candidates
          /\ Answer(r)
       \/ \E k \in Confirmable(rq[r].id) :
            /\ rq[r].platform \in Row(k).candidates
            /\ rq' = [rq EXCEPT ![r].step = "summoner", ![r].key = k,
                           ![r].puuid = Row(k).puuid]
    /\ UNCHANGED <<outside, verdict, inflight, tasks>>

\* The platform is asked once more for the account of the row that was read; on
\* success the player service answers.
ConfirmCall(r) ==
    /\ At(r, "summoner")
    /\ \E code \in Answers(rq[r].platform \in lives[rq[r].puuid]) :
         \/ code = "NOT_FOUND" /\ rq' = [rq EXCEPT ![r].step = "delete"]
         \/ code # "NOT_FOUND" /\ Answer(r)
    /\ UNCHANGED <<outside, verdict, inflight, tasks>>

\* The verdict was wrong: the row of that id goes, and detect starts over.
ConfirmDelete(r) ==
    /\ At(r, "delete")
    /\ verdict' = [k \in Keys |-> IF Row(k) # None /\ Row(k).id = rq[r].id
                                  THEN None ELSE Row(k)]
    /\ rq' = [rq EXCEPT ![r] = [Idle EXCEPT !.step = "read", !.key = rq[r].key]]
    /\ UNCHANGED <<outside, inflight, tasks>>

-----------------------------------------------------------------------------
(* Time, and the world outside *)

\* A row's expires_at passes, and that of every older copy of it; nothing reads
\* the confirmation window of a stale row.
Expire(k) ==
    /\ Fresh(k)
    /\ verdict' = [verdict EXCEPT ![k].fresh = FALSE, ![k].conf = FALSE]
    /\ rq' = [r \in Requests |->
                IF rq[r].key = k /\ rq[r].rec # None
                THEN [rq[r] EXCEPT !.rec.fresh = FALSE] ELSE rq[r]]
    /\ UNCHANGED <<outside, inflight, tasks>>

\* A row's confirmation_expires_at passes.
Lapse(k) ==
    /\ Fresh(k) /\ Row(k).conf
    /\ verdict' = [verdict EXCEPT ![k].conf = FALSE]
    /\ UNCHANGED <<outside, inflight, tasks, rq>>

\* An account takes or gives up a Riot ID; two accounts never share one.
Rename(k, puuid) ==
    /\ moves < MaxMoves /\ moves' = moves + 1
    /\ owner' = [owner EXCEPT ![k] = puuid]
    /\ UNCHANGED <<lives, verdict, inflight, tasks, rq>>

Transfer(puuid, where) ==
    /\ moves < MaxMoves /\ moves' = moves + 1
    /\ lives' = [lives EXCEPT ![puuid] = where]
    /\ UNCHANGED <<owner, verdict, inflight, tasks, rq>>

-----------------------------------------------------------------------------
(* Specification.  The event loop runs every ready task, every Riot call ends  *)
(* by its timeout, and a semaphore of asyncio serves those who wait for it in  *)
(* turn.  The world, the clock and the callers owe nothing.                    *)

RequestStepOf(r) ==
    \/ ReadMiss(r) \/ ReadHit(r) \/ ReadLapsed(r) \/ Renew(r)
    \/ Join(r) \/ Lead(r)
    \/ ConfirmRead(r) \/ ConfirmCall(r) \/ ConfirmDelete(r)

DetectionStep(t) ==
    \/ AccountAnswer(t) \/ StoreVerdict(t)
    \/ \E p \in Platforms : ProbeStart(t, p) \/ ProbeAnswer(t, p)

Next ==
    \/ \E r \in Requests, k \in Keys : Detect(r, k)
    \/ \E r \in Requests, id \in Ids, p \in Platforms : Confirm(r, id, p)
    \/ \E r \in Requests : RequestStepOf(r) \/ Cancel(r)
    \/ \E t \in Tasks : DetectionStep(t)
    \/ \E k \in Keys : Expire(k) \/ Lapse(k)
    \/ \E k \in Keys, puuid \in Puuids \cup {None} : Rename(k, puuid)
    \/ \E puuid \in Puuids, where \in SUBSET Platforms : Transfer(puuid, where)

Fairness ==
    /\ \A r \in Requests : WF_vars(RequestStepOf(r))
    /\ \A t \in Tasks : SF_vars(DetectionStep(t))

Spec == Init /\ [][Next]_vars /\ Fairness

-----------------------------------------------------------------------------
(* Refinement: a detection is the work SharedWork does for a Riot ID.          *)

Detecting == {tasks[t].key : t \in {u \in Tasks : Running(u)}}

Awaited == [r \in Requests |-> IF At(r, "wait") THEN {rq[r].key} ELSE {}]

Shared == INSTANCE SharedWork
            WITH Callers <- Requests, running <- Detecting, waits <- Awaited

-----------------------------------------------------------------------------
(* Properties *)

\* Concurrent calls share their detection: one that runs is joined and never
\* started anew, a caller that goes away does not stop it, and its end, with a
\* verdict or an error, is the answer of all who wait (203-220).
DetectionsAreShared == Shared!Spec

\* However requests, cancellations and failures interleave, a Riot ID has at
\* most one detection: a running one is the one _inflight names, and who waits
\* waits for a running detection of its own Riot ID (203-220).
SingleFlight ==
    /\ \A t \in Tasks : Running(t) => inflight[tasks[t].key] = t
    /\ \A k \in Keys : inflight[k] # None =>
         Running(inflight[k]) /\ tasks[inflight[k]].key = k
    /\ \A r \in Requests : At(r, "wait") =>
         Running(rq[r].task) /\ tasks[rq[r].task].key = rq[r].key

\* A stored verdict is what the regions and platforms would say: an outage, a
\* rate limit or a cancelled probe never makes it smaller, and neither renewal
\* nor the upsert mixes two of them (222-330, 122-172).
VerdictIsTrue ==
    moves = 0 =>
      \A k \in Keys : Row(k) # None =>
         Row(k).candidates = (IF owner[k] = None THEN {} ELSE lives[owner[k]])

\* Whatever the network answers a probe that is asked, and whenever, the call
\* keeps to its attempts and its budget (client.py:88-140).
CallsBounded ==
    \A tp \in Asked : IF tp[2] \in lives[tasks[tp[1]].puuid]
                      THEN BoundedThere ELSE BoundedMissing

\* Every call of detect or confirm comes to an answer: no caller waits for a
\* detection nobody runs, and a failed detection leaves no permit taken.
CallsEnd == \A r \in Requests : ~At(r, "idle") ~> At(r, "idle")
=============================================================================
