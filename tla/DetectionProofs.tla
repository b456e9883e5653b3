--------------------------- MODULE DetectionProofs ---------------------------
(* Proofs about PlatformDetection and the Riot call it rests on, for any       *)
(* number of callers, Riot IDs, platforms and regions.                         *)
EXTENDS PlatformDetection, FiniteSetTheorems, TLAPS

-----------------------------------------------------------------------------
(* A call of the Riot client *)

\* A call makes one or two requests, keeps to its budget, and is rate limited
\* only by an answer of Riot (client.py:68-153).
THEOREM CallIsBounded ==
    ASSUME NEW first \in Reply, NEW second \in Reply
    PROVE  CallBounded(first, second)
<1> USE ClientAssumption
<1> DEFINE resumed == first.took + Pause(first)
           call == GetJson(first, second)
<1>1. /\ first.took \in Nat /\ second.took \in Nat
      /\ first.kind \in Kind /\ second.kind \in Kind
      /\ first.after \in Nat \cup {None}
  BY DEF Reply
<1>2. CASE first.took > TotalTimeout
  BY <1>1, <1>2 DEF CallBounded, GetJson, TimedOut, Ended
<1>3. CASE first.took <= TotalTimeout /\ ~Retried(first)
  <2>1. call = Ended(Outcome(first), 1, first.took)
    BY <1>1, <1>3 DEF GetJson
  <2>2. first.kind = "429" => Outcome(first) = "RIOT_RATE_LIMITED"
    BY DEF Outcome
  <2> QED  BY <1>1, <1>3, <2>1, <2>2 DEF CallBounded, Ended
<1>4. CASE first.took <= TotalTimeout /\ Retried(first)
  <2>1. Pause(first) \in Nat
    BY <1>1, <1>4 DEF Pause, Retried, Honoured
  <2>2. first.kind = "429" => resumed <= TotalTimeout
    BY <1>1, <1>4, <2>1 DEF Pause, Retried, Honoured
  <2>3. CASE resumed > TotalTimeout
    <3>1. call = TimedOut(1)
      BY <1>1, <1>4, <2>3 DEF GetJson
    <3>2. first.kind # "429"
      BY <1>1, <2>1, <2>2, <2>3
    <3> QED  BY <3>1, <3>2 DEF CallBounded, TimedOut, Ended
  <2>4. CASE resumed <= TotalTimeout
    <3>1. call = IF resumed + second.took > TotalTimeout
                 THEN TimedOut(2)
                 ELSE Ended(Outcome(second), 2, resumed + second.took)
      BY <1>1, <1>4, <2>1, <2>4 DEF GetJson
    <3>2. call.requests = 2 /\ call.elapsed <= TotalTimeout
      BY <1>1, <2>1, <3>1 DEF TimedOut, Ended
    <3> QED  BY <3>2 DEF CallBounded
  <2> QED  BY <1>1, <2>1, <2>3, <2>4
<1> QED  BY <1>1, <1>2, <1>3, <1>4

LEMMA RepliesAreReplies == ASSUME NEW there \in BOOLEAN PROVE Replies(there) \subseteq Reply
BY ClientAssumption DEF Replies, Reply

\* Only a body reads as OK, and only status 404 as not found.
LEMMA CodesAreKinds ==
    /\ "OK" \notin CodesMissing
    /\ "NOT_FOUND" \notin CodesThere
<1>1. \A reply \in Reply : /\ Outcome(reply) = "OK" => reply.kind = "body"
                           /\ Outcome(reply) = "NOT_FOUND" => reply.kind = "404"
  BY DEF Outcome, Reply, Kind
<1>2. \A first, second \in Reply :
         GetJson(first, second).code \in {Outcome(first), Outcome(second), "RIOT_UNAVAILABLE"}
  <2> TAKE first, second \in Reply
  <2> QED  BY DEF GetJson, TimedOut, Ended
<1>3. \A reply \in Replies(FALSE) : reply.kind # "body"
  BY DEF Replies
<1>4. \A reply \in Replies(TRUE) : reply.kind # "404"
  BY DEF Replies
<1>5. "OK" \notin CodesMissing
  <2> SUFFICES ASSUME NEW first \in Replies(FALSE), NEW second \in Replies(FALSE),
                      GetJson(first, second).code = "OK"
               PROVE  FALSE
    BY DEF CodesMissing, Codes
  <2> QED  BY <1>1, <1>2, <1>3, RepliesAreReplies
<1>6. "NOT_FOUND" \notin CodesThere
  <2> SUFFICES ASSUME NEW first \in Replies(TRUE), NEW second \in Replies(TRUE),
                      GetJson(first, second).code = "NOT_FOUND"
               PROVE  FALSE
    BY DEF CodesThere, Codes
  <2> QED  BY <1>1, <1>2, <1>4, RepliesAreReplies
<1> QED  BY <1>5, <1>6

\* Every probe that is asked makes a bounded call.
THEOREM CallsAreBounded == Spec => []CallsBounded
<1>1. BoundedThere /\ BoundedMissing
  BY CallIsBounded, RepliesAreReplies DEF BoundedThere, BoundedMissing
<1>2. CallsBounded
  BY <1>1 DEF CallsBounded
<1> QED  BY <1>2, PTL

-----------------------------------------------------------------------------
(* The inductive invariant.  What a Riot ID's verdict should be is known while *)
(* the world outside stands still; each part says of one task or request what  *)
(* its step lets it rely on.                                                   *)

Truth(k) == IF owner[k] = None THEN {} ELSE lives[owner[k]]

TaskOK(task) ==
    /\ task \in Task
    /\ task.step # "free" => task.key \in Keys /\ task.region \in 1..NumRegions
    /\ task.step = "probe" => task.puuid \in Puuids
    /\ task.step # "probe" => task.probes = NoProbes

TaskTrue(task) ==
    moves = 0 =>
      /\ task.step = "missing" => owner[task.key] = None
      /\ task.step = "probe" =>
           /\ owner[task.key] = task.puuid
           /\ \A p \in Platforms :
                /\ task.probes[p] = "found" => p \in lives[task.puuid]
                /\ task.probes[p] = "absent" => p \notin lives[task.puuid]

RequestOK(q) ==
    /\ q \in Request
    /\ q.step \in {"read", "renew", "join", "wait", "summoner", "delete"} => q.key \in Keys
    /\ q.step = "wait" => q.task \in Tasks
    /\ q.step = "renew" => q.rec \in Record /\ Ambiguous(q.rec)
    /\ q.step = "confirm" => q.id \in Ids /\ q.platform \in Platforms
    /\ q.step \in {"summoner", "delete"} => q.id \in Ids

RequestTrue(q) == moves = 0 /\ q.step = "renew" => q.rec.candidates = Truth(q.key)

VerdictTrue == moves = 0 => \A k \in Keys : Row(k) # None => Row(k).candidates = Truth(k)

Outside ==
    /\ owner \in [Keys -> Puuids \cup {None}]
    /\ lives \in [Puuids -> SUBSET Platforms]
    /\ moves \in 0..MaxMoves

Flight ==
    /\ inflight \in [Keys -> Tasks \cup {None}]
    /\ \A t \in Tasks : Running(t) => inflight[tasks[t].key] = t
    /\ \A k \in Keys : inflight[k] # None =>
         Running(inflight[k]) /\ tasks[inflight[k]].key = k

Waits(q) == q.step = "wait" => Running(q.task) /\ tasks[q.task].key = q.key

Stored == verdict \in [Keys -> Record \cup {None}]

Inv ==
    /\ Outside
    /\ Stored /\ VerdictTrue
    /\ tasks = [t \in Tasks |-> tasks[t]]
    /\ \A t \in Tasks : TaskOK(tasks[t]) /\ TaskTrue(tasks[t])
    /\ Flight
    /\ rq = [r \in Requests |-> rq[r]]
    /\ \A r \in Requests : RequestOK(rq[r]) /\ RequestTrue(rq[r]) /\ Waits(rq[r])

LEMMA InvGivesProperties == Inv => TypeOK /\ SingleFlight /\ VerdictIsTrue
<1> SUFFICES ASSUME Inv PROVE TypeOK /\ SingleFlight /\ VerdictIsTrue
  OBVIOUS
<1>1. tasks \in [Tasks -> Task]
  BY DEF Inv, TaskOK
<1>2. rq \in [Requests -> Request]
  BY DEF Inv, RequestOK
<1>3. TypeOK
  BY <1>1, <1>2 DEF Inv, Outside, Stored, Flight, TypeOK
<1>4. SingleFlight
  BY DEF Inv, Flight, Waits, SingleFlight, At
<1>5. VerdictIsTrue
  BY DEF Inv, VerdictTrue, VerdictIsTrue, Truth
<1> QED  BY <1>3, <1>4, <1>5

LEMMA IdleIsOK == RequestOK(Idle) /\ RequestTrue(Idle) /\ Waits(Idle)
BY DEF RequestOK, RequestTrue, Waits, Idle, Request, RequestStep

LEMMA InitInv == Init => Inv
<1> SUFFICES ASSUME Init PROVE Inv
  OBVIOUS
<1>1. TaskOK(NoTask) /\ TaskTrue(NoTask) /\ NoTask.step = "free"
  BY DetectionAssumption DEF TaskOK, TaskTrue, NoTask, Task, NoProbes, ProbeState
<1>2. Outside /\ Stored /\ VerdictTrue
  BY DetectionAssumption DEF Init, Outside, Stored, VerdictTrue, Row
<1>3. \A t \in Tasks : tasks[t] = NoTask
  BY DEF Init
<1>4. \A r \in Requests : rq[r] = Idle
  BY DEF Init
<1>5. Flight
  BY <1>1, <1>3 DEF Init, Flight, Running
<1> QED  BY <1>1, <1>2, <1>3, <1>4, <1>5, IdleIsOK DEF Init, Inv

-----------------------------------------------------------------------------
(* How steps change the state *)

\* One request moves to a step it may be in.
LEMMA RequestMoves ==
    ASSUME Inv, NEW r \in Requests, NEW new,
           RequestOK(new), RequestTrue(new), Waits(new),
           rq' = [rq EXCEPT ![r] = new],
           UNCHANGED <<outside, verdict, inflight, tasks>>
    PROVE  Inv'
<1>1. Outside' /\ Stored' /\ VerdictTrue' /\ Flight'
  BY DEF Inv, Outside, Stored, VerdictTrue, Flight, outside, Row, Truth, Running
<1>2. tasks' = [t \in Tasks |-> tasks'[t]] /\ \A t \in Tasks : (TaskOK(tasks[t]) /\ TaskTrue(tasks[t]))'
  BY DEF Inv, TaskOK, TaskTrue, outside
<1>3. rq' = [q \in Requests |-> rq'[q]]
  BY DEF Inv
<1>4. \A q \in Requests : (RequestOK(rq[q]) /\ RequestTrue(rq[q]) /\ Waits(rq[q]))'
  BY DEF Inv, RequestOK, RequestTrue, Waits, Running, outside, Truth
<1> QED  BY <1>1, <1>2, <1>3, <1>4 DEF Inv

\* A detection goes on.
LEMMA TaskMoves ==
    ASSUME Inv, NEW t \in Tasks, NEW new, Running(t),
           TaskOK(new), TaskTrue(new), new.step # "free", new.key = tasks[t].key,
           tasks' = [tasks EXCEPT ![t] = new],
           UNCHANGED <<outside, verdict, inflight, rq>>
    PROVE  Inv'
<1>1. Outside' /\ Stored' /\ VerdictTrue'
  BY DEF Inv, Outside, Stored, VerdictTrue, outside, Row, Truth
<1>2. Flight'
  <2>1. \A u \in Tasks : Running(u)' <=> Running(u)
    BY DEF Inv, Running
  <2>2. \A u \in Tasks : tasks'[u].key = tasks[u].key
    BY DEF Inv
  <2>3. Flight /\ inflight' = inflight
    BY DEF Inv
  <2> QED  BY <2>1, <2>2, <2>3 DEF Flight
<1>3. tasks' = [u \in Tasks |-> tasks'[u]]
  BY DEF Inv
<1>4. \A u \in Tasks : (TaskOK(tasks[u]) /\ TaskTrue(tasks[u]))'
  BY DEF Inv, TaskOK, TaskTrue, outside
<1>5. \A q \in Requests : (RequestOK(rq[q]) /\ RequestTrue(rq[q]) /\ Waits(rq[q]))'
  BY DEF Inv, RequestOK, RequestTrue, Waits, Running, outside, Truth
<1> QED  BY <1>1, <1>2, <1>3, <1>4, <1>5 DEF Inv

\* A detection ends; those who wait for it are answered.
LEMMA TaskEnds ==
    ASSUME Inv, NEW t \in Tasks, Running(t), End(t),
           Stored', VerdictTrue', UNCHANGED outside
    PROVE  Inv'
<1>1. Outside'
  BY DEF Inv, Outside, outside
<1>2. /\ tasks' = [u \in Tasks |-> tasks'[u]]
      /\ \A u \in Tasks : tasks'[u] = IF u = t THEN NoTask ELSE tasks[u]
  BY DEF Inv, End
<1>3. TaskOK(NoTask)' /\ TaskTrue(NoTask)' /\ NoTask.step = "free"
  BY DetectionAssumption DEF TaskOK, TaskTrue, NoTask, Task, NoProbes, ProbeState
<1>4. \A u \in Tasks : (TaskOK(tasks[u]) /\ TaskTrue(tasks[u]))'
  BY <1>2, <1>3 DEF Inv, TaskOK, TaskTrue, outside
<1>5. /\ inflight' \in [Keys -> Tasks \cup {None}]
      /\ \A k \in Keys : inflight'[k] = IF inflight[k] = t THEN None ELSE inflight[k]
  BY DEF Inv, Flight, End, Running, TaskOK
<1>6. Flight'
  <2>1. \A u \in Tasks : Running(u)' <=> u # t /\ Running(u)
    BY <1>2, <1>3 DEF Running
  <2>2. \A u \in Tasks : Running(u)' => inflight'[tasks'[u].key] = u
    <3> TAKE u \in Tasks
    <3> HAVE Running(u)'
    <3>1. u # t /\ tasks'[u] = tasks[u] /\ Running(u)
      BY <1>2, <2>1
    <3>2. tasks[u].key \in Keys /\ inflight[tasks[u].key] = u
      BY <3>1 DEF Inv, Flight, TaskOK, Running
    <3> QED  BY <1>5, <3>1, <3>2
  <2>3. \A k \in Keys : inflight'[k] # None =>
           Running(inflight[k])' /\ tasks'[inflight'[k]].key = k
    <3> TAKE k \in Keys
    <3> HAVE inflight'[k] # None
    <3>1. inflight'[k] = inflight[k] /\ inflight[k] # t /\ inflight[k] \in Tasks
      BY <1>5 DEF Inv, Flight
    <3>2. Running(inflight[k]) /\ tasks[inflight[k]].key = k
      BY <3>1, DetectionAssumption DEF Inv, Flight
    <3> QED  BY <1>2, <3>1, <3>2 DEF Running
  <2> QED  BY <1>5, <2>2, <2>3 DEF Flight, Running
<1>7. rq' = [r \in Requests |-> rq'[r]]
  BY DEF End, Wake
<1>8. \A r \in Requests : (RequestOK(rq[r]) /\ RequestTrue(rq[r]) /\ Waits(rq[r]))'
  <2> TAKE r \in Requests
  <2>1. CASE r \in Waiting(t)
    <3>1. rq'[r] = Idle
      BY <2>1 DEF End, Wake
    <3> QED  BY <3>1 DEF RequestOK, RequestTrue, Waits, Idle, Request, RequestStep
  <2>2. CASE r \notin Waiting(t)
    <3>1. rq'[r] = rq[r]
      BY <2>2 DEF End, Wake
    <3>2. rq[r].step = "wait" => rq[r].task \in Tasks /\ rq[r].task # t
      BY <2>2 DEF Waiting, At, Inv, RequestOK
    <3> QED  BY <1>2, <3>1, <3>2 DEF Inv, RequestOK, RequestTrue, Waits, Running, outside, Truth
  <2> QED  BY <2>1, <2>2
<1> QED  BY <1>1, <1>2, <1>4, <1>6, <1>7, <1>8 DEF Inv

\* A verdict is written, and one request moves.
LEMMA VerdictMoves ==
    ASSUME Inv, NEW r \in Requests, NEW new,
           RequestOK(new), RequestTrue(new), Waits(new),
           rq' = [rq EXCEPT ![r] = new],
           Stored', VerdictTrue', UNCHANGED <<outside, inflight, tasks>>
    PROVE  Inv'
<1>1. Outside' /\ Flight'
  BY DEF Inv, Outside, Flight, outside, Running
<1>2. tasks' = [t \in Tasks |-> tasks'[t]] /\ \A t \in Tasks : (TaskOK(tasks[t]) /\ TaskTrue(tasks[t]))'
  BY DEF Inv, TaskOK, TaskTrue, outside
<1>3. rq' = [q \in Requests |-> rq'[q]]
  BY DEF Inv
<1>4. \A q \in Requests : (RequestOK(rq[q]) /\ RequestTrue(rq[q]) /\ Waits(rq[q]))'
  BY DEF Inv, RequestOK, RequestTrue, Waits, Running, outside, Truth
<1> QED  BY <1>1, <1>2, <1>3, <1>4 DEF Inv

\* An upsert stores a record, and a true one when it is true of its Riot ID.
LEMMA UpsertStores ==
    ASSUME Inv, NEW k \in Keys, NEW rec \in Record, Upsert(k, rec),
           moves = 0 => rec.candidates = Truth(k), UNCHANGED outside
    PROVE  Stored' /\ VerdictTrue'
<1> DEFINE kept == IF Row(k) = None THEN rec ELSE [rec EXCEPT !.id = Row(k).id]
<1>1. kept \in Record /\ kept.candidates = rec.candidates
  BY DEF Inv, Stored, Row, Record, Ambiguous
<1>2. verdict' = [verdict EXCEPT ![k] = kept]
  BY DEF Upsert
<1>3. Stored'
  BY <1>1, <1>2 DEF Inv, Stored
<1>4. VerdictTrue'
  BY <1>1, <1>2 DEF Inv, Stored, VerdictTrue, Row, Truth, outside
<1> QED  BY <1>3, <1>4

\* A request starts the detection of a Riot ID that has none, and waits for it.
LEMMA TaskStarts ==
    ASSUME Inv, NEW t \in Tasks, NEW k \in Keys, NEW r \in Requests,
           ~Running(t), inflight[k] = None,
           NEW new \in Request, new.step = "wait", new.key = k, new.task = t,
           tasks' = [tasks EXCEPT ![t] =
                       [NoTask EXCEPT !.step = "account", !.key = k, !.region = 1]],
           inflight' = [inflight EXCEPT ![k] = t],
           rq' = [rq EXCEPT ![r] = new],
           UNCHANGED <<outside, verdict>>
    PROVE  Inv'
<1> DEFINE task == [NoTask EXCEPT !.step = "account", !.key = k, !.region = 1]
<1>1. Outside' /\ Stored' /\ VerdictTrue'
  BY DEF Inv, Outside, Stored, VerdictTrue, outside, Row, Truth
<1>2. TaskOK(task)' /\ TaskTrue(task)' /\ task.step = "account" /\ task.key = k
  <2>1. 1 \in 1..NumRegions /\ 1 \in 0..NumRegions
    BY DetectionAssumption
  <2>2. task \in Task /\ task.step = "account" /\ task.key = k /\ task.region = 1
        /\ task.probes = NoProbes
    BY <2>1, DetectionAssumption DEF NoTask, Task, NoProbes, ProbeState
  <2> QED  BY <2>1, <2>2 DEF TaskOK, TaskTrue
<1>3. /\ tasks' = [u \in Tasks |-> tasks'[u]]
      /\ \A u \in Tasks : tasks'[u] = IF u = t THEN task ELSE tasks[u]
  BY DEF Inv
<1> HIDE DEF task
<1>4. \A u \in Tasks : (TaskOK(tasks[u]) /\ TaskTrue(tasks[u]))'
  <2> TAKE u \in Tasks
  <2>1. CASE u = t
    BY <1>2, <1>3, <2>1
  <2>2. CASE u # t
    <3>1. tasks'[u] = tasks[u] /\ TaskOK(tasks[u]) /\ TaskTrue(tasks[u])
      BY <1>3, <2>2 DEF Inv
    <3> QED  BY <3>1 DEF TaskOK, TaskTrue, outside
  <2> QED  BY <2>1, <2>2
<1>5. Flight'
  <2>1. /\ inflight' \in [Keys -> Tasks \cup {None}]
        /\ \A j \in Keys : inflight'[j] = IF j = k THEN t ELSE inflight[j]
    BY DEF Inv, Flight
  <2>2. \A u \in Tasks : Running(u)' => inflight'[tasks'[u].key] = u
    <3> TAKE u \in Tasks
    <3> HAVE Running(u)'
    <3>1. CASE u = t
      BY <1>2, <1>3, <2>1, <3>1
    <3>2. CASE u # t
      <4>1. tasks'[u] = tasks[u] /\ Running(u)
        BY <1>3, <3>2 DEF Running
      <4>2. tasks[u].key \in Keys /\ inflight[tasks[u].key] = u
        BY <4>1 DEF Inv, Flight, TaskOK, Running
      <4>3. tasks[u].key # k
        BY <4>2, DetectionAssumption
      <4> QED  BY <2>1, <4>1, <4>2, <4>3
    <3> QED  BY <3>1, <3>2
  <2>3. \A j \in Keys : inflight'[j] # None =>
          Running(inflight[j])' /\ tasks'[inflight'[j]].key = j
    <3> TAKE j \in Keys
    <3> HAVE inflight'[j] # None
    <3>1. CASE j = k
      BY <1>2, <1>3, <2>1, <3>1 DEF Running
    <3>2. CASE j # k
      <4>1. inflight'[j] = inflight[j] /\ inflight[j] \in Tasks
        BY <2>1, <3>2 DEF Inv, Flight
      <4>2. Running(inflight[j]) /\ tasks[inflight[j]].key = j
        BY <2>1, <3>2, <4>1 DEF Inv, Flight
      <4> QED  BY <1>3, <4>1, <4>2 DEF Running
    <3> QED  BY <3>1, <3>2
  <2> QED  BY <2>1, <2>2, <2>3 DEF Flight, Running
<1>6. (RequestOK(new) /\ RequestTrue(new) /\ Waits(new))'
  BY <1>2, <1>3 DEF RequestOK, RequestTrue, Waits, Running
<1>7. /\ rq' = [p \in Requests |-> rq'[p]]
      /\ \A p \in Requests : rq'[p] = IF p = r THEN new ELSE rq[p]
  BY DEF Inv
<1>8. \A p \in Requests : (RequestOK(rq[p]) /\ RequestTrue(rq[p]) /\ Waits(rq[p]))'
  <2> TAKE p \in Requests
  <2>1. CASE p = r
    BY <1>6, <1>7, <2>1 DEF RequestOK, RequestTrue, Waits, Running, Truth
  <2>2. CASE p # r
    <3>1. rq'[p] = rq[p]
      BY <1>7, <2>2
    <3>2. rq[p].step = "wait" => rq[p].task \in Tasks /\ rq[p].task # t
      BY DEF Inv, RequestOK, Waits
    <3> QED  BY <1>3, <3>1, <3>2 DEF Inv, RequestOK, RequestTrue, Waits, Running, outside, Truth
  <2> QED  BY <2>1, <2>2
<1> QED  BY <1>1, <1>3, <1>4, <1>5, <1>7, <1>8 DEF Inv

-----------------------------------------------------------------------------
(* Each action *)

LEMMA StepOfRequest ==
    ASSUME Inv, NEW r \in Requests, RequestStepOf(r)
    PROVE  Inv'
<1> DEFINE q == rq[r]
<1>0. /\ RequestOK(q) /\ RequestTrue(q) /\ Waits(q)
      /\ q \in Request
  BY DEF Inv, RequestOK
<1>1. CASE ReadMiss(r)
  <2> DEFINE new == [q EXCEPT !.step = "join"]
  <2>1. RequestOK(new) /\ RequestTrue(new) /\ Waits(new)
    BY <1>0, <1>1 DEF ReadMiss, At, RequestOK, RequestTrue, Waits, Request, RequestStep
  <2>2. rq' = [rq EXCEPT ![r] = new]
    BY <1>1 DEF ReadMiss
  <2> QED  BY <1>1, <2>1, <2>2, RequestMoves DEF ReadMiss
<1>2. CASE ReadHit(r)
  BY <1>2, IdleIsOK, RequestMoves DEF ReadHit, Answer
<1>3. CASE ReadLapsed(r)
  <2> DEFINE new == [q EXCEPT !.step = "renew", !.rec = Row(q.key)]
  <2>1. q.key \in Keys /\ Row(q.key) # None /\ Ambiguous(Row(q.key))
    BY <1>0, <1>3 DEF ReadLapsed, At, RequestOK, Fresh
  <2>2. Row(q.key) \in Record /\ (moves = 0 => Row(q.key).candidates = Truth(q.key))
    BY <2>1 DEF Inv, Stored, VerdictTrue, Row
  <2>3. new \in Request /\ new.step = "renew" /\ new.key = q.key /\ new.rec = Row(q.key)
    BY <1>0, <2>2 DEF Request, RequestStep
  <2>4. RequestOK(new) /\ RequestTrue(new) /\ Waits(new)
    BY <2>1, <2>2, <2>3 DEF RequestOK, RequestTrue, Waits
  <2>5. rq' = [rq EXCEPT ![r] = new]
    BY <1>3 DEF ReadLapsed
  <2> QED  BY <1>3, <2>4, <2>5, RequestMoves DEF ReadLapsed
<1>4. CASE Renew(r)
  <2> DEFINE rec == [q.rec EXCEPT !.conf = TRUE]
  <2>1. q.key \in Keys /\ q.rec \in Record /\ Ambiguous(q.rec)
    BY <1>0, <1>4 DEF Renew, At, RequestOK
  <2>2. moves = 0 => q.rec.candidates = Truth(q.key)
    BY <1>0, <1>4 DEF Renew, At, RequestTrue
  <2>3. rec \in Record /\ rec.candidates = q.rec.candidates
    BY <2>1 DEF Record, Ambiguous
  <2>4. Stored' /\ VerdictTrue'
    BY <1>4, <2>1, <2>2, <2>3, UpsertStores DEF Renew
  <2> QED  BY <1>4, <2>4, IdleIsOK, VerdictMoves DEF Renew, Answer
<1>5. CASE Join(r)
  <2> DEFINE new == [q EXCEPT !.step = "wait", !.task = inflight[q.key]]
  <2>1. q.key \in Keys /\ inflight[q.key] # None
    BY <1>0, <1>5 DEF Join, At, RequestOK
  <2>2. /\ inflight[q.key] \in Tasks /\ Running(inflight[q.key])
        /\ tasks[inflight[q.key]].key = q.key
    BY <2>1 DEF Inv, Flight
  <2>3. /\ new \in Request /\ new.step = "wait" /\ new.key = q.key
        /\ new.task = inflight[q.key]
    BY <1>0, <2>2 DEF Request, RequestStep
  <2>4. RequestOK(new) /\ RequestTrue(new) /\ Waits(new)
    BY <2>1, <2>2, <2>3 DEF RequestOK, RequestTrue, Waits
  <2>5. rq' = [rq EXCEPT ![r] = new]
    BY <1>5 DEF Join
  <2> QED  BY <1>5, <2>4, <2>5, RequestMoves DEF Join
<1>6. CASE ConfirmRead(r)
  <2>1. CASE Answer(r)
    BY <1>6, <2>1, IdleIsOK, RequestMoves DEF ConfirmRead, Answer
  <2>2. CASE \E k \in Confirmable(q.id) :
               /\ q.platform \in Row(k).candidates
               /\ rq' = [rq EXCEPT ![r].step = "summoner", ![r].key = k,
                                   ![r].puuid = Row(k).puuid]
    <3>1. PICK k \in Keys :
            /\ Row(k) # None
            /\ rq' = [rq EXCEPT ![r].step = "summoner", ![r].key = k,
                                ![r].puuid = Row(k).puuid]
      BY <2>2 DEF Confirmable, Fresh
    <3> DEFINE new == [q EXCEPT !.step = "summoner", !.key = k, !.puuid = Row(k).puuid]
    <3>2. Row(k).puuid \in Puuids \cup {None} /\ q.id \in Ids
      BY <1>0, <1>6, <3>1 DEF Inv, Stored, Row, Record, ConfirmRead, At, RequestOK
    <3>3. new \in Request /\ new.step = "summoner" /\ new.key = k /\ new.id = q.id
      BY <1>0, <3>2 DEF Request, RequestStep
    <3>4. RequestOK(new) /\ RequestTrue(new) /\ Waits(new)
      BY <3>2, <3>3 DEF RequestOK, RequestTrue, Waits
    <3>5. rq' = [rq EXCEPT ![r] = new]
      BY <3>1
    <3> QED  BY <1>6, <3>4, <3>5, RequestMoves DEF ConfirmRead
  <2> QED  BY <1>6, <2>1, <2>2 DEF ConfirmRead
<1>7. CASE ConfirmCall(r)
  <2>1. CASE Answer(r)
    BY <1>7, <2>1, IdleIsOK, RequestMoves DEF ConfirmCall, Answer
  <2>2. CASE rq' = [rq EXCEPT ![r].step = "delete"]
    <3> DEFINE new == [q EXCEPT !.step = "delete"]
    <3>1. RequestOK(new) /\ RequestTrue(new) /\ Waits(new)
      BY <1>0, <1>7 DEF ConfirmCall, At, RequestOK, RequestTrue, Waits, Request, RequestStep
    <3>2. rq' = [rq EXCEPT ![r] = new]
      BY <2>2
    <3> QED  BY <1>7, <3>1, <3>2, RequestMoves DEF ConfirmCall
  <2> QED  BY <1>7, <2>1, <2>2 DEF ConfirmCall
<1>8. CASE ConfirmDelete(r)
  <2> DEFINE new == [Idle EXCEPT !.step = "read", !.key = q.key]
  <2>1. q.key \in Keys
    BY <1>0, <1>8 DEF ConfirmDelete, At, RequestOK
  <2>2. RequestOK(new) /\ RequestTrue(new) /\ Waits(new)
    BY <2>1 DEF RequestOK, RequestTrue, Waits, Idle, Request, RequestStep
  <2>3. Stored' /\ VerdictTrue'
    BY <1>8 DEF ConfirmDelete, Inv, Stored, VerdictTrue, Row, Truth, outside
  <2> QED  BY <1>8, <2>2, <2>3, VerdictMoves DEF ConfirmDelete
<1>9. CASE Lead(r)
  <2> DEFINE t == CHOOSE free \in Tasks : ~Running(free)
             new == [q EXCEPT !.step = "wait", !.task = t]
  <2>1. t \in Tasks /\ ~Running(t) /\ q.key \in Keys /\ inflight[q.key] = None
    BY <1>0, <1>9 DEF Lead, At, RequestOK
  <2>2. new \in Request /\ new.step = "wait" /\ new.key = q.key /\ new.task = t
    <3> HIDE DEF t
    <3>1. q \in Request /\ t \in Tasks
      BY <1>0, <2>1 DEF RequestOK
    <3> QED  BY <3>1 DEF Request, RequestStep
  <2>3. /\ tasks' = [tasks EXCEPT ![t] =
                       [NoTask EXCEPT !.step = "account", !.key = q.key, !.region = 1]]
        /\ inflight' = [inflight EXCEPT ![q.key] = t]
        /\ rq' = [rq EXCEPT ![r] = new]
        /\ UNCHANGED <<outside, verdict>>
    BY <1>9 DEF Lead
  <2> HIDE DEF t, new, q
  <2> QED  BY <2>1, <2>2, <2>3, TaskStarts
<1> QED  BY <1>1, <1>2, <1>3, <1>4, <1>5, <1>6, <1>7, <1>8, <1>9 DEF RequestStepOf

LEMMA StepOfAccount ==
    ASSUME Inv, NEW t \in Tasks, AccountAnswer(t)
    PROVE  Inv'
<1> DEFINE task == tasks[t]
<1>0. /\ TaskOK(task) /\ TaskTrue(task) /\ task \in Task /\ Running(t)
      /\ task.key \in Keys /\ task.region \in 1..NumRegions /\ task.probes = NoProbes
      /\ owner[task.key] \in Puuids \cup {None}
      /\ UNCHANGED <<outside, verdict>>
  BY DEF Inv, TaskOK, Outside, AccountAnswer, Running
<1>1. PICK code \in Answers(owner[task.key] # None) :
         \/ /\ code = "OK"
            /\ tasks' = [tasks EXCEPT ![t].step = "probe", ![t].puuid = owner[task.key],
                           ![t].probes = [p \in Platforms |-> "queued"]]
            /\ UNCHANGED <<inflight, rq>>
         \/ /\ code = "NOT_FOUND" /\ task.region < NumRegions
            /\ tasks' = [tasks EXCEPT ![t].region = @ + 1]
            /\ UNCHANGED <<inflight, rq>>
         \/ /\ code = "NOT_FOUND" /\ task.region = NumRegions
            /\ tasks' = [tasks EXCEPT ![t].step = "missing"]
            /\ UNCHANGED <<inflight, rq>>
         \/ code \in Failures /\ End(t)
  BY DEF AccountAnswer
<1>2. code = "OK" => owner[task.key] \in Puuids
  BY <1>0, CodesAreKinds DEF Answers
<1>3. code = "NOT_FOUND" => owner[task.key] = None
  BY <1>0, CodesAreKinds DEF Answers
<1>4. CASE /\ code = "OK"
           /\ tasks' = [tasks EXCEPT ![t].step = "probe", ![t].puuid = owner[task.key],
                          ![t].probes = [p \in Platforms |-> "queued"]]
           /\ UNCHANGED <<inflight, rq>>
  <2> DEFINE new == [task EXCEPT !.step = "probe", !.puuid = owner[task.key],
                                 !.probes = [p \in Platforms |-> "queued"]]
  <2>1. /\ new \in Task /\ new.step = "probe" /\ new.key = task.key
        /\ new.region = task.region /\ new.puuid = owner[task.key]
        /\ \A p \in Platforms : new.probes[p] = "queued"
    BY <1>0, <1>2, <1>4 DEF Task, ProbeState
  <2>2. TaskOK(new) /\ TaskTrue(new)
    BY <1>0, <1>2, <1>4, <2>1 DEF TaskOK, TaskTrue
  <2>3. tasks' = [tasks EXCEPT ![t] = new]
    BY <1>4
  <2> HIDE DEF new
  <2> QED  BY <1>0, <1>4, <2>1, <2>2, <2>3, TaskMoves
<1>5. CASE /\ code = "NOT_FOUND" /\ task.region < NumRegions
           /\ tasks' = [tasks EXCEPT ![t].region = @ + 1]
           /\ UNCHANGED <<inflight, rq>>
  <2> DEFINE new == [task EXCEPT !.region = @ + 1]
  <2>1. task.region + 1 \in 1..NumRegions /\ task.region + 1 \in 0..NumRegions
    BY <1>0, <1>5, DetectionAssumption
  <2>2. /\ new \in Task /\ new.step = "account" /\ new.key = task.key
        /\ new.region = task.region + 1 /\ new.probes = NoProbes
    BY <1>0, <2>1 DEF Task, AccountAnswer
  <2>3. TaskOK(new) /\ TaskTrue(new)
    BY <1>0, <2>1, <2>2 DEF TaskOK, TaskTrue
  <2>4. tasks' = [tasks EXCEPT ![t] = new]
    BY <1>5
  <2> HIDE DEF new
  <2> QED  BY <1>0, <1>5, <2>2, <2>3, <2>4, TaskMoves
<1>6. CASE /\ code = "NOT_FOUND" /\ task.region = NumRegions
           /\ tasks' = [tasks EXCEPT ![t].step = "missing"]
           /\ UNCHANGED <<inflight, rq>>
  <2> DEFINE new == [task EXCEPT !.step = "missing"]
  <2>1. /\ new \in Task /\ new.step = "missing" /\ new.key = task.key
        /\ new.region = task.region /\ new.probes = NoProbes
    BY <1>0 DEF Task
  <2>2. TaskOK(new) /\ TaskTrue(new)
    BY <1>0, <1>3, <1>6, <2>1 DEF TaskOK, TaskTrue
  <2>3. tasks' = [tasks EXCEPT ![t] = new]
    BY <1>6
  <2> HIDE DEF new
  <2> QED  BY <1>0, <1>6, <2>1, <2>2, <2>3, TaskMoves
<1>7. CASE End(t)
  <2>1. Stored' /\ VerdictTrue'
    BY <1>0 DEF Inv, Stored, VerdictTrue, Row, Truth, outside
  <2> QED  BY <1>0, <1>7, <2>1, TaskEnds
<1> QED  BY <1>1, <1>4, <1>5, <1>6, <1>7

\* What a probe answers, while the world stands still, is so.
LEMMA StepOfProbe ==
    ASSUME Inv, NEW t \in Tasks, NEW p \in Platforms,
           ProbeStart(t, p) \/ ProbeAnswer(t, p)
    PROVE  Inv'
<1> DEFINE task == tasks[t]
           there == p \in lives[task.puuid]
<1>0. /\ TaskOK(task) /\ TaskTrue(task) /\ task \in Task /\ Running(t)
      /\ task.step = "probe" /\ task.key \in Keys /\ task.puuid \in Puuids
      /\ task.region \in 1..NumRegions
      /\ task.probes \in [Platforms -> ProbeState]
      /\ UNCHANGED <<outside, verdict>>
  BY DEF Inv, TaskOK, ProbeStart, ProbeAnswer, Running, Task
<1>1. ASSUME NEW state \in {"asked", "found", "absent"},
             state = "found" => there, state = "absent" => ~there,
             tasks' = [tasks EXCEPT ![t].probes[p] = state],
             UNCHANGED <<inflight, rq>>
      PROVE  Inv'
  <2> DEFINE new == [task EXCEPT !.probes[p] = state]
  <2>1. /\ new \in Task /\ new.step = "probe" /\ new.key = task.key
        /\ new.region = task.region /\ new.puuid = task.puuid
        /\ new.probes = [task.probes EXCEPT ![p] = state]
    BY <1>0 DEF Task, ProbeState
  <2>2. TaskOK(new)
    BY <1>0, <2>1 DEF TaskOK
  <2>3. \A r \in Platforms : new.probes[r] = IF r = p THEN state ELSE task.probes[r]
    BY <1>0, <2>1
  <2>4. TaskTrue(new)
    BY <1>0, <1>1, <2>1, <2>3 DEF TaskTrue
  <2>5. tasks' = [tasks EXCEPT ![t] = new]
    BY <1>0, <1>1
  <2> HIDE DEF new
  <2> QED  BY <1>0, <1>1, <2>1, <2>2, <2>4, <2>5, TaskMoves
<1>2. CASE ProbeStart(t, p)
  BY <1>1, <1>2 DEF ProbeStart
<1>3. CASE ProbeAnswer(t, p)
  <2>1. PICK code \in Answers(there) :
           \/ /\ code = "OK"
              /\ tasks' = [tasks EXCEPT ![t].probes[p] = "found"]
              /\ UNCHANGED <<inflight, rq>>
           \/ /\ Absent(code)
              /\ tasks' = [tasks EXCEPT ![t].probes[p] = "absent"]
              /\ UNCHANGED <<inflight, rq>>
           \/ code # "OK" /\ ~Absent(code) /\ End(t)
    BY <1>3 DEF ProbeAnswer
  <2>2. (code = "OK" => there) /\ (Absent(code) => ~there)
    BY CodesAreKinds DEF Answers, Absent
  <2>3. CASE End(t)
    <3>1. Stored' /\ VerdictTrue'
      BY <1>0 DEF Inv, Stored, VerdictTrue, Row, Truth, outside
    <3> QED  BY <1>0, <2>3, <3>1, TaskEnds
  <2> QED  BY <1>1, <2>1, <2>2, <2>3
<1> QED  BY <1>2, <1>3

\* A detection that is over stores a record that __post_init__ accepts.
LEMMA StepOfStore ==
    ASSUME Inv, NEW t \in Tasks, StoreVerdict(t)
    PROVE  Inv'
<1> DEFINE task == tasks[t]
           new == Verdict(t, NewId)
<1>0. /\ TaskOK(task) /\ TaskTrue(task) /\ task \in Task /\ Running(t)
      /\ task.key \in Keys
      /\ Upsert(task.key, new) /\ End(t) /\ UNCHANGED outside
      /\ Row(task.key) # None \/ Ids \ KnownIds # {}
  BY DEF Inv, TaskOK, StoreVerdict, Running
<1>1. NewId \in Ids
  <2>1. Row(task.key) # None => Row(task.key).id \in Ids
    BY <1>0 DEF Inv, Stored, Row, Record
  <2>2. \E id \in Ids : Ids \subseteq KnownIds \/ id \notin KnownIds
    BY <1>0, <2>1
  <2> QED  BY <2>2 DEF NewId
<1>2. Found(t) \subseteq Platforms
  BY DEF Found
<1>3. Found(t) # {} => task.step = "probe"
  BY <1>0 DEF Found, TaskOK, NoProbes
<1>4. Found(t) # {} => task.puuid \in Puuids /\ task.puuid # None
  BY <1>0, <1>3, DetectionAssumption DEF TaskOK
<1>5. new.candidates = Found(t)
  BY DEF Verdict
<1>6. new \in Record
  <2>1. Cardinality(Found(t)) > 1 => Found(t) # {}
    <3> SUFFICES ASSUME Found(t) = {} PROVE ~(Cardinality(Found(t)) > 1)
      OBVIOUS
    <3> QED  BY FS_EmptySet
  <2>2. (Cardinality(Found(t)) > 1) \in BOOLEAN
    BY SMT
  <2> DEFINE big == Cardinality(Found(t)) > 1
             puuid == IF Found(t) = {} THEN None ELSE task.puuid
  <2>3. new = [id |-> NewId, puuid |-> puuid, candidates |-> Found(t), fresh |-> TRUE, conf |-> big]
    BY DEF Verdict
  <2>4. puuid \in Puuids \cup {None} /\ (puuid = None <=> Found(t) = {})
    BY <1>4
  <2>5. new \in [id : Ids, puuid : Puuids \cup {None}, candidates : SUBSET Platforms,
                 fresh : BOOLEAN, conf : BOOLEAN]
    BY <1>1, <1>2, <2>2, <2>3, <2>4
  <2>6. new.puuid = puuid /\ new.candidates = Found(t) /\ new.conf = big
    BY <2>3
  <2> QED  BY <2>4, <2>5, <2>6 DEF Record, Ambiguous
<1>7. moves = 0 => Found(t) = Truth(task.key)
  <2> SUFFICES ASSUME moves = 0 PROVE Found(t) = Truth(task.key)
    OBVIOUS
  <2>1. CASE task.step = "missing"
    BY <1>0, <1>3, <2>1 DEF TaskTrue, Truth
  <2>2. CASE task.step = "probe" /\ Answered(t)
    <3>1. owner[task.key] = task.puuid /\ task.puuid \in Puuids /\ task.puuid # None
      BY <1>0, <2>2, DetectionAssumption DEF TaskTrue, TaskOK
    <3>2. lives[task.puuid] \subseteq Platforms
      BY <3>1 DEF Inv, Outside
    <3>3. \A p \in Platforms : p \in Found(t) <=> p \in lives[task.puuid]
      BY <1>0, <2>2 DEF TaskTrue, Answered, Found
    <3> QED  BY <1>2, <3>1, <3>2, <3>3 DEF Truth
  <2> QED  BY <2>1, <2>2 DEF StoreVerdict
<1> HIDE DEF new
<1>8. Stored' /\ VerdictTrue'
  BY <1>0, <1>5, <1>6, <1>7, UpsertStores
<1> QED  BY <1>0, <1>8, TaskEnds

-----------------------------------------------------------------------------
LEMMA StepOfCaller ==
    ASSUME Inv, NEW r \in Requests,
           \/ \E k \in Keys : Detect(r, k)
           \/ \E id \in Ids, p \in Platforms : Confirm(r, id, p)
           \/ Cancel(r)
    PROVE  Inv'
<1>1. ASSUME NEW k \in Keys, Detect(r, k) PROVE Inv'
  <2> DEFINE new == [Idle EXCEPT !.step = "read", !.key = k]
  <2>1. RequestOK(new) /\ RequestTrue(new) /\ Waits(new)
    BY DEF RequestOK, RequestTrue, Waits, Idle, Request, RequestStep
  <2> QED  BY <1>1, <2>1, RequestMoves DEF Detect
<1>2. ASSUME NEW id \in Ids, NEW p \in Platforms, Confirm(r, id, p) PROVE Inv'
  <2> DEFINE new == [Idle EXCEPT !.step = "confirm", !.id = id, !.platform = p]
  <2>1. RequestOK(new) /\ RequestTrue(new) /\ Waits(new)
    BY DEF RequestOK, RequestTrue, Waits, Idle, Request, RequestStep
  <2> QED  BY <1>2, <2>1, RequestMoves DEF Confirm
<1>3. CASE Cancel(r)
  BY <1>3, IdleIsOK, RequestMoves DEF Cancel, Answer
<1> QED  BY <1>1, <1>2, <1>3

\* Rows age; requests keep what they read, which ages with it.
LEMMA StepOfClock ==
    ASSUME Inv, NEW k \in Keys, Expire(k) \/ Lapse(k)
    PROVE  Inv'
<1>0. Row(k) # None /\ Row(k) \in Record /\ UNCHANGED <<outside, inflight, tasks>>
  BY DEF Inv, Stored, Row, Expire, Lapse, Fresh
<1>1. Stored' /\ VerdictTrue'
  <2> DEFINE stale == [Row(k) EXCEPT !.fresh = FALSE, !.conf = FALSE]
             lapsed == [Row(k) EXCEPT !.conf = FALSE]
  <2>1. /\ stale \in Record /\ stale.candidates = Row(k).candidates
        /\ lapsed \in Record /\ lapsed.candidates = Row(k).candidates
    BY <1>0 DEF Record, Ambiguous
  <2>2. \/ verdict' = [verdict EXCEPT ![k] = stale]
        \/ verdict' = [verdict EXCEPT ![k] = lapsed]
    BY DEF Expire, Lapse, Row
  <2> QED  BY <1>0, <2>1, <2>2 DEF Inv, Stored, VerdictTrue, Row, Truth, outside
<1>2. Outside' /\ Flight'
  BY <1>0 DEF Inv, Outside, Flight, outside, Running
<1>3. tasks' = [t \in Tasks |-> tasks'[t]] /\ \A t \in Tasks : (TaskOK(tasks[t]) /\ TaskTrue(tasks[t]))'
  BY <1>0 DEF Inv, TaskOK, TaskTrue, outside
<1>4. rq' = [r \in Requests |-> rq'[r]]
  BY DEF Expire, Lapse, Inv
<1>5. \A r \in Requests : (RequestOK(rq[r]) /\ RequestTrue(rq[r]) /\ Waits(rq[r]))'
  <2> TAKE r \in Requests
  <2>1. CASE rq'[r] = rq[r]
    BY <1>0, <2>1 DEF Inv, RequestOK, RequestTrue, Waits, Running, Truth, outside
  <2>2. CASE rq[r].rec # None /\ rq'[r] = [rq[r] EXCEPT !.rec.fresh = FALSE]
    <3> DEFINE rec == [rq[r].rec EXCEPT !.fresh = FALSE]
    <3>1. rq[r] \in Request /\ rq[r].rec \in Record
      BY <2>2 DEF Inv, RequestOK, Request
    <3>2. rec \in Record /\ rec.candidates = rq[r].rec.candidates
      BY <3>1 DEF Record, Ambiguous
    <3>3. rq'[r] = [rq[r] EXCEPT !.rec = rec]
      BY <2>2, <3>1 DEF Request
    <3>4. /\ rq'[r] \in Request /\ rq'[r].rec = rec
          /\ rq'[r].step = rq[r].step /\ rq'[r].key = rq[r].key
          /\ rq'[r].task = rq[r].task /\ rq'[r].id = rq[r].id
          /\ rq'[r].platform = rq[r].platform
      BY <3>1, <3>2, <3>3 DEF Request
    <3> HIDE DEF rec
    <3>5. RequestOK(rq[r])'
      BY <3>2, <3>4 DEF Inv, RequestOK, Ambiguous
    <3>6. RequestTrue(rq[r])'
      BY <1>0, <3>2, <3>4 DEF Inv, RequestTrue, Truth, outside
    <3>7. Waits(rq[r])'
      BY <1>0, <3>4 DEF Inv, Waits, Running
    <3> QED  BY <3>5, <3>6, <3>7
  <2> QED  BY <2>1, <2>2 DEF Expire, Lapse
<1> QED  BY <1>0, <1>1, <1>2, <1>3, <1>4, <1>5 DEF Inv

\* Once the world outside has moved, nothing is said of what is true.
LEMMA StepOfWorld ==
    ASSUME Inv,
           \/ \E k \in Keys, puuid \in Puuids \cup {None} : Rename(k, puuid)
           \/ \E puuid \in Puuids, where \in SUBSET Platforms : Transfer(puuid, where)
    PROVE  Inv'
<1>1. moves' # 0 /\ moves' \in 0..MaxMoves /\ UNCHANGED <<verdict, inflight, tasks, rq>>
  BY DetectionAssumption DEF Inv, Outside, Rename, Transfer
<1>2. Outside'
  BY <1>1 DEF Inv, Outside, Rename, Transfer
<1>3. Stored' /\ VerdictTrue' /\ Flight'
  BY <1>1 DEF Inv, Stored, VerdictTrue, Flight, Running
<1>4. \A t \in Tasks : (TaskOK(tasks[t]) /\ TaskTrue(tasks[t]))'
  BY <1>1 DEF Inv, TaskOK, TaskTrue
<1>5. \A r \in Requests : (RequestOK(rq[r]) /\ RequestTrue(rq[r]) /\ Waits(rq[r]))'
  BY <1>1 DEF Inv, RequestOK, RequestTrue, Waits, Running
<1> QED  BY <1>1, <1>2, <1>3, <1>4, <1>5 DEF Inv

LEMMA NextInv == Inv /\ [Next]_vars => Inv'
<1> SUFFICES ASSUME Inv, [Next]_vars PROVE Inv'
  OBVIOUS
<1>1. ASSUME NEW r \in Requests, NEW k \in Keys, Detect(r, k) PROVE Inv'
  BY <1>1, StepOfCaller
<1>2. ASSUME NEW r \in Requests, NEW id \in Ids, NEW p \in Platforms, Confirm(r, id, p)
      PROVE  Inv'
  BY <1>2, StepOfCaller
<1>3. ASSUME NEW r \in Requests, RequestStepOf(r) \/ Cancel(r) PROVE Inv'
  BY <1>3, StepOfRequest, StepOfCaller
<1>4. ASSUME NEW t \in Tasks, DetectionStep(t) PROVE Inv'
  BY <1>4, StepOfAccount, StepOfProbe, StepOfStore DEF DetectionStep
<1>5. ASSUME NEW k \in Keys, Expire(k) \/ Lapse(k) PROVE Inv'
  BY <1>5, StepOfClock
<1>6. CASE \/ \E k \in Keys, puuid \in Puuids \cup {None} : Rename(k, puuid)
           \/ \E puuid \in Puuids, where \in SUBSET Platforms : Transfer(puuid, where)
  BY <1>6, StepOfWorld
<1>7. CASE UNCHANGED vars
  <2>1. UNCHANGED <<outside, verdict, inflight, tasks, rq>>
    BY <1>7 DEF vars, outside
  <2>2. Outside' /\ Stored' /\ VerdictTrue' /\ Flight'
    BY <2>1 DEF Inv, Outside, Stored, VerdictTrue, Flight, outside, Row, Truth, Running
  <2> QED
    BY <2>1, <2>2 DEF Inv, TaskOK, TaskTrue, RequestOK, RequestTrue, Waits, Running, outside, Truth
<1> QED  BY <1>1, <1>2, <1>3, <1>4, <1>5, <1>6, <1>7 DEF Next

LEMMA InvHolds == Spec => []Inv
BY InitInv, NextInv, PTL DEF Spec

\* Of a Riot ID there is one detection at most, whoever comes, goes or waits.
THEOREM DetectionIsSingle == Spec => []SingleFlight
BY InvHolds, InvGivesProperties, PTL

\* What is stored of a Riot ID is what Riot would say of it.
THEOREM VerdictsAreTrue == Spec => []VerdictIsTrue
BY InvHolds, InvGivesProperties, PTL

\* Tasks, the single-flight registry and the rows keep their shapes, whoever
\* renews, deletes or cancels: no row without a verdict, no task without a caller
\* that left it half done (platform_detection.py:127-220).
THEOREM DetectionTypes == Spec => []TypeOK
BY InvHolds, InvGivesProperties, PTL

-----------------------------------------------------------------------------
(* Shared detections.  What a step means to SharedWork is found from what it   *)
(* does to the steps and Riot IDs of tasks and requests.                       *)

Stutters == Detecting' = Detecting /\ Awaited' = Awaited

TasksStay == \A t \in Tasks :
    (Running(t)' <=> Running(t)) /\ (Running(t) => tasks'[t].key = tasks[t].key)

LEMMA DetectingStays == ASSUME TasksStay PROVE Detecting' = Detecting
BY DEF TasksStay, Detecting

\* What runs is known by its Riot ID, and what is awaited runs.
LEMMA WhatIsDetected ==
    ASSUME Inv
    PROVE  /\ Detecting \subseteq Keys
           /\ \A t \in Tasks : Running(t) => tasks[t].key \in Detecting
           /\ \A k \in Detecting : inflight[k] \in Tasks
           /\ \A t, u \in Tasks : Running(t) /\ Running(u) /\ tasks[t].key = tasks[u].key
                                  => t = u
           /\ \A r \in Requests : At(r, "wait") => rq[r].key \in Detecting
<1>1. \A t \in Tasks : Running(t) => tasks[t].key \in Keys /\ inflight[tasks[t].key] = t
  BY DEF Inv, TaskOK, Flight, Running
<1>2. \A r \in Requests : At(r, "wait") =>
         rq[r].task \in Tasks /\ Running(rq[r].task) /\ tasks[rq[r].task].key = rq[r].key
  BY DEF Inv, RequestOK, Waits, At
<1>. QED BY <1>1, <1>2 DEF Detecting

\* One request moves.
LEMMA AwaitedMoves ==
    ASSUME Inv, NEW r \in Requests, NEW new, rq' = [rq EXCEPT ![r] = new]
    PROVE  Awaited' = [Awaited EXCEPT ![r] = IF new.step = "wait" THEN {new.key} ELSE {}]
<1> DEFINE awaits == IF new.step = "wait" THEN {new.key} ELSE {}
           after == [Awaited EXCEPT ![r] = awaits]
<1>1. \A q \in Requests : rq'[q] = IF q = r THEN new ELSE rq[q]
  BY DEF Inv
<1>2. \A q \in Requests : Awaited'[q] = IF q = r THEN awaits ELSE Awaited[q]
  BY <1>1 DEF Awaited, At
<1>3. \A q \in Requests : after[q] = IF q = r THEN awaits ELSE Awaited[q]
  BY DEF Awaited
<1>4. Awaited' = [q \in Requests |-> Awaited'[q]] /\ after = [q \in Requests |-> after[q]]
  BY DEF Awaited
<1> HIDE DEF awaits, after
<1>5. Awaited' = after
  BY <1>2, <1>3, <1>4
<1>. QED BY <1>5 DEF after, awaits

\* Whatever a request does but join or lead, it is not left waiting.
LEMMA RequestLeaves ==
    ASSUME Inv, NEW r \in Requests, NEW new, new.step # "wait",
           rq' = [rq EXCEPT ![r] = new], UNCHANGED tasks
    PROVE  Shared!Next
<1>1. Awaited' = [Awaited EXCEPT ![r] = {}]
  BY AwaitedMoves
<1>2. Detecting' = Detecting
  BY DetectingStays DEF TasksStay, Running
<1>. QED BY <1>1, <1>2 DEF Shared!Next, Shared!GiveUp

\* To join is to ask for what runs; to lead, to start it.
LEMMA JoinAsks ==
    ASSUME Inv, NEW r \in Requests, Join(r)
    PROVE  Shared!Next
<1> DEFINE k == rq[r].key
           new == [rq[r] EXCEPT !.step = "wait", !.task = inflight[k]]
<1>1. k \in Keys /\ inflight[k] # None /\ rq[r] \in Request /\ ~At(r, "wait")
  BY DEF Join, At, Inv, RequestOK
<1>2. rq' = [rq EXCEPT ![r] = new] /\ new.step = "wait" /\ new.key = k
  BY <1>1 DEF Join, Request
<1> HIDE DEF new
<1>3. Awaited' = [Awaited EXCEPT ![r] = {k}] /\ Awaited[r] = {}
  <2>1. Awaited' = [Awaited EXCEPT ![r] = {k}]
    BY <1>2, AwaitedMoves
  <2>. QED BY <1>1, <2>1 DEF Awaited
<1>4. Detecting' = Detecting
  BY DetectingStays DEF TasksStay, Running, Join
<1>5. k \in Detecting
  BY <1>1 DEF Inv, Flight, Detecting
<1>6. {} \in SUBSET Keys /\ {k} \in SUBSET Keys /\ Shared!Ask(r, {}, {k})
  BY <1>1, <1>3, <1>4, <1>5 DEF Shared!Ask
<1>. QED BY <1>6 DEF Shared!Next

LEMMA LeadAsks ==
    ASSUME Inv, NEW r \in Requests, Lead(r)
    PROVE  Shared!Next
<1> DEFINE k == rq[r].key
           t == CHOOSE free \in Tasks : ~Running(free)
           new == [rq[r] EXCEPT !.step = "wait", !.task = t]
           task == [NoTask EXCEPT !.step = "account", !.key = k, !.region = 1]
<1>1. /\ k \in Keys /\ inflight[k] = None /\ rq[r] \in Request /\ ~At(r, "wait")
      /\ t \in Tasks /\ ~Running(t)
  BY DEF Lead, At, Inv, RequestOK
<1>2. task.step = "account" /\ task.key = k
  BY DEF NoTask
<1>3. rq' = [rq EXCEPT ![r] = new] /\ tasks' = [tasks EXCEPT ![t] = task]
  BY DEF Lead
<1>4. new.step = "wait" /\ new.key = k
  BY <1>1 DEF Request
<1> HIDE DEF new, t, task
<1>5. Awaited' = [Awaited EXCEPT ![r] = {k}] /\ Awaited[r] = {}
  <2>1. Awaited' = [Awaited EXCEPT ![r] = {k}]
    BY <1>3, <1>4, AwaitedMoves
  <2>. QED BY <1>1, <2>1 DEF Awaited
<1>6. \A u \in Tasks : tasks'[u] = IF u = t THEN task ELSE tasks[u]
  BY <1>3 DEF Inv
<1>7. Detecting' = Detecting \cup {k}
  BY <1>1, <1>2, <1>6 DEF Detecting, Running
<1>8. k \notin Detecting
  BY <1>1, WhatIsDetected, DetectionAssumption
<1>9. {k} \in SUBSET Keys /\ Shared!Ask(r, {k}, {k})
  BY <1>1, <1>5, <1>7, <1>8 DEF Shared!Ask
<1>. QED BY <1>9 DEF Shared!Next

\* The end of a detection answers all who wait for its Riot ID.
LEMMA EndEnds ==
    ASSUME Inv, NEW t \in Tasks, Running(t), End(t)
    PROVE  Shared!Next
<1> DEFINE k == tasks[t].key
<1>1. k \in Keys /\ k \in Detecting
  BY WhatIsDetected
<1>2. \A u \in Tasks : tasks'[u] = IF u = t THEN NoTask ELSE tasks[u]
  BY DEF End, Inv
<1>3. Detecting' = Detecting \ {k}
  BY <1>2, WhatIsDetected DEF Detecting, Running, NoTask
<1>4. \A r \in Requests : Awaited'[r] = Awaited[r] \ {k}
  <2>. TAKE r \in Requests
  <2>1. At(r, "wait") => /\ rq[r].task \in Tasks /\ Running(rq[r].task)
                         /\ tasks[rq[r].task].key = rq[r].key
    BY DEF Inv, RequestOK, Waits, At
  <2>2. CASE r \in Waiting(t)
    <3>1. rq'[r] = Idle /\ Awaited[r] = {k}
      BY <2>1, <2>2 DEF End, Wake, Waiting, Awaited
    <3>. QED BY <3>1 DEF Awaited, At, Idle
  <2>3. CASE r \notin Waiting(t)
    <3>1. rq'[r] = rq[r]
      BY <2>3 DEF End, Wake
    <3>2. At(r, "wait") => rq[r].key # k
      BY <2>1, <2>3, WhatIsDetected DEF Waiting
    <3>. QED BY <3>1, <3>2 DEF Awaited, At
  <2>. QED BY <2>2, <2>3
<1>5. Awaited' = [r \in Requests |-> Awaited'[r]]
  BY DEF Awaited
<1>6. Shared!End(k, FALSE)
  BY <1>1, <1>3, <1>4, <1>5 DEF Shared!End
<1>. QED BY <1>1, <1>6 DEF Shared!Next

\* Requests.
LEMMA RequestShares ==
    ASSUME Inv, NEW r \in Requests,
           \/ \E k \in Keys : Detect(r, k)
           \/ \E id \in Ids, p \in Platforms : Confirm(r, id, p)
           \/ RequestStepOf(r) \/ Cancel(r)
    PROVE  Shared!Next
<1>0. rq[r] \in Request
  BY DEF Inv, RequestOK
<1>1. CASE Answer(r) /\ UNCHANGED tasks
  BY <1>1, RequestLeaves DEF Answer, Idle
<1>2. CASE ReadHit(r) \/ Renew(r) \/ Cancel(r)
  BY <1>1, <1>2 DEF ReadHit, Renew, Cancel
<1>3. CASE ReadMiss(r) \/ ReadLapsed(r)
  <2>1. [rq[r] EXCEPT !.step = "join"].step # "wait"
    BY <1>0 DEF Request
  <2>2. [rq[r] EXCEPT !.step = "renew", !.rec = Row(rq[r].key)].step # "wait"
    BY <1>0 DEF Request
  <2>3. /\ UNCHANGED tasks
        /\ \/ rq' = [rq EXCEPT ![r] = [rq[r] EXCEPT !.step = "join"]]
           \/ rq' = [rq EXCEPT ![r] = [rq[r] EXCEPT !.step = "renew", !.rec = Row(rq[r].key)]]
    BY <1>3 DEF ReadMiss, ReadLapsed
  <2>. QED BY <2>1, <2>2, <2>3, RequestLeaves
<1>4. CASE ConfirmRead(r)
  <2>1. ASSUME NEW k \in Confirmable(rq[r].id),
               rq' = [rq EXCEPT ![r].step = "summoner", ![r].key = k, ![r].puuid = Row(k).puuid]
        PROVE  Shared!Next
    <3>. DEFINE new == [rq[r] EXCEPT !.step = "summoner", !.key = k, !.puuid = Row(k).puuid]
    <3>1. new.step # "wait" /\ rq' = [rq EXCEPT ![r] = new]
      BY <1>0, <2>1 DEF Request
    <3> HIDE DEF new
    <3>. QED BY <1>4, <3>1, RequestLeaves DEF ConfirmRead
  <2>. QED BY <1>1, <1>4, <2>1 DEF ConfirmRead
<1>5. CASE ConfirmCall(r)
  <2>1. [rq[r] EXCEPT !.step = "delete"].step # "wait"
    BY <1>0 DEF Request
  <2>2. CASE rq' = [rq EXCEPT ![r].step = "delete"]
    <3>1. rq' = [rq EXCEPT ![r] = [rq[r] EXCEPT !.step = "delete"]]
      BY <2>2
    <3>. QED BY <1>5, <2>1, <3>1, RequestLeaves DEF ConfirmCall
  <2>. QED BY <1>1, <1>5, <2>2 DEF ConfirmCall
<1>6. CASE ConfirmDelete(r)
  <2>1. [Idle EXCEPT !.step = "read", !.key = rq[r].key].step # "wait"
    BY DEF Idle
  <2>. QED BY <1>6, <2>1, RequestLeaves DEF ConfirmDelete
<1>7. ASSUME NEW k \in Keys, Detect(r, k) PROVE Shared!Next
  <2>1. [Idle EXCEPT !.step = "read", !.key = k].step # "wait"
    BY DEF Idle
  <2>. QED BY <1>7, <2>1, RequestLeaves DEF Detect
<1>8. ASSUME NEW id \in Ids, NEW p \in Platforms, Confirm(r, id, p) PROVE Shared!Next
  <2>1. [Idle EXCEPT !.step = "confirm", !.id = id, !.platform = p].step # "wait"
    BY DEF Idle
  <2>. QED BY <1>8, <2>1, RequestLeaves DEF Confirm
<1>. QED BY <1>2, <1>3, <1>4, <1>5, <1>6, <1>7, <1>8, JoinAsks, LeadAsks DEF RequestStepOf

\* Detections: the end is an end, all before it is not seen.
LEMMA DetectionShares ==
    ASSUME Inv, NEW t \in Tasks, DetectionStep(t)
    PROVE  Stutters \/ Shared!Next
<1>0. tasks[t] \in Task /\ Running(t)
  BY DEF Inv, TaskOK, DetectionStep, AccountAnswer, StoreVerdict, ProbeStart, ProbeAnswer,
         Running
<1>1. ASSUME NEW new, new.step # "free", new.key = tasks[t].key,
             tasks' = [tasks EXCEPT ![t] = new], UNCHANGED rq
      PROVE  Stutters
  <2>1. \A u \in Tasks : tasks'[u] = IF u = t THEN new ELSE tasks[u]
    BY <1>1 DEF Inv
  <2>2. TasksStay
    BY <1>0, <1>1, <2>1 DEF TasksStay, Running
  <2>. QED BY <1>1, <2>2, DetectingStays DEF Stutters, Awaited, At
<1>2. CASE End(t)
  BY <1>0, <1>2, EndEnds
<1>3. CASE AccountAnswer(t)
  <2>1. CASE /\ tasks' = [tasks EXCEPT ![t].step = "probe", ![t].puuid = owner[tasks[t].key],
                            ![t].probes = [p \in Platforms |-> "queued"]]
             /\ UNCHANGED rq
    <3>. DEFINE new == [tasks[t] EXCEPT !.step = "probe", !.puuid = owner[tasks[t].key],
                                        !.probes = [p \in Platforms |-> "queued"]]
    <3>1. new.step # "free" /\ new.key = tasks[t].key /\ tasks' = [tasks EXCEPT ![t] = new]
      BY <1>0, <2>1 DEF Task
    <3> HIDE DEF new
    <3>. QED BY <1>1, <2>1, <3>1
  <2>2. CASE tasks' = [tasks EXCEPT ![t].region = @ + 1] /\ UNCHANGED rq
    <3>. DEFINE new == [tasks[t] EXCEPT !.region = @ + 1]
    <3>1. new.step # "free" /\ new.key = tasks[t].key /\ tasks' = [tasks EXCEPT ![t] = new]
      BY <1>0, <2>2 DEF Task, Running
    <3> HIDE DEF new
    <3>. QED BY <1>1, <2>2, <3>1
  <2>3. CASE tasks' = [tasks EXCEPT ![t].step = "missing"] /\ UNCHANGED rq
    <3>. DEFINE new == [tasks[t] EXCEPT !.step = "missing"]
    <3>1. new.step # "free" /\ new.key = tasks[t].key /\ tasks' = [tasks EXCEPT ![t] = new]
      BY <1>0, <2>3 DEF Task
    <3> HIDE DEF new
    <3>. QED BY <1>1, <2>3, <3>1
  <2>. QED BY <1>2, <1>3, <2>1, <2>2, <2>3 DEF AccountAnswer
<1>4. ASSUME NEW p \in Platforms, ProbeStart(t, p) \/ ProbeAnswer(t, p)
      PROVE  Stutters \/ Shared!Next
  <2>1. ASSUME NEW state, tasks' = [tasks EXCEPT ![t].probes[p] = state], UNCHANGED rq
        PROVE  Stutters
    <3>. DEFINE new == [tasks[t] EXCEPT !.probes[p] = state]
    <3>1. new.step # "free" /\ new.key = tasks[t].key /\ tasks' = [tasks EXCEPT ![t] = new]
      BY <1>0, <2>1 DEF Task, Running
    <3> HIDE DEF new
    <3>. QED BY <1>1, <2>1, <3>1
  <2>. QED BY <1>2, <1>4, <2>1 DEF ProbeStart, ProbeAnswer
<1>. QED BY <1>2, <1>3, <1>4 DEF DetectionStep, StoreVerdict

LEMMA NextShares == Inv /\ [Next]_vars => [Shared!Next]_<<Detecting, Awaited>>
<1>. SUFFICES ASSUME Inv, [Next]_vars PROVE Stutters \/ Shared!Next
  BY DEF Stutters
<1>1. ASSUME NEW r \in Requests, NEW k \in Keys, Detect(r, k) PROVE Shared!Next
  BY <1>1, RequestShares
<1>2. ASSUME NEW r \in Requests, NEW id \in Ids, NEW p \in Platforms, Confirm(r, id, p)
      PROVE  Shared!Next
  BY <1>2, RequestShares
<1>3. ASSUME NEW r \in Requests, RequestStepOf(r) \/ Cancel(r) PROVE Shared!Next
  BY <1>3, RequestShares
<1>4. ASSUME NEW t \in Tasks, DetectionStep(t) PROVE Stutters \/ Shared!Next
  BY <1>4, DetectionShares
<1>5. CASE /\ UNCHANGED tasks
           /\ \A r \in Requests : rq'[r].step = rq[r].step /\ rq'[r].key = rq[r].key
  <2>1. Detecting' = Detecting
    BY <1>5, DetectingStays DEF TasksStay, Running
  <2>2. \A r \in Requests : Awaited'[r] = Awaited[r]
    BY <1>5 DEF Awaited, At
  <2>. QED BY <2>1, <2>2 DEF Stutters, Awaited
<1>6. ASSUME NEW k \in Keys, Expire(k) \/ Lapse(k) PROVE Stutters \/ Shared!Next
  <2>1. \A r \in Requests : \/ rq'[r] = rq[r]
                            \/ rq'[r] = [rq[r] EXCEPT !.rec.fresh = FALSE]
    BY <1>6 DEF Expire, Lapse
  <2>2. \A r \in Requests : rq[r] \in Request
    BY DEF Inv, RequestOK
  <2>3. \A r \in Requests : rq'[r].step = rq[r].step /\ rq'[r].key = rq[r].key
    BY <2>1, <2>2 DEF Request
  <2>. QED BY <1>5, <1>6, <2>3 DEF Expire, Lapse
<1>7. CASE UNCHANGED <<tasks, rq>>
  BY <1>5, <1>7
<1>. QED BY <1>1, <1>2, <1>3, <1>4, <1>6, <1>7 DEF Next, Rename, Transfer, vars

\* Platform detection shares its detections: for any number of callers and Riot
\* IDs, one that runs is joined and never started anew, a caller that goes away
\* does not stop it, and its end is the answer of all who wait.
THEOREM DetectionsShared == Spec => DetectionsAreShared
<1>1. Init => Shared!Init
  <2>. SUFFICES ASSUME Init PROVE Shared!Init
    OBVIOUS
  <2>1. /\ \A t \in Tasks : ~Running(t)
        /\ \A r \in Requests : ~At(r, "wait")
    BY DEF Init, NoTask, Idle, Running, At
  <2>. QED BY <2>1 DEF Shared!Init, Detecting, Awaited
<1>. QED BY <1>1, NextShares, InvHolds, PTL DEF Spec, DetectionsAreShared, Shared!Spec
=============================================================================
