----------------------------- MODULE MatchService -----------------------------
(* Recent matches and match details: services/matches.py over the tables of    *)
(* repositories/recent_matches.py and repositories/matches.py.  A match is     *)
(* loaded by one task whoever asks for it; its snapshot is stored once and     *)
(* compared ever after.                                                        *)
EXTENDS PlayerService

CONSTANTS
    Contents,        \* what Riot may say of a match
    MaxConcurrency   \* permits of _semaphore

ASSUME MatchAssumption == Contents # {} /\ MaxConcurrency \in Nat \ {0}

VARIABLES
    content,    \* what Riot says of each match
    recents,    \* accounts with a recent-match row that has not expired
    matches,    \* the row of each match
    inflight,   \* _inflight_loads
    loads       \* load tasks

matchVars == <<content, recents, matches, inflight, loads>>
vars == <<name, moves, players, rq, content, recents, matches, inflight, loads>>

-----------------------------------------------------------------------------
MatchRow == [content : Contents, fresh : BOOLEAN]

\* queued: waits for a permit; asked: get_match is out; over: done or failed,
\* its done callback has not run yet.
LoadStep == {"free", "read", "queued", "asked", "put", "purge", "done", "failed"}

NoLoad == [step |-> "free", match |-> None, content |-> None]

Load == [step : LoadStep, match : MatchIds \cup {None},
         content : Contents \cup {None}]

Running(l) == loads[l].step \notin {"free", "done", "failed"}

FreshMatch(m) == matches[m] # None /\ matches[m].fresh

TypeOK ==
    /\ PlayerTypeOK
    /\ content \in [MatchIds -> Contents]
    /\ recents \subseteq Puuids
    /\ matches \in [MatchIds -> MatchRow \cup {None}]
    /\ inflight \in [MatchIds -> Loads \cup {None}]
    /\ loads \in [Loads -> Load]

Init ==
    /\ PlayerInit
    /\ content = [m \in MatchIds |-> CHOOSE c \in Contents : TRUE]
    /\ recents = {}
    /\ matches = [m \in MatchIds |-> None]
    /\ inflight = [m \in MatchIds |-> None]
    /\ loads = [l \in Loads |-> NoLoad]

-----------------------------------------------------------------------------
(* _load_missing_match: no await between the look-up and the registration.     *)

\* As if every caller loaded a match for itself.
Wanted(ids) == ids

\* The matches that have no task in _inflight_loads.
Unloaded(ids) == {m \in ids : inflight[m] = None}

\* Free task slots for the unloaded matches, one each.
Slots(missing) ==
    {f \in [missing -> {l \in Loads : loads[l].step = "free"}] :
       \A m, n \in missing : f[m] = f[n] => m = n}

\* A task for every unloaded match; the others are joined.  One whose task is
\* over but not yet cleared gives its result at once.
LoadMatches(r, ids) ==
    LET missing == Unloaded(ids)
        new == CHOOSE f \in Slots(missing) : TRUE
        task == [m \in ids |-> IF m \in missing THEN new[m] ELSE inflight[m]]
        joined == {l \in {task[m] : m \in ids} : loads[l].step # "done"} IN
    /\ Slots(missing) # {}
    /\ inflight' = [m \in MatchIds |-> IF m \in missing THEN new[m] ELSE inflight[m]]
    /\ loads' = [l \in Loads |->
                   IF \E m \in missing : new[m] = l
                   THEN [step |-> "read", match |-> CHOOSE m \in missing : new[m] = l,
                         content |-> None]
                   ELSE loads[l]]
    /\ IF joined = {} \/ \E l \in joined : loads[l].step = "failed"
       THEN Answer(r)
       ELSE rq' = [rq EXCEPT ![r] = [Idle EXCEPT !.step = "wait", !.loads = joined]]
    /\ UNCHANGED <<name, moves, players, content, matches>>

-----------------------------------------------------------------------------
(* get_detail, and list_recent once the player is known                        *)

GetDetail(r, m) ==
    /\ At(r, "idle")
    /\ LoadMatches(r, {m})
    /\ UNCHANGED recents

\* _recent_match_ids.  The first count ids are loaded; here, all of them.
RecentHit(r) ==
    /\ At(r, "recent")
    /\ rq[r].puuid \in recents
    /\ LoadMatches(r, MatchIds)
    /\ UNCHANGED recents

RecentMiss(r) ==
    /\ At(r, "recent")
    /\ rq[r].puuid \notin recents
    /\ rq' = [rq EXCEPT ![r].step = "ids"]
    /\ UNCHANGED <<name, moves, players, matchVars>>

\* get_match_ids, and the row written from its answer.
IdsAnswer(r) ==
    /\ At(r, "ids")
    /\ \E code \in CodesThere \cup CodesMissing :
         \/ /\ code = "OK"
            /\ recents' = recents \cup {rq[r].puuid}
            /\ LoadMatches(r, MatchIds)
         \/ /\ code # "OK"
            /\ Answer(r)
            /\ UNCHANGED <<name, moves, players, matchVars>>

Cancel(r) ==
    /\ ~At(r, "idle")
    /\ Answer(r)
    /\ UNCHANGED <<name, moves, players, matchVars>>

-----------------------------------------------------------------------------
(* _load_with_cache *)

Step(l, step) == loads' = [loads EXCEPT ![l].step = step]

\* As if those who wait were told of a result only.
FinishResult(l, step) ==
    /\ Step(l, step)
    /\ rq' = [r \in Requests |->
                IF step = "done" /\ rq[r].loads = {l} THEN Idle
                ELSE IF step = "done" THEN [rq[r] EXCEPT !.loads = @ \ {l}]
                ELSE rq[r]]

\* The task is over.  A request has its answer with the first failure or the
\* last result of those it awaits.
Finish(l, step) ==
    /\ Step(l, step)
    /\ rq' = [r \in Requests |->
                CASE l \notin rq[r].loads -> rq[r]
                  [] l \in rq[r].loads /\ (step = "failed" \/ rq[r].loads = {l}) -> Idle
                  [] OTHER -> [rq[r] EXCEPT !.loads = @ \ {l}]]

LoadRead(l) ==
    /\ loads[l].step = "read"
    /\ IF FreshMatch(loads[l].match)
       THEN Finish(l, "done")
       ELSE Step(l, "queued") /\ UNCHANGED rq
    /\ UNCHANGED <<name, moves, players, content, recents, matches, inflight>>

LoadStart(l) ==
    /\ loads[l].step = "queued"
    /\ Cardinality({k \in Loads : loads[k].step = "asked"}) < MaxConcurrency
    /\ Step(l, "asked")
    /\ UNCHANGED <<name, moves, players, rq, content, recents, matches, inflight>>

\* get_match and normalize_match: the permit is given back, whatever the answer.
LoadAnswer(l) ==
    /\ loads[l].step = "asked"
    /\ \E code \in CodesThere :
         \/ /\ code = "OK"
            /\ loads' = [loads EXCEPT ![l].step = "put",
                                      ![l].content = content[loads[l].match]]
            /\ UNCHANGED rq
         \/ code # "OK" /\ Finish(l, "failed")
    /\ UNCHANGED <<name, moves, players, content, recents, matches, inflight>>

\* As if the upsert had no WHERE on the hash.
PutAny(m, new) ==
    matches' = [matches EXCEPT ![m] = [content |-> new, fresh |-> TRUE]]

\* ON CONFLICT (match_id) DO UPDATE fetched_at WHERE the hash is the same.
PutMatch(m, new) ==
    /\ matches[m] # None => matches[m].content = new
    /\ matches' = [matches EXCEPT ![m] = [content |-> new, fresh |-> TRUE]]

LoadPut(l) ==
    /\ loads[l].step = "put"
    /\ PutMatch(loads[l].match, loads[l].content)
    /\ loads' = [loads EXCEPT ![l].step = "purge", ![l].content = None]
    /\ UNCHANGED <<name, moves, players, rq, content, recents, inflight>>

\* MatchCacheConflict, also against a row that has outlived its retention.
LoadConflict(l) ==
    /\ loads[l].step = "put"
    /\ matches[loads[l].match] # None
    /\ matches[loads[l].match].content # loads[l].content
    /\ Finish(l, "failed")
    /\ UNCHANGED <<name, moves, players, content, recents, matches, inflight>>

\* delete_expired: every match out of retention goes.
LoadPurge(l) ==
    /\ loads[l].step = "purge"
    /\ matches' = [m \in MatchIds |-> IF FreshMatch(m) THEN matches[m] ELSE None]
    /\ Finish(l, "done")
    /\ UNCHANGED <<name, moves, players, content, recents, inflight>>

\* As if only a load that succeeded were forgotten.
OverDone(l) == loads[l].step = "done"

Over(l) == loads[l].step \in {"done", "failed"}

\* _clear_inflight, called back after the task is done.
ClearInflight(l) ==
    /\ Over(l)
    /\ inflight' = [m \in MatchIds |-> IF inflight[m] = l THEN None ELSE inflight[m]]
    /\ loads' = [loads EXCEPT ![l] = NoLoad]
    /\ UNCHANGED <<name, moves, players, rq, content, recents, matches>>

-----------------------------------------------------------------------------
(* Time, and the world outside *)

ExpireRecent(p) ==
    /\ p \in recents
    /\ recents' = recents \ {p}
    /\ UNCHANGED <<name, moves, players, rq, content, matches, inflight, loads>>

ExpireMatch(m) ==
    /\ FreshMatch(m)
    /\ matches' = [matches EXCEPT ![m].fresh = FALSE]
    /\ UNCHANGED <<name, moves, players, rq, content, recents, inflight, loads>>

\* Riot changes what it says of a match.
Revise(m, new) ==
    /\ moves < MaxMoves /\ moves' = moves + 1
    /\ content' = [content EXCEPT ![m] = new]
    /\ UNCHANGED <<name, players, rq, recents, matches, inflight, loads>>

-----------------------------------------------------------------------------
(* Specification.  Every ready task runs, every call ends, and a semaphore of  *)
(* asyncio serves those who wait for it in turn; the clock, the world and the  *)
(* callers owe nothing.                                                        *)

RequestStepOf(r) ==
    \/ PlayerStep(r) /\ UNCHANGED matchVars
    \/ RecentHit(r) \/ RecentMiss(r) \/ IdsAnswer(r)

LoadStepOf(l) ==
    \/ LoadRead(l) \/ LoadStart(l) \/ LoadAnswer(l)
    \/ LoadPut(l) \/ LoadConflict(l) \/ LoadPurge(l) \/ ClearInflight(l)

Next ==
    \/ \E r \in Requests, n \in Names : Resolve(r, n) /\ UNCHANGED matchVars
    \/ \E r \in Requests, p \in Puuids : ListRecent(r, p) /\ UNCHANGED matchVars
    \/ \E r \in Requests, m \in MatchIds : GetDetail(r, m)
    \/ \E r \in Requests : RequestStepOf(r) \/ Cancel(r)
    \/ \E l \in Loads : LoadStepOf(l)
    \/ \E p \in Puuids : ExpireRecent(p) \/ (ExpirePlayer(p) /\ UNCHANGED matchVars)
    \/ \E m \in MatchIds : ExpireMatch(m)
    \/ \E new \in [Puuids -> Names] : Rename(new) /\ UNCHANGED matchVars
    \/ \E m \in MatchIds, new \in Contents : Revise(m, new)

Fairness ==
    /\ \A r \in Requests : WF_vars(RequestStepOf(r))
    /\ \A l \in Loads : SF_vars(LoadStepOf(l))

Spec == Init /\ [][Next]_vars /\ Fairness

-----------------------------------------------------------------------------
(* Refinement: a match is what SharedWork works on, from the start of its load  *)
(* until the load is over, whether or not its callback has run.                *)

Loading == {loads[l].match : l \in {k \in Loads : Running(k)}}

Awaited == [r \in Requests |-> {loads[l].match : l \in rq[r].loads}]

Shared == INSTANCE SharedWork
            WITH Keys <- MatchIds, Callers <- Requests, running <- Loading, waits <- Awaited

-----------------------------------------------------------------------------
(* Properties *)

\* Concurrent calls share their loads: what is loading is joined and never
\* loaded anew, a caller that goes away stops nobody's load, and the end of a
\* load is told to all who await it, a failure at once (140-180).
LoadsAreShared == Shared!Spec

\* A match has at most one load, the one _inflight_loads names, until its
\* callback has run, and a request awaits only running ones (140-170).
OneLoad ==
    /\ \A l \in Loads : loads[l].step # "free" => inflight[loads[l].match] = l
    /\ \A m \in MatchIds : inflight[m] # None => loads[inflight[m]].match = m
    /\ \A r \in Requests : \A l \in rq[r].loads : Running(l)

\* While the row of a match stays, its snapshot stays what it was, whichever
\* answer comes later or out of order (matches.py:77-105).
MatchIsImmutable ==
    [][\A m \in MatchIds : matches[m] # None /\ matches'[m] # None
          => matches'[m].content = matches[m].content]_vars

\* Every call of the players and matches routes comes to an answer.
CallsEnd == \A r \in Requests : ~At(r, "idle") ~> At(r, "idle")

\* A load that failed is forgotten: later calls try again.
FailureForgotten ==
    \A m \in MatchIds :
      (inflight[m] # None /\ loads[inflight[m]].step = "failed") ~> inflight[m] = None
=============================================================================
