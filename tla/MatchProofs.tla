----------------------------- MODULE MatchProofs -----------------------------
(* Proofs about MatchService, for any number of callers, accounts and matches. *)
EXTENDS MatchService, TLAPS

-----------------------------------------------------------------------------
(* The inductive invariant: what each load and each request may rely on.       *)

LoadOK(load) ==
    /\ load \in Load
    /\ load.step = "free" <=> load.match = None
    /\ load.step = "put" => load.content \in Contents

Inflight ==
    /\ inflight \in [MatchIds -> Loads \cup {None}]
    /\ \A l \in Loads : loads[l].step # "free" => inflight[loads[l].match] = l
    /\ \A m \in MatchIds : inflight[m] # None => loads[inflight[m]].match = m

RequestOK(q) ==
    /\ q \in Request
    /\ q.step \in {"recent", "ids"} => q.puuid \in Puuids
    /\ q.step = "account" => q.op = "resolve" \/ q.puuid \in Puuids
    /\ q.step = "save" => q.puuid \in Puuids /\ q.name \in Names
    /\ q.step # "wait" => q.loads = {}

Joined(q) == \A l \in q.loads : Running(l)

Rows ==
    /\ name \in [Puuids -> Names]
    /\ moves \in 0..MaxMoves
    /\ players \in [Puuids -> Names \cup {None}]
    /\ content \in [MatchIds -> Contents]
    /\ recents \subseteq Puuids
    /\ matches \in [MatchIds -> MatchRow \cup {None}]

Inv ==
    /\ Rows
    /\ Inflight
    /\ loads = [l \in Loads |-> loads[l]]
    /\ \A l \in Loads : LoadOK(loads[l])
    /\ rq = [r \in Requests |-> rq[r]]
    /\ \A r \in Requests : RequestOK(rq[r]) /\ Joined(rq[r])

LEMMA InvGivesProperties == Inv => TypeOK /\ OneLoad
<1> SUFFICES ASSUME Inv PROVE TypeOK /\ OneLoad
  OBVIOUS
<1>1. rq \in [Requests -> Request] /\ loads \in [Loads -> Load]
  BY DEF Inv, RequestOK, LoadOK
<1> QED  BY <1>1 DEF Inv, Rows, Inflight, Joined, TypeOK, PlayerTypeOK, OneLoad

LEMMA IdleIsOK == RequestOK(Idle) /\ Joined(Idle)
BY DEF RequestOK, Joined, Idle, Request, RequestStep

LEMMA NoLoadIsOK == LoadOK(NoLoad)
BY DEF LoadOK, NoLoad, Load, LoadStep

LEMMA InitInv == Init => Inv
<1> SUFFICES ASSUME Init PROVE Inv
  OBVIOUS
<1>1. name \in [Puuids -> Names]
  BY PlayerAssumption DEF Init, PlayerInit
<1>2. content \in [MatchIds -> Contents]
  BY MatchAssumption DEF Init
<1>3. Rows
  BY <1>1, <1>2, PlayerAssumption DEF Init, PlayerInit, Rows
<1>4. \A l \in Loads : loads[l] = NoLoad
  BY DEF Init
<1>5. \A r \in Requests : rq[r] = Idle
  BY DEF Init, PlayerInit
<1>6. Inflight
  BY <1>4 DEF Init, Inflight, NoLoad
<1> QED  BY <1>3, <1>4, <1>5, <1>6, IdleIsOK, NoLoadIsOK DEF Init, PlayerInit, Inv

-----------------------------------------------------------------------------
(* How steps change the state *)

\* One request moves, and rows other than those of matches may change.
LEMMA RequestMoves ==
    ASSUME Inv, NEW r \in Requests, NEW new, RequestOK(new), Joined(new),
           rq' = [rq EXCEPT ![r] = new],
           Rows', UNCHANGED <<inflight, loads>>
    PROVE  Inv'
<1>1. Inflight'
  BY DEF Inv, Inflight
<1>2. loads' = [l \in Loads |-> loads'[l]] /\ \A l \in Loads : LoadOK(loads[l])'
  BY DEF Inv, LoadOK
<1>3. rq' = [q \in Requests |-> rq'[q]]
  BY DEF Inv
<1>4. \A q \in Requests : (RequestOK(rq[q]) /\ Joined(rq[q]))'
  BY DEF Inv, RequestOK, Joined, Running
<1> QED  BY <1>1, <1>2, <1>3, <1>4 DEF Inv

\* A load goes on, still running.
LEMMA LoadMoves ==
    ASSUME Inv, NEW l \in Loads, NEW new, LoadOK(new),
           Running(l), new.step \notin {"free", "done", "failed"},
           new.match = loads[l].match,
           loads' = [loads EXCEPT ![l] = new],
           Rows', UNCHANGED <<rq, inflight>>
    PROVE  Inv'
<1>1. /\ loads' = [k \in Loads |-> loads'[k]]
      /\ \A k \in Loads : loads'[k] = IF k = l THEN new ELSE loads[k]
  BY DEF Inv
<1>2. \A k \in Loads : loads'[k].match = loads[k].match
                       /\ (loads'[k].step = "free" <=> loads[k].step = "free")
                       /\ (Running(k) => Running(k)')
  BY <1>1 DEF Running
<1>3. Inflight'
  BY <1>2 DEF Inv, Inflight
<1>4. \A k \in Loads : LoadOK(loads[k])'
  BY <1>1 DEF Inv, LoadOK
<1>5. \A q \in Requests : (RequestOK(rq[q]) /\ Joined(rq[q]))'
  BY <1>2 DEF Inv, RequestOK, Joined, Request
<1>6. rq' = [q \in Requests |-> rq'[q]]
  BY DEF Inv
<1> QED  BY <1>1, <1>3, <1>4, <1>5, <1>6 DEF Inv

\* A load is over; nobody waits for it any more.
LEMMA LoadEnds ==
    ASSUME Inv, NEW l \in Loads, NEW step \in {"done", "failed"},
           Running(l), Finish(l, step), Rows', UNCHANGED inflight
    PROVE  Inv'
<1>1. /\ loads' = [k \in Loads |-> loads'[k]]
      /\ \A k \in Loads : loads'[k] = IF k = l THEN [loads[l] EXCEPT !.step = step]
                                                ELSE loads[k]
  BY DEF Inv, Finish, Step
<1>2. /\ [loads[l] EXCEPT !.step = step].match = loads[l].match
      /\ [loads[l] EXCEPT !.step = step].step = step
      /\ LoadOK([loads[l] EXCEPT !.step = step])
  BY DEF Inv, LoadOK, Load, LoadStep, Running
<1>3. \A k \in Loads : loads'[k].match = loads[k].match
                       /\ (loads'[k].step = "free" <=> loads[k].step = "free")
                       /\ (k # l /\ Running(k) => Running(k)')
  BY <1>1, <1>2 DEF Running
<1>4. Inflight'
  BY <1>3 DEF Inv, Inflight
<1>5. \A k \in Loads : LoadOK(loads[k])'
  BY <1>1, <1>2 DEF Inv, LoadOK
<1>6. rq' = [r \in Requests |-> rq'[r]]
  BY DEF Finish
<1>7. \A r \in Requests : (RequestOK(rq[r]) /\ Joined(rq[r]))'
  <2> TAKE r \in Requests
  <2>1. CASE l \notin rq[r].loads
    <3>1. rq'[r] = rq[r]
      BY <2>1 DEF Finish
    <3> QED  BY <1>3, <2>1, <3>1 DEF Inv, RequestOK, Joined, Request
  <2>2. CASE l \in rq[r].loads /\ (step = "failed" \/ rq[r].loads = {l})
    <3>1. rq'[r] = Idle
      BY <2>2 DEF Finish
    <3> QED  BY <3>1 DEF RequestOK, Joined, Idle, Request, RequestStep
  <2>3. CASE l \in rq[r].loads /\ ~(step = "failed" \/ rq[r].loads = {l})
    <3>1. rq'[r] = [rq[r] EXCEPT !.loads = @ \ {l}]
      BY <2>3 DEF Finish
    <3>2. rq[r] \in Request /\ RequestOK(rq[r]) /\ Joined(rq[r])
      BY DEF Inv, RequestOK
    <3>3. /\ rq'[r] \in Request /\ rq'[r].loads = rq[r].loads \ {l}
          /\ rq'[r].step = rq[r].step /\ rq'[r].op = rq[r].op
          /\ rq'[r].puuid = rq[r].puuid /\ rq'[r].name = rq[r].name
      BY <3>1, <3>2 DEF Request
    <3>4. RequestOK(rq[r])'
      BY <3>2, <3>3 DEF RequestOK
    <3>5. Joined(rq[r])'
      BY <1>3, <3>2, <3>3 DEF Joined, Request
    <3> QED  BY <3>4, <3>5
  <2> QED  BY <2>1, <2>2, <2>3
<1> QED  BY <1>1, <1>4, <1>5, <1>6, <1>7 DEF Inv

\* A load whose callback has run is free again, and its match may be loaded anew.
LEMMA LoadIsCleared ==
    ASSUME Inv, NEW l \in Loads, ClearInflight(l)
    PROVE  Inv'
<1>0. /\ Over(l) /\ ~Running(l)
      /\ UNCHANGED <<name, moves, players, rq, content, recents, matches>>
  BY DEF ClearInflight, Over, Running
<1>1. /\ loads' = [k \in Loads |-> loads'[k]]
      /\ \A k \in Loads : loads'[k] = IF k = l THEN NoLoad ELSE loads[k]
  BY DEF Inv, ClearInflight
<1>2. /\ inflight' \in [MatchIds -> Loads \cup {None}]
      /\ \A m \in MatchIds : inflight'[m] = IF inflight[m] = l THEN None ELSE inflight[m]
  BY DEF Inv, Inflight, ClearInflight
<1>3. \A k \in Loads : loads'[k].step # "free" => inflight'[loads'[k].match] = k
  <2> TAKE k \in Loads
  <2> HAVE loads'[k].step # "free"
  <2>1. k # l /\ loads'[k] = loads[k] /\ loads[k].step # "free"
    BY <1>1 DEF NoLoad
  <2>2. loads[k].match \in MatchIds /\ inflight[loads[k].match] = k
    BY <2>1 DEF Inv, Inflight, LoadOK, Load
  <2> QED  BY <1>2, <2>1, <2>2
<1>4. \A m \in MatchIds : inflight'[m] # None => loads'[inflight'[m]].match = m
  <2> TAKE m \in MatchIds
  <2> HAVE inflight'[m] # None
  <2>1. inflight'[m] = inflight[m] /\ inflight[m] # l /\ inflight[m] \in Loads
    BY <1>2 DEF Inv, Inflight
  <2> QED  BY <1>1, <2>1 DEF Inv, Inflight
<1>5. Inflight'
  BY <1>2, <1>3, <1>4 DEF Inflight
<1>6. \A k \in Loads : LoadOK(loads[k])'
  BY <1>1, NoLoadIsOK DEF Inv, LoadOK
<1>7. Rows'
  BY <1>0 DEF Inv, Rows
<1>8. \A r \in Requests : (RequestOK(rq[r]) /\ Joined(rq[r]))'
  <2> TAKE r \in Requests
  <2>1. rq'[r] = rq[r] /\ RequestOK(rq[r]) /\ Joined(rq[r]) /\ rq[r].loads \subseteq Loads
    BY <1>0 DEF Inv, RequestOK, Request
  <2>2. \A k \in rq[r].loads : k # l
    BY <1>0, <2>1 DEF Joined
  <2> QED  BY <1>1, <2>1, <2>2 DEF RequestOK, Joined, Running
<1> QED  BY <1>0, <1>1, <1>5, <1>6, <1>7, <1>8 DEF Inv

\* A request gets a load of its own for each match that has none, and joins the
\* others; look-up and registration are one step.
LEMMA LoadsStart ==
    ASSUME Inv, NEW r \in Requests, NEW ids \in SUBSET MatchIds, LoadMatches(r, ids),
           recents' \subseteq Puuids
    PROVE  Inv'
<1> DEFINE missing == Unloaded(ids)
           new == CHOOSE f \in Slots(missing) : TRUE
           task == [m \in ids |-> IF m \in missing THEN new[m] ELSE inflight[m]]
           joined == {l \in {task[m] : m \in ids} : loads[l].step # "done"}
           fresh(l) == \E m \in missing : new[m] = l
           owned(l) == CHOOSE m \in missing : new[m] = l
<1>1. /\ missing \subseteq MatchIds /\ missing \subseteq ids
      /\ \A m \in ids : m \in missing <=> inflight[m] = None
  BY DEF Unloaded
<1>2. /\ new \in [missing -> {l \in Loads : loads[l].step = "free"}]
      /\ \A m, n \in missing : new[m] = new[n] => m = n
  <2>1. new \in Slots(missing)
    BY DEF LoadMatches
  <2> QED  BY <2>1 DEF Slots
<1>3. /\ inflight' = [m \in MatchIds |-> IF m \in missing THEN new[m] ELSE inflight[m]]
      /\ loads' = [l \in Loads |->
                     IF fresh(l)
                     THEN [step |-> "read", match |-> owned(l), content |-> None]
                     ELSE loads[l]]
      /\ IF joined = {} \/ \E l \in joined : loads[l].step = "failed"
         THEN Answer(r)
         ELSE rq' = [rq EXCEPT ![r] = [Idle EXCEPT !.step = "wait", !.loads = joined]]
      /\ UNCHANGED <<name, moves, players, content, matches>>
  BY DEF LoadMatches
<1>4. \A m \in missing : new[m] \in Loads /\ loads[new[m]].step = "free"
                         /\ fresh(new[m]) /\ owned(new[m]) = m
  BY <1>2
<1>5. \A l \in Loads : fresh(l) => /\ owned(l) \in missing /\ new[owned(l)] = l
                                   /\ loads[l].step = "free"
  BY <1>2
<1>6. \A m \in MatchIds : m \notin missing /\ inflight[m] # None =>
         /\ inflight[m] \in Loads /\ loads[inflight[m]].step # "free"
         /\ loads[inflight[m]].match = m /\ ~fresh(inflight[m])
  <2> TAKE m \in MatchIds
  <2> HAVE m \notin missing /\ inflight[m] # None
  <2>1. inflight[m] \in Loads /\ loads[inflight[m]].match = m /\ m # None
    BY PlayerAssumption DEF Inv, Inflight
  <2>2. loads[inflight[m]].step # "free"
    BY <2>1 DEF Inv, LoadOK
  <2> HIDE DEF fresh
  <2> QED  BY <1>5, <2>1, <2>2
<1> HIDE DEF missing, new, fresh, owned
<1>7. Rows'
  BY <1>3 DEF Inv, Rows
<1>8. loads' = [l \in Loads |-> loads'[l]]
  BY <1>3
<1>9. \A l \in Loads : LoadOK(loads[l])'
  <2> TAKE l \in Loads
  <2>1. CASE fresh(l)
    <3>1. loads'[l] = [step |-> "read", match |-> owned(l), content |-> None]
      BY <1>3, <2>1
    <3>2. owned(l) \in MatchIds /\ owned(l) # None
      BY <1>1, <1>5, <2>1, PlayerAssumption
    <3> QED  BY <3>1, <3>2 DEF LoadOK, Load, LoadStep
  <2>2. CASE ~fresh(l)
    BY <1>3, <2>2 DEF Inv, LoadOK
  <2> QED  BY <2>1, <2>2
<1>10. inflight' \in [MatchIds -> Loads \cup {None}]
  BY <1>3, <1>4 DEF Inv, Inflight
<1>11. \A l \in Loads : loads'[l].step # "free" => inflight'[loads'[l].match] = l
  <2> TAKE l \in Loads
  <2> HAVE loads'[l].step # "free"
  <2>1. CASE fresh(l)
    BY <1>1, <1>3, <1>5, <2>1
  <2>2. CASE ~fresh(l)
    <3>1. loads'[l] = loads[l] /\ loads[l].step # "free"
      BY <1>3, <2>2
    <3>2. loads[l].match \in MatchIds /\ inflight[loads[l].match] = l
      BY <3>1 DEF Inv, Inflight, LoadOK, Load
    <3>3. loads[l].match \notin missing
      BY <1>1, <3>2, PlayerAssumption
    <3> QED  BY <1>3, <3>1, <3>2, <3>3
  <2> QED  BY <2>1, <2>2
<1>12. \A m \in MatchIds : inflight'[m] # None => loads'[inflight'[m]].match = m
  <2> TAKE m \in MatchIds
  <2> HAVE inflight'[m] # None
  <2>1. CASE m \in missing
    BY <1>3, <1>4, <2>1
  <2>2. CASE m \notin missing
    BY <1>3, <1>6, <2>2
  <2> QED  BY <2>1, <2>2
<1>13. Inflight'
  BY <1>10, <1>11, <1>12 DEF Inflight
<1>14. \A l \in Loads : Running(l) => Running(l)'
  BY <1>3, <1>5 DEF Running
<1>15. rq' = [q \in Requests |-> rq'[q]]
  BY <1>3 DEF Inv, Answer
<1>16. \A l \in joined : l \in Loads /\ (fresh(l) \/ loads[l].step \notin {"free", "done"})
  BY <1>1, <1>4, <1>6
<1>17. \/ rq' = [rq EXCEPT ![r] = Idle]
       \/ /\ rq' = [rq EXCEPT ![r] = [Idle EXCEPT !.step = "wait", !.loads = joined]]
          /\ \A l \in joined : Running(l)'
  <2>1. CASE joined = {} \/ \E l \in joined : loads[l].step = "failed"
    BY <1>3, <2>1 DEF Answer
  <2>2. CASE ~(joined = {} \/ \E l \in joined : loads[l].step = "failed")
    BY <1>3, <1>16, <2>2 DEF Running
  <2> QED  BY <2>1, <2>2
<1>18. joined \subseteq Loads
  BY <1>16
<1> HIDE DEF joined
<1>19. \A q \in Requests : (RequestOK(rq[q]) /\ Joined(rq[q]))'
  <2> TAKE q \in Requests
  <2>1. RequestOK(rq[q]) /\ Joined(rq[q]) /\ rq[q].loads \subseteq Loads
    BY DEF Inv, RequestOK, Request
  <2>2. CASE rq'[q] = rq[q]
    BY <1>14, <2>1, <2>2 DEF RequestOK, Joined
  <2>3. CASE rq'[q] = Idle
    BY <2>3 DEF RequestOK, Joined, Idle, Request, RequestStep
  <2>4. CASE /\ rq'[q] = [Idle EXCEPT !.step = "wait", !.loads = joined]
             /\ \A l \in joined : Running(l)'
    BY <1>18, <2>4 DEF RequestOK, Joined, Idle, Request, RequestStep
  <2> QED  BY <1>17, <2>2, <2>3, <2>4 DEF Inv
<1> QED  BY <1>7, <1>8, <1>9, <1>13, <1>15, <1>19 DEF Inv

-----------------------------------------------------------------------------
(* Each action *)

LEMMA StepOfPlayer ==
    ASSUME Inv, NEW r \in Requests, UNCHANGED matchVars,
           \/ \E n \in Names : Resolve(r, n)
           \/ \E p \in Puuids : ListRecent(r, p)
           \/ PlayerStep(r)
    PROVE  Inv'
<1> DEFINE q == rq[r]
<1>0. RequestOK(q) /\ Joined(q) /\ q \in Request /\ UNCHANGED <<inflight, loads>>
  BY DEF Inv, RequestOK, matchVars
<1>1. ASSUME UNCHANGED <<name, moves, players>> PROVE Rows'
  BY <1>1 DEF Inv, Rows, matchVars
<1>2. ASSUME NEW op, NEW p \in Puuids, op \in {None, "resolve", "list"}
      PROVE  LET new == IF op = "list"
                        THEN [Idle EXCEPT !.step = "recent", !.op = op, !.puuid = p]
                        ELSE Idle
             IN  RequestOK(new) /\ Joined(new)
  BY <1>2, IdleIsOK DEF RequestOK, Joined, Idle, Request, RequestStep
<1>3. ASSUME NEW n \in Names, Resolve(r, n) PROVE Inv'
  <2> DEFINE new == [Idle EXCEPT !.step = "account", !.op = "resolve", !.name = n]
  <2>1. RequestOK(new) /\ Joined(new)
    BY DEF RequestOK, Joined, Idle, Request, RequestStep
  <2> QED  BY <1>0, <1>1, <1>3, <2>1, RequestMoves DEF Resolve
<1>4. ASSUME NEW p \in Puuids, ListRecent(r, p) PROVE Inv'
  <2> DEFINE new == [Idle EXCEPT !.step = "account", !.op = "list", !.puuid = p]
  <2>1. RequestOK(new) /\ Joined(new)
    BY DEF RequestOK, Joined, Idle, Request, RequestStep
  <2>2. Rows'
    BY <1>1, <1>4 DEF ListRecent
  <2>3. CASE rq' = [rq EXCEPT ![r] = new]
    BY <1>0, <2>1, <2>2, <2>3, RequestMoves
  <2>4. CASE PlayerKnown(r, "list", p)
    BY <1>0, <1>2, <2>2, <2>4, RequestMoves DEF PlayerKnown
  <2> QED  BY <1>4, <2>3, <2>4 DEF ListRecent
<1>5. CASE AccountAnswer(r)
  <2>1. Rows'
    BY <1>1, <1>5 DEF AccountAnswer
  <2>2. CASE Answer(r)
    BY <1>0, <2>1, <2>2, IdleIsOK, RequestMoves DEF Answer
  <2>3. ASSUME NEW p \in Holder(r),
               rq' = [rq EXCEPT ![r].step = "save", ![r].puuid = p, ![r].name = name[p]]
        PROVE  Inv'
    <3> DEFINE new == [q EXCEPT !.step = "save", !.puuid = p, !.name = name[p]]
    <3>1. p \in Puuids
      BY <1>0, <1>5, <2>3 DEF Holder, AccountAnswer, At, RequestOK
    <3>2. name[p] \in Names
      BY <3>1 DEF Inv, Rows
    <3>3. /\ new \in Request /\ new.step = "save" /\ new.puuid = p /\ new.name = name[p]
          /\ new.loads = q.loads
      BY <1>0, <3>1, <3>2 DEF Request, RequestStep
    <3>4. RequestOK(new) /\ Joined(new)
      BY <1>0, <1>5, <3>1, <3>2, <3>3 DEF RequestOK, Joined, AccountAnswer, At
    <3>5. rq' = [rq EXCEPT ![r] = new]
      BY <2>3
    <3> HIDE DEF new
    <3> QED  BY <1>0, <2>1, <3>4, <3>5, RequestMoves
  <2> QED  BY <1>5, <2>2, <2>3 DEF AccountAnswer
<1>6. CASE SavePlayer(r)
  <2>1. q.puuid \in Puuids /\ q.name \in Names /\ q.op \in {None, "resolve", "list"}
    BY <1>0, <1>6 DEF SavePlayer, At, RequestOK, Request
  <2>2. Rows'
    BY <1>6, <2>1 DEF Inv, Rows, SavePlayer, matchVars
  <2> QED  BY <1>0, <1>2, <1>6, <2>1, <2>2, RequestMoves DEF SavePlayer, PlayerKnown
<1> QED  BY <1>3, <1>4, <1>5, <1>6 DEF PlayerStep

LEMMA StepOfRequest ==
    ASSUME Inv, NEW r \in Requests,
           \/ \E m \in MatchIds : GetDetail(r, m)
           \/ RecentHit(r) \/ RecentMiss(r) \/ IdsAnswer(r) \/ Cancel(r)
    PROVE  Inv'
<1> DEFINE q == rq[r]
<1>0. RequestOK(q) /\ Joined(q) /\ q \in Request
  BY DEF Inv, RequestOK
<1>1. recents \subseteq Puuids
  BY DEF Inv, Rows
<1>2. ASSUME UNCHANGED <<name, moves, players, matchVars>>
      PROVE  Rows' /\ UNCHANGED <<inflight, loads>>
  BY <1>2 DEF Inv, Rows, matchVars
<1>3. ASSUME NEW m \in MatchIds, GetDetail(r, m) PROVE Inv'
  <2>1. {m} \in SUBSET MatchIds
    OBVIOUS
  <2> QED  BY <1>1, <1>3, <2>1, LoadsStart DEF GetDetail
<1>4. CASE RecentHit(r)
  <2>1. MatchIds \in SUBSET MatchIds
    OBVIOUS
  <2> QED  BY <1>1, <1>4, <2>1, LoadsStart DEF RecentHit
<1>5. CASE RecentMiss(r)
  <2> DEFINE new == [q EXCEPT !.step = "ids"]
  <2>1. /\ new \in Request /\ new.step = "ids" /\ new.puuid = q.puuid
        /\ new.loads = q.loads /\ q.puuid \in Puuids
    BY <1>0, <1>5 DEF Request, RequestStep, RecentMiss, At, RequestOK
  <2>2. RequestOK(new) /\ Joined(new)
    BY <1>0, <1>5, <2>1 DEF RequestOK, Joined, RecentMiss, At
  <2>3. rq' = [rq EXCEPT ![r] = new]
    BY <1>5 DEF RecentMiss
  <2> HIDE DEF new
  <2> QED  BY <1>2, <1>5, <2>2, <2>3, RequestMoves DEF RecentMiss
<1>6. CASE IdsAnswer(r)
  <2>1. CASE Answer(r) /\ UNCHANGED <<name, moves, players, matchVars>>
    BY <1>2, <2>1, IdleIsOK, RequestMoves DEF Answer
  <2>2. CASE /\ recents' = recents \cup {q.puuid}
             /\ LoadMatches(r, MatchIds)
    <3>1. recents' \subseteq Puuids
      BY <1>0, <1>1, <1>6, <2>2 DEF IdsAnswer, At, RequestOK
    <3>2. MatchIds \in SUBSET MatchIds
      OBVIOUS
    <3> QED  BY <2>2, <3>1, <3>2, LoadsStart
  <2> QED  BY <1>6, <2>1, <2>2 DEF IdsAnswer
<1>7. CASE Cancel(r)
  BY <1>2, <1>7, IdleIsOK, RequestMoves DEF Cancel, Answer
<1> QED  BY <1>3, <1>4, <1>5, <1>6, <1>7

LEMMA StepOfLoad ==
    ASSUME Inv, NEW l \in Loads, LoadStepOf(l)
    PROVE  Inv'
<1> DEFINE load == loads[l]
<1>0. LoadOK(load) /\ load \in Load /\ (Running(l) => load.match \in MatchIds)
  BY DEF Inv, LoadOK, Load, Running
<1>1. ASSUME UNCHANGED <<name, moves, players, content, recents, matches>> PROVE Rows'
  BY <1>1 DEF Inv, Rows
<1>2. ASSUME Running(l), NEW step \in {"queued", "asked"}, Step(l, step),
             UNCHANGED <<rq, inflight>>, Rows'
      PROVE  Inv'
  <2> DEFINE new == [load EXCEPT !.step = step]
  <2>1. new \in Load /\ new.step = step /\ new.match = load.match
    BY <1>0 DEF Load, LoadStep
  <2>2. LoadOK(new)
    BY <1>0, <1>2, <2>1 DEF LoadOK, Running
  <2>3. loads' = [loads EXCEPT ![l] = new]
    BY <1>2 DEF Step
  <2> HIDE DEF new
  <2> QED  BY <1>2, <2>1, <2>2, <2>3, LoadMoves
<1>3. CASE LoadRead(l)
  <2>1. Running(l) /\ Rows'
    BY <1>1, <1>3 DEF LoadRead, Running
  <2> QED  BY <1>2, <1>3, <2>1, LoadEnds DEF LoadRead
<1>4. CASE LoadStart(l)
  <2>1. Running(l) /\ Rows'
    BY <1>1, <1>4 DEF LoadStart, Running
  <2> QED  BY <1>2, <1>4, <2>1 DEF LoadStart
<1>5. CASE LoadAnswer(l)
  <2>1. Running(l) /\ Rows' /\ load.match \in MatchIds
    BY <1>0, <1>1, <1>5 DEF LoadAnswer, Running
  <2>2. CASE Finish(l, "failed")
    BY <1>5, <2>1, <2>2, LoadEnds DEF LoadAnswer
  <2>3. CASE /\ loads' = [loads EXCEPT ![l].step = "put", ![l].content = content[load.match]]
             /\ UNCHANGED rq
    <3> DEFINE new == [load EXCEPT !.step = "put", !.content = content[load.match]]
    <3>1. content[load.match] \in Contents
      BY <2>1 DEF Inv, Rows
    <3>2. /\ new \in Load /\ new.step = "put" /\ new.match = load.match
          /\ new.content = content[load.match]
      BY <1>0, <3>1 DEF Load, LoadStep
    <3>3. LoadOK(new)
      BY <1>0, <2>1, <3>1, <3>2 DEF LoadOK, Running
    <3>4. loads' = [loads EXCEPT ![l] = new]
      BY <2>3
    <3> HIDE DEF new
    <3> QED  BY <1>5, <2>1, <2>3, <3>2, <3>3, <3>4, LoadMoves DEF LoadAnswer
  <2> QED  BY <1>5, <2>2, <2>3 DEF LoadAnswer
<1>6. CASE LoadPut(l)
  <2> DEFINE new == [load EXCEPT !.step = "purge", !.content = None]
  <2>1. Running(l) /\ load.match \in MatchIds /\ load.content \in Contents
    BY <1>0, <1>6 DEF LoadPut, Running, LoadOK
  <2>2. Rows'
    BY <1>6, <2>1 DEF Inv, Rows, LoadPut, PutMatch, MatchRow
  <2>3. new \in Load /\ new.step = "purge" /\ new.match = load.match
    BY <1>0 DEF Load, LoadStep
  <2>4. LoadOK(new)
    BY <1>0, <2>1, <2>3 DEF LoadOK, Running
  <2>5. loads' = [loads EXCEPT ![l] = new]
    BY <1>6 DEF LoadPut
  <2> HIDE DEF new
  <2> QED  BY <1>6, <2>1, <2>2, <2>3, <2>4, <2>5, LoadMoves DEF LoadPut
<1>7. CASE LoadConflict(l)
  <2>1. Running(l) /\ Rows'
    BY <1>1, <1>7 DEF LoadConflict, Running
  <2> QED  BY <1>7, <2>1, LoadEnds DEF LoadConflict
<1>8. CASE LoadPurge(l)
  <2>1. Running(l) /\ Rows'
    BY <1>8 DEF LoadPurge, Running, Inv, Rows
  <2> QED  BY <1>8, <2>1, LoadEnds DEF LoadPurge
<1>9. CASE ClearInflight(l)
  BY <1>9, LoadIsCleared
<1> QED  BY <1>3, <1>4, <1>5, <1>6, <1>7, <1>8, <1>9 DEF LoadStepOf

\* The clock and the world change rows only.
LEMMA StepOfRows ==
    ASSUME Inv, Rows', UNCHANGED <<rq, inflight, loads>>
    PROVE  Inv'
BY DEF Inv, Inflight, LoadOK, RequestOK, Joined, Running

LEMMA StepOfWorld ==
    ASSUME Inv,
           \/ \E p \in Puuids : ExpireRecent(p) \/ (ExpirePlayer(p) /\ UNCHANGED matchVars)
           \/ \E m \in MatchIds : ExpireMatch(m)
           \/ \E new \in [Puuids -> Names] : Rename(new) /\ UNCHANGED matchVars
           \/ \E m \in MatchIds, new \in Contents : Revise(m, new)
    PROVE  Inv'
<1>1. ASSUME NEW p \in Puuids, ExpireRecent(p) PROVE Inv'
  <2>1. Rows'
    BY <1>1 DEF Inv, Rows, ExpireRecent
  <2> QED  BY <1>1, <2>1, StepOfRows DEF ExpireRecent
<1>2. ASSUME NEW p \in Puuids, ExpirePlayer(p), UNCHANGED matchVars PROVE Inv'
  <2>1. Rows'
    BY <1>2 DEF Inv, Rows, ExpirePlayer, matchVars
  <2> QED  BY <1>2, <2>1, StepOfRows DEF ExpirePlayer, matchVars
<1>3. ASSUME NEW m \in MatchIds, ExpireMatch(m) PROVE Inv'
  <2>1. matches[m] \in MatchRow
    BY <1>3 DEF Inv, Rows, ExpireMatch, FreshMatch
  <2>2. Rows'
    BY <1>3, <2>1 DEF Inv, Rows, ExpireMatch, MatchRow
  <2> QED  BY <1>3, <2>2, StepOfRows DEF ExpireMatch
<1>4. ASSUME NEW new \in [Puuids -> Names], Rename(new), UNCHANGED matchVars PROVE Inv'
  <2>1. Rows'
    BY <1>4, PlayerAssumption DEF Inv, Rows, Rename, matchVars
  <2> QED  BY <1>4, <2>1, StepOfRows DEF Rename, matchVars
<1>5. ASSUME NEW m \in MatchIds, NEW new \in Contents, Revise(m, new) PROVE Inv'
  <2>1. Rows'
    BY <1>5, PlayerAssumption DEF Inv, Rows, Revise
  <2> QED  BY <1>5, <2>1, StepOfRows DEF Revise
<1> QED  BY <1>1, <1>2, <1>3, <1>4, <1>5

LEMMA NextInv == Inv /\ [Next]_vars => Inv'
<1> SUFFICES ASSUME Inv, [Next]_vars PROVE Inv'
  OBVIOUS
<1>1. ASSUME NEW r \in Requests, NEW n \in Names, Resolve(r, n) /\ UNCHANGED matchVars
      PROVE  Inv'
  BY <1>1, StepOfPlayer
<1>2. ASSUME NEW r \in Requests, NEW p \in Puuids, ListRecent(r, p) /\ UNCHANGED matchVars
      PROVE  Inv'
  BY <1>2, StepOfPlayer
<1>3. ASSUME NEW r \in Requests, NEW m \in MatchIds, GetDetail(r, m) PROVE Inv'
  BY <1>3, StepOfRequest
<1>4. ASSUME NEW r \in Requests, RequestStepOf(r) \/ Cancel(r) PROVE Inv'
  BY <1>4, StepOfPlayer, StepOfRequest DEF RequestStepOf
<1>5. ASSUME NEW l \in Loads, LoadStepOf(l) PROVE Inv'
  BY <1>5, StepOfLoad
<1>6. CASE \/ \E p \in Puuids : ExpireRecent(p) \/ (ExpirePlayer(p) /\ UNCHANGED matchVars)
           \/ \E m \in MatchIds : ExpireMatch(m)
           \/ \E new \in [Puuids -> Names] : Rename(new) /\ UNCHANGED matchVars
           \/ \E m \in MatchIds, new \in Contents : Revise(m, new)
  BY <1>6, StepOfWorld
<1>7. CASE UNCHANGED vars
  <2>1. Rows' /\ UNCHANGED <<rq, inflight, loads>>
    BY <1>7 DEF Inv, Rows, vars
  <2> QED  BY <2>1, StepOfRows
<1> QED  BY <1>1, <1>2, <1>3, <1>4, <1>5, <1>6, <1>7 DEF Next

LEMMA InvHolds == Spec => []Inv
BY InitInv, NextInv, PTL DEF Spec

\* A match is loaded by one task, and nobody waits for a task that is over.
THEOREM MatchIsLoadedOnce == Spec => []OneLoad
BY InvHolds, InvGivesProperties, PTL

-----------------------------------------------------------------------------
(* Snapshots *)

Kept ==
    \A m \in MatchIds : matches[m] # None /\ matches'[m] # None
       => matches'[m].content = matches[m].content

\* Only a put, the clock and a purge write the row of a match, and none changes
\* the content of a row that stays.
LEMMA NextKeeps == Inv /\ [Next]_vars => Kept
<1> SUFFICES ASSUME Inv, [Next]_vars PROVE Kept
  OBVIOUS
<1>0. matches \in [MatchIds -> MatchRow \cup {None}]
  BY DEF Inv, Rows
<1>1. CASE UNCHANGED matches
  BY <1>1 DEF Kept
<1>2. ASSUME NEW l \in Loads, LoadPut(l) PROVE Kept
  <2>1. loads[l].match \in MatchIds
    BY <1>2 DEF Inv, LoadOK, Load, LoadPut
  <2> QED  BY <1>0, <1>2, <2>1 DEF LoadPut, PutMatch, Kept
<1>3. ASSUME NEW l \in Loads, LoadPurge(l) PROVE Kept
  BY <1>0, <1>3 DEF LoadPurge, Kept
<1>4. ASSUME NEW m \in MatchIds, ExpireMatch(m) PROVE Kept
  <2>1. matches[m] \in MatchRow
    BY <1>0, <1>4 DEF ExpireMatch, FreshMatch
  <2> QED  BY <1>0, <1>4, <2>1 DEF ExpireMatch, MatchRow, Kept
<1>5. \/ UNCHANGED matches
      \/ \E l \in Loads : LoadPut(l) \/ LoadPurge(l)
      \/ \E m \in MatchIds : ExpireMatch(m)
  BY DEF Next, vars, matchVars, RequestStepOf, LoadStepOf, GetDetail, LoadMatches,
         RecentHit, RecentMiss, IdsAnswer, Cancel, LoadRead, LoadStart, LoadAnswer,
         LoadConflict, ClearInflight, ExpireRecent, Revise
<1> QED  BY <1>1, <1>2, <1>3, <1>4, <1>5

\* The snapshot of a match never changes while its row stays.
THEOREM SnapshotsAreImmutable == Spec => MatchIsImmutable
<1>1. Inv /\ [Next]_vars => [Kept]_vars
  BY NextKeeps
<1>2. MatchIsImmutable <=> [][Kept]_vars
  BY DEF MatchIsImmutable, Kept
<1> QED  BY <1>1, <1>2, InvHolds, PTL DEF Spec

-----------------------------------------------------------------------------
(* Shared loads.  A step of SharedWork that concerns one match is found from    *)
(* what the step does to the table of loads and to one request.                *)

Stutters == Loading' = Loading /\ Awaited' = Awaited

\* A request awaits something only where it waits.
LEMMA IdleAwaitsNothing ==
    ASSUME Inv, NEW r \in Requests, rq[r].step # "wait"
    PROVE  Awaited[r] = {}
BY DEF Inv, RequestOK, Awaited

\* What is loading are the matches of running loads, one each, and callers
\* await such matches only.
LEMMA WhatIsLoading ==
    ASSUME Inv
    PROVE  /\ Loading \subseteq MatchIds
           /\ \A l \in Loads : Running(l) => loads[l].match \in Loading
           /\ \A m \in Loading : inflight[m] \in Loads /\ Running(inflight[m])
                                 /\ loads[inflight[m]].match = m
           /\ \A k, l \in Loads : Running(k) /\ Running(l) /\ loads[k].match = loads[l].match
                                  => k = l
           /\ \A r \in Requests : rq[r].loads \subseteq Loads /\ Awaited[r] \subseteq Loading
<1>1. \A l \in Loads : Running(l) => /\ loads[l].match \in MatchIds
                                     /\ inflight[loads[l].match] = l
  BY DEF Inv, Inflight, LoadOK, Load, Running
<1>2. \A r \in Requests : rq[r].loads \subseteq Loads /\ \A l \in rq[r].loads : Running(l)
  BY DEF Inv, RequestOK, Request, Joined
<1>. QED BY <1>1, <1>2 DEF Loading, Awaited

\* A request that gains or loses no load, beside loads that stay as they are.
LEMMA RequestStutters ==
    ASSUME Inv, NEW r \in Requests, NEW new, new.loads = {}, rq[r].step # "wait",
           rq' = [rq EXCEPT ![r] = new], UNCHANGED loads
    PROVE  Stutters
<1>1. rq[r].loads = {} /\ rq = [q \in Requests |-> rq[q]]
  BY DEF Inv, RequestOK
<1>2. \A q \in Requests : rq'[q].loads = rq[q].loads
  BY <1>1
<1>3. Loading' = Loading
  BY DEF Loading, Running
<1>. QED BY <1>2, <1>3 DEF Stutters, Awaited

\* What a look-up does to the tables: a free load is taken for each match that
\* has none, nothing else is touched, and whoever is not answered joins them all.
LEMMA LoadsAdded ==
    ASSUME Inv, NEW r \in Requests, NEW ids \in SUBSET MatchIds, LoadMatches(r, ids)
    PROVE  /\ \A l \in Loads : loads[l].step # "free" => loads'[l] = loads[l]
           /\ \A m \in MatchIds \ Unloaded(ids) : inflight'[m] = inflight[m]
           /\ \A m \in Unloaded(ids) :
                inflight'[m] \in Loads /\ loads'[inflight'[m]].step = "read"
                /\ loads'[inflight'[m]].match = m
           /\ \/ rq' = [rq EXCEPT ![r] = Idle]
              \/ \E joined \in SUBSET Loads :
                   /\ rq' = [rq EXCEPT ![r] = [Idle EXCEPT !.step = "wait", !.loads = joined]]
                   /\ \A m \in Unloaded(ids) : inflight'[m] \in joined
<1> DEFINE missing == Unloaded(ids)
           new == CHOOSE f \in Slots(missing) : TRUE
           task == [m \in ids |-> IF m \in missing THEN new[m] ELSE inflight[m]]
           joined == {l \in {task[m] : m \in ids} : loads[l].step # "done"}
           fresh(l) == \E m \in missing : new[m] = l
           owned(l) == CHOOSE m \in missing : new[m] = l
<1>1. missing \subseteq MatchIds /\ missing \subseteq ids
  BY DEF Unloaded
<1>2. /\ new \in [missing -> {l \in Loads : loads[l].step = "free"}]
      /\ \A m, n \in missing : new[m] = new[n] => m = n
  <2>1. new \in Slots(missing)
    BY DEF LoadMatches
  <2>. QED BY <2>1 DEF Slots
<1>3. /\ inflight' = [m \in MatchIds |-> IF m \in missing THEN new[m] ELSE inflight[m]]
      /\ loads' = [l \in Loads |->
                     IF fresh(l)
                     THEN [step |-> "read", match |-> owned(l), content |-> None]
                     ELSE loads[l]]
      /\ IF joined = {} \/ \E l \in joined : loads[l].step = "failed"
         THEN Answer(r)
         ELSE rq' = [rq EXCEPT ![r] = [Idle EXCEPT !.step = "wait", !.loads = joined]]
  BY DEF LoadMatches
<1>4. \A m \in missing : new[m] \in Loads /\ loads[new[m]].step = "free"
                         /\ fresh(new[m]) /\ owned(new[m]) = m
  BY <1>2
<1>5. \A l \in Loads : fresh(l) => loads[l].step = "free"
  BY <1>2
<1>6. joined \subseteq Loads
  <2>. SUFFICES ASSUME NEW m \in ids, m \notin missing PROVE inflight[m] \in Loads
    BY <1>4
  <2>. QED BY DEF Unloaded, Inv, Inflight
<1>7. \A m \in missing : task[m] = new[m] /\ new[m] \in joined
  BY <1>1, <1>4
<1> HIDE DEF missing, new, task, joined, fresh, owned
<1>8. \A l \in Loads : loads[l].step # "free" => loads'[l] = loads[l]
  BY <1>3, <1>5
<1>9. \A m \in MatchIds \ missing : inflight'[m] = inflight[m]
  BY <1>3
<1>10. \A m \in missing : /\ inflight'[m] = new[m] /\ inflight'[m] \in Loads
                          /\ loads'[inflight'[m]].step = "read"
                          /\ loads'[inflight'[m]].match = m
  BY <1>1, <1>3, <1>4
<1>11. \/ rq' = [rq EXCEPT ![r] = Idle]
       \/ rq' = [rq EXCEPT ![r] = [Idle EXCEPT !.step = "wait", !.loads = joined]]
  BY <1>3 DEF Answer
<1>. QED BY <1>6, <1>7, <1>8, <1>9, <1>10, <1>11 DEF missing

\* A look-up starts what is not loading, and joins all it starts.
LEMMA LookUpAsks ==
    ASSUME Inv, Inv', NEW r \in Requests, NEW ids \in SUBSET MatchIds, LoadMatches(r, ids),
           rq[r].step # "wait"
    PROVE  \E started, awaited \in SUBSET MatchIds : Shared!Ask(r, started, awaited)
<1> DEFINE started == Unloaded(ids)
<1>1. started \subseteq MatchIds /\ \A m \in started : inflight[m] = None
  BY DEF Unloaded
<1>2. \A l \in Loads : Running(l) => Running(l)' /\ loads'[l] = loads[l]
  BY LoadsAdded DEF Running
<1>3. started \cap Loading = {}
  BY <1>1, WhatIsLoading, PlayerAssumption
<1>4. started \subseteq Loading'
  <2>. SUFFICES ASSUME NEW m \in started PROVE m \in Loading'
    OBVIOUS
  <2>1. PICK l \in Loads : loads'[l].step = "read" /\ loads'[l].match = m
    BY LoadsAdded
  <2>. QED BY <2>1 DEF Loading, Running
<1>5. Loading \subseteq Loading'
  BY <1>2 DEF Loading
<1>6. Loading' \subseteq Loading \cup started
  <2>. SUFFICES ASSUME NEW l \in Loads, Running(l)', loads'[l].match \notin started
                PROVE  loads'[l].match \in Loading
    BY DEF Loading
  <2> DEFINE m == loads'[l].match
  <2>1. m \in MatchIds /\ inflight'[m] = l
    BY DEF Inv, Inflight, LoadOK, Load, Running
  <2>2. inflight[m] = l
    BY <2>1, LoadsAdded
  <2>3. l # None /\ loads[l].match = m
    BY <2>1, <2>2, PlayerAssumption DEF Inv, Inflight
  <2>4. loads[l].step # "free"
    BY <2>1, <2>3, PlayerAssumption DEF Inv, LoadOK
  <2>5. loads'[l] = loads[l]
    BY <2>4, LoadsAdded
  <2>. QED BY <2>5 DEF Loading, Running
<1>7. \A q \in Requests : q # r => Awaited'[q] = Awaited[q]
  <2>. TAKE q \in Requests
  <2>. HAVE q # r
  <2>1. rq'[q] = rq[q]
    <3>1. PICK new : rq' = [rq EXCEPT ![r] = new]
      BY LoadsAdded
    <3>. QED BY <3>1 DEF Inv
  <2>2. \A l \in rq[q].loads : loads'[l] = loads[l]
    BY <1>2 DEF Inv, RequestOK, Request, Joined
  <2>. QED BY <2>1, <2>2 DEF Awaited
<1>8. Awaited'[r] \subseteq Loading' /\ Loading' \subseteq MatchIds
  <2>1. \A l \in Loads : Running(l)' => loads'[l].match \in MatchIds
    BY DEF Inv, LoadOK, Load, Running
  <2>2. \A l \in rq'[r].loads : l \in Loads /\ Running(l)'
    BY DEF Inv, RequestOK, Request, Joined
  <2>. QED BY <2>1, <2>2 DEF Loading, Awaited
<1>9. Awaited'[r] = {} \/ started \subseteq Awaited'[r]
  <2>1. CASE rq' = [rq EXCEPT ![r] = Idle]
    <3>1. rq'[r].loads = {}
      BY <2>1 DEF Inv, Idle
    <3>. QED BY <3>1 DEF Awaited
  <2>2. ASSUME NEW joined \in SUBSET Loads,
               rq' = [rq EXCEPT ![r] = [Idle EXCEPT !.step = "wait", !.loads = joined]],
               \A m \in started : inflight'[m] \in joined
        PROVE  started \subseteq Awaited'[r]
    <3>1. rq'[r].loads = joined
      BY <2>2 DEF Inv, Idle
    <3>2. Awaited'[r] = {loads'[l].match : l \in joined}
      BY <3>1 DEF Awaited
    <3>3. \A m \in started : loads'[inflight'[m]].match = m
      BY LoadsAdded
    <3>. QED BY <2>2, <3>2, <3>3
  <2>. QED BY <2>1, <2>2, LoadsAdded
<1>10. Awaited[r] = {} /\ Awaited' = [Awaited EXCEPT ![r] = Awaited'[r]]
  <2>1. Awaited' = [q \in Requests |-> Awaited'[q]]
    BY DEF Awaited
  <2>. QED BY <1>7, <2>1, IdleAwaitsNothing DEF Awaited
<1>11. Shared!Ask(r, started, Awaited'[r])
  BY <1>3, <1>4, <1>5, <1>6, <1>8, <1>9, <1>10 DEF Shared!Ask
<1>. QED BY <1>1, <1>8, <1>11

\* The end of a load is the end of its match, and told to all who await it.
LEMMA FinishEnds ==
    ASSUME Inv, NEW l \in Loads, NEW step \in {"done", "failed"},
           Running(l), Finish(l, step)
    PROVE  \E m \in MatchIds, failed \in BOOLEAN : Shared!End(m, failed)
<1> DEFINE m == loads[l].match
           failed == step = "failed"
<1>1. /\ loads' = [k \in Loads |-> loads'[k]]
      /\ \A k \in Loads : loads'[k].match = loads[k].match
      /\ \A k \in Loads : Running(k)' <=> Running(k) /\ k # l
  BY DEF Inv, LoadOK, Load, Finish, Step, Running
<1>2. m \in MatchIds /\ m \in Loading
  BY WhatIsLoading
<1>3. Loading' = Loading \ {m}
  BY <1>1, WhatIsLoading DEF Loading
<1>4. \A r \in Requests :
         Awaited'[r] = IF failed /\ m \in Awaited[r] THEN {} ELSE Awaited[r] \ {m}
  <2>. TAKE r \in Requests
  <2>1. /\ rq[r].loads \subseteq Loads
        /\ \A k \in rq[r].loads : Running(k) /\ (loads[k].match = m => k = l)
        /\ rq[r] \in Request
    BY WhatIsLoading DEF Inv, RequestOK, Joined
  <2>2. m \in Awaited[r] <=> l \in rq[r].loads
    BY <2>1 DEF Awaited
  <2>3. Awaited'[r] = {loads[k].match : k \in rq'[r].loads} \/ ~(rq'[r].loads \subseteq Loads)
    BY <1>1 DEF Awaited
  <2>4. CASE l \notin rq[r].loads
    <3>1. rq'[r] = rq[r]
      BY <2>4 DEF Finish
    <3>. QED BY <2>1, <2>2, <2>3, <2>4, <3>1 DEF Awaited
  <2>5. CASE l \in rq[r].loads /\ (failed \/ rq[r].loads = {l})
    <3>1. rq'[r].loads = {}
      BY <2>5 DEF Finish, Idle
    <3>2. Awaited'[r] = {}
      BY <3>1 DEF Awaited
    <3>3. rq[r].loads = {l} => Awaited[r] \ {m} = {}
      BY DEF Awaited
    <3>. QED BY <2>2, <2>5, <3>2, <3>3
  <2>6. CASE l \in rq[r].loads /\ ~(failed \/ rq[r].loads = {l})
    <3>1. rq'[r] = [rq[r] EXCEPT !.loads = @ \ {l}]
      BY <2>6 DEF Finish
    <3>2. rq'[r].loads = rq[r].loads \ {l}
      BY <2>1, <3>1 DEF Request
    <3>3. {loads[k].match : k \in rq[r].loads \ {l}} = Awaited[r] \ {m}
      BY <2>1 DEF Awaited
    <3>. QED BY <2>1, <2>3, <2>6, <3>2, <3>3
  <2>. QED BY <2>4, <2>5, <2>6
<1>5. Awaited' = [r \in Requests |-> Awaited'[r]]
  BY DEF Awaited
<1>6. Shared!End(m, failed)
  BY <1>2, <1>3, <1>4, <1>5 DEF Shared!End
<1>. QED BY <1>2, <1>6

\* Requests: a look-up asks, a cancellation gives up, all else is not seen.
LEMMA RequestShares ==
    ASSUME Inv, Inv', NEW r \in Requests,
           \/ \E m \in MatchIds : GetDetail(r, m)
           \/ RecentHit(r) \/ RecentMiss(r) \/ IdsAnswer(r) \/ Cancel(r)
    PROVE  Stutters \/ Shared!Next
<1>1. ASSUME NEW ids \in SUBSET MatchIds, LoadMatches(r, ids), rq[r].step # "wait"
      PROVE  Shared!Next
  BY <1>1, LookUpAsks DEF Shared!Next
<1>2. ASSUME NEW m \in MatchIds, GetDetail(r, m) PROVE Shared!Next
  BY <1>1, <1>2 DEF GetDetail, At
<1>3. CASE RecentHit(r)
  BY <1>1, <1>3 DEF RecentHit, At
<1>4. CASE RecentMiss(r)
  <2>1. rq' = [rq EXCEPT ![r] = [rq[r] EXCEPT !.step = "ids"]] /\ rq[r].step # "wait"
    BY <1>4 DEF RecentMiss, At
  <2>2. [rq[r] EXCEPT !.step = "ids"].loads = {}
    BY <2>1 DEF Inv, RequestOK, Request
  <2>. QED BY <1>4, <2>1, <2>2, RequestStutters DEF RecentMiss, matchVars
<1>5. CASE IdsAnswer(r)
  <2>1. CASE Answer(r) /\ UNCHANGED loads
    BY <1>5, <2>1, RequestStutters DEF IdsAnswer, At, Answer, Idle
  <2>2. CASE LoadMatches(r, MatchIds)
    BY <1>1, <1>5, <2>2 DEF IdsAnswer, At
  <2>. QED BY <1>5, <2>1, <2>2 DEF IdsAnswer, matchVars
<1>6. CASE Cancel(r)
  <2>1. rq' = [rq EXCEPT ![r] = Idle] /\ UNCHANGED loads
    BY <1>6 DEF Cancel, Answer, matchVars
  <2>2. \A q \in Requests : rq'[q].loads = IF q = r THEN {} ELSE rq[q].loads
    <3>1. rq = [q \in Requests |-> rq[q]] /\ Idle.loads = {}
      BY DEF Inv, Idle
    <3>. QED BY <2>1, <3>1
  <2>3. \A q \in Requests : Awaited'[q] = IF q = r THEN {} ELSE Awaited[q]
    <3>. TAKE q \in Requests
    <3>1. CASE q = r
      BY <2>2, <3>1 DEF Awaited
    <3>2. CASE q # r
      BY <2>1, <2>2, <3>2 DEF Awaited
    <3>. QED BY <3>1, <3>2
  <2>. DEFINE left == [Awaited EXCEPT ![r] = {}]
  <2>5. Awaited' = left
    <3>1. Awaited' = [q \in Requests |-> Awaited'[q]] /\ left = [q \in Requests |-> left[q]]
      BY DEF Awaited
    <3>2. \A q \in Requests : left[q] = IF q = r THEN {} ELSE Awaited[q]
      BY DEF Awaited
    <3> HIDE DEF left
    <3>. QED BY <2>3, <3>1, <3>2
  <2>4. Shared!GiveUp(r)
    BY <2>1, <2>5 DEF Shared!GiveUp, Loading, Running
  <2>. QED BY <2>4 DEF Shared!Next
<1>. QED BY <1>2, <1>3, <1>4, <1>5, <1>6

\* The steps on the way to the player are not seen.
LEMMA PlayerStutters ==
    ASSUME Inv, NEW r \in Requests, UNCHANGED matchVars,
           \/ \E n \in Names : Resolve(r, n)
           \/ \E p \in Puuids : ListRecent(r, p)
           \/ PlayerStep(r)
    PROVE  Stutters
<1>1. rq[r].step # "wait" /\ rq[r].loads = {} /\ rq[r] \in Request /\ UNCHANGED loads
  BY DEF Resolve, ListRecent, PlayerStep, AccountAnswer, SavePlayer, At, matchVars,
         Inv, RequestOK
<1>2. ASSUME NEW new, new.loads = {}, rq' = [rq EXCEPT ![r] = new] PROVE Stutters
  BY <1>1, <1>2, RequestStutters
<1>3. ASSUME NEW op, NEW p, PlayerKnown(r, op, p) PROVE Stutters
  <2>1. /\ [Idle EXCEPT !.step = "recent", !.op = op, !.puuid = p].loads = {}
        /\ Idle.loads = {}
    BY DEF Idle
  <2>. QED BY <1>2, <1>3, <2>1 DEF PlayerKnown
<1>4. CASE Answer(r)
  BY <1>2, <1>4 DEF Answer, Idle
<1>5. CASE AccountAnswer(r)
  <2>1. ASSUME NEW p \in Holder(r),
               rq' = [rq EXCEPT ![r].step = "save", ![r].puuid = p, ![r].name = name[p]]
        PROVE  Stutters
    <3>. DEFINE new == [rq[r] EXCEPT !.step = "save", !.puuid = p, !.name = name[p]]
    <3>1. new.loads = {} /\ rq' = [rq EXCEPT ![r] = new]
      BY <1>1, <2>1 DEF Request
    <3> HIDE DEF new
    <3>. QED BY <1>2, <3>1
  <2>. QED BY <1>4, <1>5, <2>1 DEF AccountAnswer
<1>6. CASE SavePlayer(r)
  BY <1>3, <1>6 DEF SavePlayer
<1>7. ASSUME NEW n \in Names, Resolve(r, n) PROVE Stutters
  BY <1>2, <1>7 DEF Resolve, Idle
<1>8. ASSUME NEW p \in Puuids, ListRecent(r, p) PROVE Stutters
  <2>1. [Idle EXCEPT !.step = "account", !.op = "list", !.puuid = p].loads = {}
    BY DEF Idle
  <2>. QED BY <1>2, <1>3, <1>8, <2>1 DEF ListRecent
<1>. QED BY <1>5, <1>6, <1>7, <1>8 DEF PlayerStep

\* Loads: the end of one is an end, all before and the callback after are not seen.
LEMMA LoadShares ==
    ASSUME Inv, NEW l \in Loads, LoadStepOf(l)
    PROVE  Stutters \/ Shared!Next
<1>1. ASSUME UNCHANGED rq,
             \A k \in Loads : (Running(k)' <=> Running(k))
                              /\ (Running(k) => loads'[k].match = loads[k].match)
      PROVE  Stutters
  <2>1. Loading' = Loading
    BY <1>1 DEF Loading
  <2>2. \A r \in Requests : Awaited'[r] = Awaited[r]
    <3>. TAKE r \in Requests
    <3>1. \A k \in rq[r].loads : loads'[k].match = loads[k].match
      BY <1>1 DEF Inv, RequestOK, Request, Joined
    <3>. QED BY <1>1, <3>1 DEF Awaited
  <2>. QED BY <2>1, <2>2 DEF Stutters, Awaited
<1>2. ASSUME NEW step \in {"done", "failed"}, Running(l), Finish(l, step)
      PROVE  Shared!Next
  BY <1>2, FinishEnds DEF Shared!Next
<1>3. ASSUME NEW new, Running(l), new.step \notin {"free", "done", "failed"},
             new.match = loads[l].match, loads' = [loads EXCEPT ![l] = new], UNCHANGED rq
      PROVE  Stutters
  <2>1. \A k \in Loads : loads'[k] = IF k = l THEN new ELSE loads[k]
    BY <1>3 DEF Inv
  <2>. QED BY <1>1, <1>3, <2>1 DEF Running
<1>4. ASSUME NEW step \in {"queued", "asked"}, Running(l), Step(l, step), UNCHANGED rq
      PROVE  Stutters
  <2>1. /\ loads[l] \in Load
        /\ loads' = [loads EXCEPT ![l] = [loads[l] EXCEPT !.step = step]]
    BY <1>4 DEF Inv, LoadOK, Step
  <2>2. /\ [loads[l] EXCEPT !.step = step].step = step
        /\ [loads[l] EXCEPT !.step = step].match = loads[l].match
    BY <2>1 DEF Load
  <2>. QED BY <1>3, <1>4, <2>1, <2>2
<1>5. CASE LoadRead(l)
  BY <1>2, <1>4, <1>5 DEF LoadRead, Running
<1>6. CASE LoadStart(l)
  BY <1>4, <1>6 DEF LoadStart, Running
<1>7. CASE LoadAnswer(l)
  <2>1. CASE Finish(l, "failed")
    BY <1>2, <1>7, <2>1 DEF LoadAnswer, Running
  <2>2. CASE /\ loads' = [loads EXCEPT ![l].step = "put",
                                       ![l].content = content[loads[l].match]]
             /\ UNCHANGED rq
    <3> DEFINE new == [loads[l] EXCEPT !.step = "put", !.content = content[loads[l].match]]
    <3>1. loads' = [loads EXCEPT ![l] = new] /\ loads[l] \in Load
      BY <2>2 DEF Inv, LoadOK
    <3>2. new.step = "put" /\ new.match = loads[l].match
      BY <3>1 DEF Load
    <3> HIDE DEF new
    <3>. QED BY <1>3, <1>7, <2>2, <3>1, <3>2 DEF LoadAnswer, Running
  <2>. QED BY <1>7, <2>1, <2>2 DEF LoadAnswer
<1>8. CASE LoadPut(l)
  <2> DEFINE new == [loads[l] EXCEPT !.step = "purge", !.content = None]
  <2>1. loads' = [loads EXCEPT ![l] = new] /\ loads[l] \in Load
    BY <1>8 DEF Inv, LoadOK, LoadPut
  <2>2. new.step = "purge" /\ new.match = loads[l].match
    BY <2>1 DEF Load
  <2> HIDE DEF new
  <2>. QED BY <1>3, <1>8, <2>1, <2>2 DEF LoadPut, Running
<1>9. CASE LoadConflict(l)
  BY <1>2, <1>9 DEF LoadConflict, Running
<1>10. CASE LoadPurge(l)
  BY <1>2, <1>10 DEF LoadPurge, Running
<1>11. CASE ClearInflight(l)
  <2>1. \A k \in Loads : loads'[k] = IF k = l THEN NoLoad ELSE loads[k]
    BY <1>11 DEF Inv, ClearInflight
  <2>. QED BY <1>1, <1>11, <2>1 DEF ClearInflight, Over, NoLoad, Running
<1>. QED BY <1>5, <1>6, <1>7, <1>8, <1>9, <1>10, <1>11 DEF LoadStepOf

LEMMA NextShares == Inv /\ Inv' /\ [Next]_vars => [Shared!Next]_<<Loading, Awaited>>
<1>. SUFFICES ASSUME Inv, Inv', [Next]_vars PROVE Stutters \/ Shared!Next
  BY DEF Stutters
<1>1. ASSUME NEW r \in Requests, NEW n \in Names, Resolve(r, n) /\ UNCHANGED matchVars
      PROVE  Stutters
  BY <1>1, PlayerStutters
<1>2. ASSUME NEW r \in Requests, NEW p \in Puuids, ListRecent(r, p) /\ UNCHANGED matchVars
      PROVE  Stutters
  BY <1>2, PlayerStutters
<1>3. ASSUME NEW r \in Requests, NEW m \in MatchIds, GetDetail(r, m)
      PROVE  Stutters \/ Shared!Next
  BY <1>3, RequestShares
<1>4. ASSUME NEW r \in Requests, RequestStepOf(r) \/ Cancel(r)
      PROVE  Stutters \/ Shared!Next
  BY <1>4, PlayerStutters, RequestShares DEF RequestStepOf
<1>5. ASSUME NEW l \in Loads, LoadStepOf(l) PROVE Stutters \/ Shared!Next
  BY <1>5, LoadShares
<1>6. CASE UNCHANGED <<rq, loads>>
  BY <1>6 DEF Stutters, Loading, Awaited, Running
<1>. QED BY <1>1, <1>2, <1>3, <1>4, <1>5, <1>6
         DEF Next, vars, matchVars, ExpireRecent, ExpirePlayer, ExpireMatch, Rename, Revise

\* The match service shares its loads: for any number of callers and matches,
\* what is loading is joined and never loaded anew, a caller that goes away
\* stops nobody's load, and a load's end is told to all who await it.
THEOREM LoadsShared == Spec => LoadsAreShared
<1>1. Init => Shared!Init
  <2>. SUFFICES ASSUME Init PROVE Shared!Init
    OBVIOUS
  <2>1. /\ \A l \in Loads : ~Running(l)
        /\ \A r \in Requests : rq[r].loads = {}
    BY DEF Init, PlayerInit, NoLoad, Idle, Running
  <2>. QED BY <2>1 DEF Shared!Init, Loading, Awaited
<1>. QED BY <1>1, NextShares, InvHolds, PTL DEF Spec, LoadsAreShared, Shared!Spec
=============================================================================
