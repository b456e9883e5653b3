---------------------------- MODULE SectionProofs ----------------------------
(* Proofs about the replay section of the match page: what a poll still in     *)
(* flight, a late answer and a click may do to the replay that is followed and *)
(* to the only copy of its token.                                              *)
EXTENDS ReplaySection, SequenceTheorems, TLAPS

-----------------------------------------------------------------------------
(* localStorage: the capabilities without the one of a replay *)

\* Removing a position shifts what comes after it.
LEMMA RemovedAt ==
    ASSUME NEW S, NEW s \in Seq(S), NEW i \in 1..Len(s)
    PROVE  /\ RemoveAt(s, i) \in Seq(S)
           /\ Len(RemoveAt(s, i)) = Len(s) - 1
           /\ \A k \in 1..Len(s) - 1 : RemoveAt(s, i)[k] = IF k < i THEN s[k] ELSE s[k + 1]
<1>. DEFINE a == SubSeq(s, 1, i - 1)
            b == SubSeq(s, i + 1, Len(s))
<1>1. /\ a \in Seq(S) /\ Len(a) = i - 1
      /\ \A k \in 1..i - 1 : a[k] = s[k]
  OBVIOUS
<1>2. /\ b \in Seq(S) /\ Len(b) = Len(s) - i
      /\ \A k \in 1..Len(s) - i : b[k] = s[k + i]
  <2>1. \A k \in i + 1..Len(s) : s[k] \in S
    BY ElementOfSeq
  <2>2. /\ b \in Seq(S)
        /\ Len(b) = IF i + 1 <= Len(s) THEN Len(s) - (i + 1) + 1 ELSE 0
        /\ \A k \in 1..Len(s) - (i + 1) + 1 : b[k] = s[(i + 1) + k - 1]
    <3>1. i + 1 \in Int /\ Len(s) \in Int
      OBVIOUS
    <3>. QED BY <2>1, <3>1, SubSeqProperties
  <2>. HIDE DEF b
  <2>. QED BY <2>2
<1>. HIDE DEF a, b
<1>3. /\ a \o b \in Seq(S) /\ Len(a \o b) = Len(s) - 1
      /\ \A k \in 1..Len(s) - 1 : (a \o b)[k] = IF k <= i - 1 THEN a[k] ELSE b[k - (i - 1)]
  <2>1. /\ a \o b \in Seq(S) /\ Len(a \o b) = Len(a) + Len(b)
        /\ \A k \in 1..Len(a) + Len(b) :
             (a \o b)[k] = IF k <= Len(a) THEN a[k] ELSE b[k - Len(a)]
    BY <1>1, <1>2, ConcatProperties
  <2>2. Len(a) + Len(b) = Len(s) - 1 /\ Len(a) = i - 1
    BY <1>1, <1>2
  <2>. QED BY <2>1, <2>2
<1>4. \A k \in i..Len(s) - 1 : k - (i - 1) \in 1..Len(s) - i /\ (k - (i - 1)) + i = k + 1
  OBVIOUS
<1>5. ASSUME NEW k \in 1..Len(s) - 1
      PROVE  (a \o b)[k] = IF k < i THEN s[k] ELSE s[k + 1]
  <2>1. CASE k < i
    BY <1>1, <1>3, <2>1
  <2>2. CASE ~(k < i)
    BY <1>2, <1>3, <1>4, <2>2
  <2>. QED BY <2>1, <2>2
<1>. QED BY <1>3, <1>5 DEF RemoveAt, a, b

\* removeReplayCapability takes one entry away and leaves the others.
LEMMA WithoutKeeps ==
    ASSUME saved \in Seq(Replays), IsInjective(saved), NEW r
    PROVE  /\ Without(r) \in Seq(Replays) /\ IsInjective(Without(r))
           /\ ToSet(Without(r)) = ToSet(saved) \ {r}
<1>1. CASE ~Contains(saved, r)
  BY <1>1 DEF Without, Contains, ToSet
<1>2. CASE Contains(saved, r)
  <2>. DEFINE at == CHOOSE i \in DOMAIN saved : saved[i] = r
              left == RemoveAt(saved, at)
  <2>1. at \in 1..Len(saved) /\ saved[at] = r
    BY <1>2 DEF Contains
  <2>. HIDE DEF at
  <2>2. /\ left \in Seq(Replays) /\ Len(left) = Len(saved) - 1
        /\ \A k \in 1..Len(saved) - 1 : left[k] = IF k < at THEN saved[k] ELSE saved[k + 1]
    BY <2>1, RemovedAt
  <2>3. Without(r) = left
    BY <1>2 DEF Without, at
  <2>. HIDE DEF left
  <2>4. IsInjective(left)
    BY <2>1, <2>2 DEF IsInjective
  <2>5. ToSet(left) \subseteq ToSet(saved) \ {r}
    <3>1. ASSUME NEW k \in 1..Len(saved) - 1 PROVE left[k] \in ToSet(saved) \ {r}
      <4>. DEFINE j == IF k < at THEN k ELSE k + 1
      <4>1. j \in 1..Len(saved) /\ j # at /\ left[k] = saved[j]
        BY <2>1, <2>2
      <4>. HIDE DEF j
      <4>2. saved[j] # saved[at]
        BY <2>1, <4>1 DEF IsInjective
      <4>. QED BY <2>1, <4>1, <4>2 DEF ToSet
    <3>. QED BY <2>2, <3>1 DEF ToSet
  <2>6. ASSUME NEW i \in 1..Len(saved), saved[i] # r PROVE saved[i] \in ToSet(left)
    <3>1. CASE i < at
      BY <2>1, <2>2, <2>6, <3>1 DEF ToSet
    <3>2. CASE i > at
      <4>1. i - 1 \in 1..Len(saved) - 1 /\ left[i - 1] = saved[i]
        BY <2>1, <2>2, <3>2
      <4>. QED BY <2>2, <4>1 DEF ToSet
    <3>. QED BY <2>1, <2>6, <3>1, <3>2
  <2>7. ToSet(saved) \ {r} \subseteq ToSet(left)
    BY <2>6 DEF ToSet
  <2>. QED BY <2>2, <2>3, <2>4, <2>5, <2>7
<1>. QED BY <1>1, <1>2

\* saveReplayCapability writes a new entry last.
LEMMA Appended ==
    ASSUME NEW s \in Seq(Replays), IsInjective(s), NEW r \in Replays, r \notin ToSet(s)
    PROVE  /\ Append(s, r) \in Seq(Replays) /\ IsInjective(Append(s, r))
           /\ ToSet(Append(s, r)) = ToSet(s) \cup {r}
<1>1. /\ Len(Append(s, r)) = Len(s) + 1 /\ Append(s, r)[Len(s) + 1] = r
      /\ \A k \in 1..Len(s) : Append(s, r)[k] = s[k]
      /\ Append(s, r) \in Seq(Replays)
  OBVIOUS
<1>2. IsInjective(Append(s, r))
  BY <1>1 DEF IsInjective, ToSet
<1>3. ToSet(Append(s, r)) \subseteq ToSet(s) \cup {r}
  BY <1>1 DEF ToSet
<1>4. ASSUME NEW i \in 1..Len(s) PROVE s[i] \in ToSet(Append(s, r))
  BY <1>1 DEF ToSet
<1>5. r \in ToSet(Append(s, r))
  BY <1>1 DEF ToSet
<1>. QED BY <1>1, <1>2, <1>3, <1>4, <1>5 DEF ToSet

\* Contains and ToSet speak of the same entries.
LEMMA ContainsToSet ==
    ASSUME saved \in Seq(Replays), NEW r
    PROVE  Contains(saved, r) <=> r \in ToSet(saved)
BY DEF Contains, ToSet

-----------------------------------------------------------------------------
(* What the pieces of a step do to the component's state *)

\* applyStatus keeps the types, saves the replay or drops it, and drops it only
\* for a status that ends it.
LEMMA Applied ==
    ASSUME TypeOK, NEW s \in State, NEW r \in Replays, NEW is \in Statuses, Apply(s, r, is)
    PROVE  /\ next' \in State /\ renewed' \in BOOLEAN
           /\ saved' \in Seq(Replays) /\ IsInjective(saved')
           /\ ToSet(saved') \subseteq ToSet(saved) \cup {r}
           /\ ToSet(saved) \ ToSet(saved') \subseteq {r}
           /\ is # "expired" => ToSet(saved) \subseteq ToSet(saved')
           /\ \/ next'.capability = None
              \/ next'.capability = s.capability /\ ToSet(saved) \subseteq ToSet(saved')
<1>1. saved \in Seq(Replays) /\ IsInjective(saved)
  BY DEF TypeOK
<1>2. /\ Without(r) \in Seq(Replays) /\ IsInjective(Without(r))
      /\ ToSet(Without(r)) = ToSet(saved) \ {r}
  BY <1>1, WithoutKeeps
<1>3. CASE is \in {"expired", "deleted"}
  <2>1. is = "expired"
    BY <1>3 DEF Statuses
  <2>2. next' = Cleared(s) /\ saved' = Without(r) /\ renewed' = renewed
    BY <1>3 DEF Apply
  <2>3. Cleared(s) \in State /\ Cleared(s).capability = None
    BY DEF Cleared, State, Optional
  <2>. QED BY <1>2, <2>1, <2>2, <2>3 DEF TypeOK
<1>4. CASE is \notin {"expired", "deleted"}
  <2>1. /\ next' = [s EXCEPT !.status = [replay |-> r, is |-> is]]
        /\ saved' = Append(Without(r), r) /\ renewed' = TRUE
    BY <1>4 DEF Apply
  <2>2. next' \in State /\ next'.capability = s.capability
    BY <2>1 DEF State, Optional, Status
  <2>3. /\ saved' \in Seq(Replays) /\ IsInjective(saved')
        /\ ToSet(saved') = (ToSet(saved) \ {r}) \cup {r}
    BY <1>2, <2>1, Appended
  <2>. QED BY <2>1, <2>2, <2>3
<1>. QED BY <1>3, <1>4

\* clearCapabilityState drops one replay and follows nothing any more.
LEMMA ClearedState ==
    ASSUME TypeOK, NEW r, Clear(r)
    PROVE  /\ next' \in State /\ renewed' \in BOOLEAN
           /\ saved' \in Seq(Replays) /\ IsInjective(saved')
           /\ ToSet(saved') = ToSet(saved) \ {r}
           /\ next'.capability = None
<1>1. next' = Cleared(next) /\ saved' = Without(r) /\ renewed' = renewed
  BY DEF Clear
<1>2. Cleared(next) \in State /\ Cleared(next).capability = None
  BY DEF Cleared, State, Optional, TypeOK
<1>. QED BY <1>1, <1>2, WithoutKeeps DEF TypeOK

\* A poll is only on its way while there is something to follow.
Following(s) == Loading(s) \/ Polling(s)
WatchedOK == \A c \in Chains : chains[c].step \in {"due", "served"} => Following(view)

\* A commit ends the requests of the effects it restarts; the others still ask
\* about the replay that is followed.
LEMMA Committed ==
    ASSUME TypeOK, WatchedOK, NEW s \in State, Commit(s)
    PROVE  /\ view' = s /\ next' = s /\ renewed' = FALSE
           /\ chains' \in [Chains -> [step : {"off", "due", "served", "stopped"},
                                      reply : Optional(Replies)]]
           /\ handle' \in Optional(Chains)
           /\ listing' \in [{"effect", "user"} -> Optional(Replays)]
           /\ WatchedOK'
           /\ \A c \in Chains : chains'[c].step = "served" =>
                chains'[c] = chains[c] /\ view'.capability = view.capability
           /\ listing'["user"] = listing["user"]
           /\ listing'["effect"] \in {None, listing["effect"]}
<1>1. view' = s /\ next' = s /\ renewed' = FALSE
  BY DEF Commit
<1>2. CASE Rerun(s)
  <2>1. /\ chains' = [c \in Chains |-> IF c = 1 THEN FirstChain(s) ELSE Off]
        /\ handle' = IF Polling(s) THEN 1 ELSE None
        /\ listing' = [listing EXCEPT !["effect"] = None]
    BY <1>2 DEF Commit, Effects
  <2>2. 1 \in Chains
    BY SectionAssumption DEF Chains
  <2>3. /\ FirstChain(s) = [step |-> IF Following(s) THEN "due" ELSE "off", reply |-> None]
        /\ Off = [step |-> "off", reply |-> None]
    BY DEF FirstChain, Off, Following
  <2>4. \A c \in Chains :
          /\ chains'[c] \in [step : {"off", "due"}, reply : {None}]
          /\ chains'[c].step = "due" => Following(s)
    BY <2>1, <2>3
  <2>5. chains' \in [Chains -> [step : {"off", "due", "served", "stopped"},
                                reply : Optional(Replies)]]
    BY <2>1, <2>3 DEF Optional
  <2>6. WatchedOK'
    BY <1>1, <2>4 DEF WatchedOK, Following, Loading, Polling, Watched
  <2>7. listing' \in [{"effect", "user"} -> Optional(Replays)]
        /\ listing'["user"] = listing["user"] /\ listing'["effect"] = None
    BY <2>1 DEF TypeOK, Optional
  <2>. QED BY <1>1, <2>1, <2>2, <2>4, <2>5, <2>6, <2>7 DEF Optional
<1>3. CASE ~Rerun(s)
  <2>1. UNCHANGED <<chains, handle, listing>>
    BY <1>3 DEF Commit, effectVars
  <2>2. s.capability = view.capability /\ s.uploading = view.uploading /\ s.status = view.status
    BY <1>3 DEF Rerun
  <2>3. Following(s) <=> Following(view)
    BY <2>2 DEF Following, Loading, Polling, Watched
  <2>4. WatchedOK'
    BY <1>1, <2>1, <2>3 DEF WatchedOK, Following, Loading, Polling, Watched
  <2>. QED BY <1>1, <2>1, <2>2, <2>4 DEF TypeOK
<1>. QED BY <1>2, <1>3

-----------------------------------------------------------------------------
(* The inductive invariant *)

\* What the server never serves again once it is so.
Lost == {"expired", "deleting", "gone"}

\* The replays the page may still ask about.
Refs == Reachable \cup {listing["effect"]}

\* They exist on the server, ...
KnownOK == \A r \in Replays : r \in Refs => server[r] # "none"

\* ... as the one an upload sends to does, ...
UploadOK == upload.step \in {"sending", "completed"} => upload.replay # None

\* ... and an answer that is still to be applied says of its replay what is so
\* or was so, and cannot be undone.
AnswerOK ==
    \A c \in Chains : chains[c].step = "served" =>
      /\ chains[c].reply \in {"expired", "gone"} => server[view.capability] \in Lost
      /\ chains[c].reply = "ready" => server[view.capability] \in Lost \cup {"ready"}
ListOK == listing["effect"] # None => server[listing["effect"]] \in Lost \cup {"ready"}
AskOK == asks["delete"] # None => server[asks["delete"]] \in Lost

SectionInv ==
    TypeOK /\ WatchedOK /\ Held /\ KnownOK /\ UploadOK /\ AnswerOK /\ ListOK /\ AskOK

\* A request under way is about the replay that is followed.
LEMMA ActiveChain ==
    ASSUME TypeOK, WatchedOK, NEW c \in Chains, chains[c].step \in {"due", "served"}
    PROVE  view.capability \in Replays
BY DEF TypeOK, WatchedOK, Following, Loading, Polling, Watched, State, Optional

\* The server moves a replay on and never back.
LEMMA ServerMovesOn ==
    ASSUME TypeOK, [Next]_vars, NEW q \in Replays
    PROVE  /\ server[q] # "none" => server'[q] # "none"
           /\ server[q] \in Lost => server'[q] \in Lost
           /\ server[q] = "ready" => server'[q] \in Lost \cup {"ready"}
<1>. USE DEF Lost
<1>1. server \in [Replays -> Statuses \cup {"none", "gone"}]
  BY DEF TypeOK
<1>2. CASE server' = server
  BY <1>2
<1>3. ASSUME NEW r \in Replays, ServerStep(r)
      PROVE  server' = server
               \/ \E is \in After(server[r]) : server' = [server EXCEPT ![r] = is]
  BY <1>3 DEF ServerStep
<1>4. ASSUME NEW r \in Replays, NEW is \in After(server[r]),
             server' = [server EXCEPT ![r] = is]
      PROVE  /\ server[q] # "none" => server'[q] # "none"
             /\ server[q] \in Lost => server'[q] \in Lost
             /\ server[q] = "ready" => server'[q] \in Lost \cup {"ready"}
  BY <1>1, <1>4 DEF After
<1>5. ASSUME NEW r \in Replays, UploadCreated(r)
      PROVE  /\ server[r] = "none"
             /\ server' = [server EXCEPT ![r] = "created"]
  BY <1>5 DEF UploadCreated, Created
<1>6. ASSUME CompleteServed
      PROVE  /\ server[upload.replay] = "created"
             /\ server' = [server EXCEPT ![upload.replay] = "working"]
  BY <1>6 DEF CompleteServed
<1>7. ASSUME HandleRetry
      PROVE  /\ server[view.capability] = "failed"
             /\ server' = [server EXCEPT ![view.capability] = "working"]
  BY <1>7 DEF HandleRetry
<1>8. ASSUME HandleDelete
      PROVE  server' = [server EXCEPT ![view.capability] =
                          IF server[view.capability] = "gone" THEN "gone" ELSE "deleting"]
  BY <1>8 DEF HandleDelete
<1>9. ASSUME [Next]_vars
      PROVE  \/ server' = server
             \/ \E r \in Replays : ServerStep(r) \/ UploadCreated(r)
             \/ CompleteServed \/ HandleRetry \/ HandleDelete
  <2>1. CASE UNCHANGED vars
    BY <2>1 DEF vars
  <2>2. CASE Click
    BY <2>2 DEF Click, HandleUpload, HandleCancelUpload, OnVisibility, Reload
  <2>3. CASE Render \/ RefreshArtifacts \/ AskStep
    BY <2>3 DEF Render, RefreshArtifacts, AskStep, RetryAnswer, DeleteAnswer, Answered
  <2>4. ASSUME NEW c \in Chains, ChainStep(c) PROVE server' = server
    BY <2>4 DEF ChainStep, StatusRead, StatusAnswer, NotFound, NetworkError, OtherError
  <2>5. ASSUME NEW by, ArtifactsAnswer(by) PROVE server' = server
    BY <2>5 DEF ArtifactsAnswer
  <2>6. CASE UploadStep
    BY <2>6 DEF UploadStep, CompleteAnswer, UploadFails
  <2>. QED BY <1>9, <2>1, <2>2, <2>3, <2>4, <2>5, <2>6 DEF Next, Browser
<1>. QED BY <1>1, <1>2, <1>3, <1>4, <1>5, <1>6, <1>7, <1>8, <1>9

\* The replay a reload finds is the last one saved.
LEMMA MountedState ==
    ASSUME TypeOK
    PROVE  /\ Mounted \in State /\ Mounted.status = None /\ ~Mounted.uploading
           /\ Mounted.capability # None => Mounted.capability \in ToSet(saved)
<1>1. CASE saved = <<>>
  BY <1>1 DEF Mounted, State, Optional
<1>2. CASE saved # <<>>
  <2>1. Len(saved) \in 1..Len(saved) /\ saved[Len(saved)] \in Replays
    BY <1>2 DEF TypeOK
  <2>2. Last(saved) \in Replays /\ Last(saved) \in ToSet(saved)
    BY <2>1 DEF Last, ToSet, TypeOK
  <2>. QED BY <1>2, <2>2 DEF Mounted, State, Optional
<1>. QED BY <1>1, <1>2

\* What a step of a chain may change, and how.
ChainMoved(c) ==
    /\ chains' \in [Chains -> [step : {"off", "due", "served", "stopped"},
                               reply : Optional(Replies)]]
    /\ WatchedOK'
    /\ \A d \in Chains \ {c} : chains'[d] = chains[d]

\* Changes of one chain keep the types of all of them.
LEMMA ChainSet ==
    ASSUME TypeOK, WatchedOK, NEW c \in Chains, NEW reply \in Optional(Replies),
           NEW step \in {"off", "due", "served", "stopped"}, SetChain(c, step, reply),
           view' = view, step \in {"due", "served"} => Following(view)
    PROVE  ChainMoved(c) /\ chains'[c] = [step |-> step, reply |-> reply]
<1>1. chains' = [chains EXCEPT ![c] = [step |-> step, reply |-> reply]]
  BY DEF SetChain
<1>2. /\ chains'[c] = [step |-> step, reply |-> reply]
      /\ \A d \in Chains \ {c} : chains'[d] = chains[d]
  BY <1>1 DEF TypeOK
<1>3. Following(view)' <=> Following(view)
  BY DEF Following, Loading, Polling, Watched
<1>. QED BY <1>1, <1>2, <1>3 DEF ChainMoved, TypeOK, WatchedOK

\* The same for a chain that ends or waits, with no answer to apply.
LEMMA ChainIdle ==
    ASSUME TypeOK, WatchedOK, NEW c \in Chains, NEW step \in {"off", "due", "stopped"},
           SetChain(c, step, None), view' = view, step = "due" => Following(view)
    PROVE  ChainMoved(c) /\ chains'[c].step = step /\ handle \in Optional(Chains)
<1>1. None \in Optional(Replies)
  BY DEF Optional
<1>2. /\ step \in {"off", "due", "served", "stopped"}
      /\ step \in {"due", "served"} => Following(view)
  OBVIOUS
<1>3. ChainMoved(c) /\ chains'[c] = [step |-> step, reply |-> None]
  BY <1>1, <1>2, ChainSet
<1>. QED BY <1>3 DEF TypeOK

\* The next poll of a chain is scheduled only while there is one to make.
LEMMA Rescheduled ==
    ASSUME TypeOK, WatchedOK, NEW c \in Chains, Reschedule(c), view' = view
    PROVE  /\ ChainMoved(c) /\ handle' \in Optional(Chains)
           /\ chains'[c].step \in {"off", "due"}
<1>1. CASE Polling(view)
  <2>1. SetChain(c, "due", None) /\ handle' = c
    BY <1>1 DEF Reschedule
  <2>2. Following(view)
    BY <1>1 DEF Following
  <2>. QED BY <2>1, <2>2, ChainIdle DEF Optional
<1>2. CASE ~Polling(view)
  <2>1. SetChain(c, "off", None) /\ handle' = handle
    BY <1>2 DEF Reschedule
  <2>. QED BY <2>1, ChainIdle
<1>. QED BY <1>1, <1>2

\* Types of what only a step of the polls may change, and of the rest.
Timed ==
    /\ chains' \in [Chains -> [step : {"off", "due", "served", "stopped"},
                               reply : Optional(Replies)]]
    /\ handle' \in Optional(Chains) /\ WatchedOK'
Stated ==
    /\ saved' \in Seq(Replays) /\ IsInjective(saved')
    /\ view' \in State /\ next' \in State /\ renewed' \in BOOLEAN
Called ==
    /\ listing' \in [{"effect", "user"} -> Optional(Replays)]
    /\ upload' \in [step : {"idle", "creating", "sending", "completed"},
                    replay : Optional(Replays)]
    /\ asks' \in [{"retry", "delete"} -> Optional(Replays)]
    /\ server' \in [Replays -> Statuses \cup {"none", "gone"}]
    /\ faults' \in 0..MaxFaults

\* A step that is none of the polls' leaves them alone.
LEMMA Untimed ==
    ASSUME TypeOK, WatchedOK, UNCHANGED <<view, effectVars>>
    PROVE  Timed
BY DEF TypeOK, WatchedOK, Timed, effectVars, Following, Loading, Polling, Watched

\* The same for a step that changes no state of the component.
LEMMA Unstated ==
    ASSUME TypeOK, UNCHANGED <<saved, view, next, renewed>>
    PROVE  Stated
BY DEF TypeOK, Stated

\* A call that fails is one of the few that may.
LEMMA FaultCounted ==
    ASSUME TypeOK, Fault
    PROVE  faults' \in 0..MaxFaults
BY SectionAssumption DEF TypeOK, Fault

\* The polls: a status is asked of a replay the server has, and what the answer
\* leaves has its types.
LEMMA ChainStepTyped ==
    ASSUME TypeOK, WatchedOK, KnownOK, NEW c \in Chains, ChainStep(c)
    PROVE  Timed /\ Stated /\ Called
<1>1. CASE StatusRead(c)
  <2>1. chains[c].step = "due" /\ view' = view /\ view.capability \in Replays
    BY <1>1, ActiveChain DEF StatusRead
  <2>2. Following(view)
    BY <2>1 DEF WatchedOK
  <2>3. server[view.capability] \in Replies
    <3>1. view.capability \in Refs
      BY DEF Refs, Reachable
    <3>2. server[view.capability] # "none"
      BY <2>1, <3>1 DEF KnownOK
    <3>. QED BY <2>1, <3>2 DEF TypeOK, Replies
  <2>4. PICK reply \in Replies : SetChain(c, "served", reply)
    BY <1>1, <2>3 DEF StatusRead, Replies
  <2>5. ChainMoved(c)
    BY <2>1, <2>2, <2>4, ChainSet DEF Optional
  <2>6. faults' \in 0..MaxFaults
    BY <1>1, FaultCounted DEF StatusRead, TypeOK
  <2>. QED BY <1>1, <2>5, <2>6, Unstated DEF StatusRead, Timed, Called, ChainMoved, TypeOK
<1>2. CASE StatusAnswer(c)
  <2>1. /\ chains[c].step = "served" /\ Reply(c) \in Statuses
        /\ Apply(next, view.capability, Reply(c))
        /\ UNCHANGED <<server, view, upload, asks, faults>>
    BY <1>2, SectionAssumption DEF StatusAnswer, Reply, Replies
  <2>2. view.capability \in Replays
    BY <2>1, ActiveChain
  <2>3. Stated
    BY <2>1, <2>2, Applied DEF Stated, TypeOK
  <2>4. Timed
    <3>1. CASE Reply(c) \in Terminal
      <4>1. SetChain(c, "off", None) /\ handle' = handle
        BY <1>2, <3>1 DEF StatusAnswer
      <4>. QED BY <2>1, <4>1, ChainIdle DEF Timed, ChainMoved
    <3>2. CASE Reply(c) \notin Terminal
      BY <1>2, <2>1, <3>2, Rescheduled DEF StatusAnswer, Timed, ChainMoved
    <3>. QED BY <3>1, <3>2
  <2>5. listing' \in [{"effect", "user"} -> Optional(Replays)]
    BY <1>2, <2>2 DEF StatusAnswer, TypeOK, Optional
  <2>. QED BY <2>1, <2>3, <2>4, <2>5 DEF Called, TypeOK
<1>3. CASE NotFound(c) \/ OtherError(c)
  <2>1. view' = view /\ handle' = handle
    BY <1>3 DEF NotFound, OtherError
  <2>2. \E step \in {"off", "stopped"} : SetChain(c, step, None)
    BY <1>3 DEF NotFound, OtherError
  <2>3. Timed
    BY <2>1, <2>2, ChainIdle DEF Timed, ChainMoved
  <2>4. Stated
    BY <1>3, ClearedState DEF NotFound, OtherError, Stated, TypeOK
  <2>. QED BY <1>3, <2>3, <2>4 DEF NotFound, OtherError, Called, TypeOK
<1>4. CASE NetworkError(c)
  <2>1. Timed
    BY <1>4, Rescheduled DEF NetworkError, Timed, ChainMoved
  <2>. QED BY <1>4, <2>1, Unstated DEF NetworkError, Called, TypeOK
<1>. QED BY <1>1, <1>2, <1>3, <1>4 DEF ChainStep

\* Steps that end in a commit.
LEMMA CommitsTyped ==
    ASSUME TypeOK, WatchedOK, HandleUpload \/ HandleCancelUpload \/ Render
    PROVE  Timed /\ Stated /\ Called
<1>1. ASSUME NEW s \in State, Commit(s), saved' \in Seq(Replays), IsInjective(saved')
      PROVE  Timed /\ Stated /\ listing' \in [{"effect", "user"} -> Optional(Replays)]
  BY <1>1, Committed DEF Timed, Stated
<1>2. saved \in Seq(Replays) /\ IsInjective(saved) /\ next \in State
  BY DEF TypeOK
<1>3. CASE HandleUpload
  <2>1. [next EXCEPT !.uploading = TRUE, !.form = FALSE] \in State
    BY <1>2 DEF State
  <2>2. Timed /\ Stated /\ listing' \in [{"effect", "user"} -> Optional(Replays)]
    BY <1>1, <1>2, <1>3, <2>1 DEF HandleUpload
  <2>. QED BY <1>3, <2>2 DEF HandleUpload, Called, TypeOK, Optional
<1>4. CASE HandleCancelUpload
  <2>. DEFINE stopped == [next EXCEPT !.uploading = FALSE]
  <2>1. /\ stopped \in State /\ Cleared(stopped) \in State
        /\ [stopped EXCEPT !.form = TRUE] \in State
    BY <1>2 DEF State, Cleared, Optional
  <2>2. /\ UNCHANGED <<server, asks, faults>> /\ UploadGoesTo("idle", None)
        /\ \/ Commit(Cleared(stopped)) /\ saved' = Without(view.capability)
           \/ Commit([stopped EXCEPT !.form = TRUE]) /\ saved' = saved
    BY <1>4 DEF HandleCancelUpload
  <2>3. saved' \in Seq(Replays) /\ IsInjective(saved')
    BY <1>2, <2>2, WithoutKeeps
  <2>4. Timed /\ Stated /\ listing' \in [{"effect", "user"} -> Optional(Replays)]
    BY <1>1, <2>1, <2>2, <2>3
  <2>. QED BY <2>2, <2>4 DEF UploadGoesTo, Called, TypeOK, Optional
<1>5. CASE Render
  <2>1. Timed /\ Stated /\ listing' \in [{"effect", "user"} -> Optional(Replays)]
    BY <1>1, <1>2, <1>5 DEF Render
  <2>. QED BY <1>5, <2>1 DEF Render, Called, TypeOK
<1>. QED BY <1>3, <1>4, <1>5

\* Steps of the server, and calls that leave the component's state alone.
LEMMA CallsTyped ==
    ASSUME TypeOK, WatchedOK,
           \/ \E r \in Replays : ServerStep(r)
           \/ RefreshArtifacts \/ CompleteServed \/ HandleRetry \/ HandleDelete
    PROVE  Timed /\ Stated /\ Called
<1>1. UNCHANGED <<saved, view, next, renewed, effectVars, faults>>
  BY DEF ServerStep, RefreshArtifacts, CompleteServed, HandleRetry, HandleDelete, Asked
<1>2. Timed /\ Stated
  BY <1>1, Untimed, Unstated
<1>3. CASE \E r \in Replays : ServerStep(r)
  <2>1. \A r \in Replays : After(server[r]) \subseteq Statuses \cup {"gone"}
    BY DEF After, Statuses
  <2>. QED BY <1>1, <1>2, <1>3, <2>1 DEF ServerStep, Called, TypeOK
<1>4. CASE RefreshArtifacts
  <2>1. /\ view.capability \in Replays
        /\ listing' = [listing EXCEPT !["user"] = view.capability]
        /\ UNCHANGED <<server, upload, asks>>
    BY <1>4 DEF RefreshArtifacts, GalleryShown, TypeOK, State, Optional
  <2>. QED BY <1>1, <1>2, <2>1 DEF Called, TypeOK, Optional
<1>5. CASE HandleRetry \/ HandleDelete
  <2>1. view.capability \in Replays
    BY <1>5 DEF HandleRetry, HandleDelete, PanelShows, TypeOK, State, Optional
  <2>2. \E what \in {"retry", "delete"} : asks' = [asks EXCEPT ![what] = view.capability]
    BY <1>5 DEF HandleRetry, HandleDelete, Asked
  <2>3. \E is \in Statuses \cup {"gone"} : server' = [server EXCEPT ![view.capability] = is]
    BY <1>5 DEF HandleRetry, HandleDelete, Statuses
  <2>4. UNCHANGED <<listing, upload>>
    BY <1>5 DEF HandleRetry, HandleDelete, Asked
  <2>. QED BY <1>1, <1>2, <2>1, <2>2, <2>3, <2>4 DEF Called, TypeOK, Optional
<1>6. CASE CompleteServed
  <2>1. /\ server' = [server EXCEPT ![upload.replay] = "working"]
        /\ upload' = [step |-> "completed", replay |-> upload.replay]
        /\ UNCHANGED <<listing, asks>>
    BY <1>6 DEF CompleteServed, UploadGoesTo
  <2>2. "working" \in Statuses
    BY DEF Statuses
  <2>. QED BY <1>1, <1>2, <2>1, <2>2 DEF Called, TypeOK
<1>. QED BY <1>3, <1>4, <1>5, <1>6

\* Answers that queue updates of the component's state.
LEMMA AnswersTyped ==
    ASSUME TypeOK, WatchedOK, KnownOK, UploadOK,
           \/ \E by \in {"effect", "user"} : ArtifactsAnswer(by)
           \/ AskStep \/ CompleteAnswer \/ UploadFails \/ \E r \in Replays : UploadCreated(r)
    PROVE  Timed /\ Stated /\ Called
<1>1. UNCHANGED <<view, effectVars>>
  BY DEF ArtifactsAnswer, AskStep, RetryAnswer, DeleteAnswer, Answered, CompleteAnswer,
     UploadFails, UploadCreated
<1>2. Timed
  BY <1>1, Untimed
<1>0. /\ saved \in Seq(Replays) /\ IsInjective(saved) /\ next \in State /\ view' \in State
      /\ renewed \in BOOLEAN /\ "working" \in Statuses
  BY <1>1 DEF TypeOK, Statuses
<1>3. ASSUME NEW by \in {"effect", "user"}, ArtifactsAnswer(by) PROVE Stated /\ Called
  <2>1. /\ listing[by] \in Replays /\ listing' = [listing EXCEPT ![by] = None]
        /\ UNCHANGED <<server, view, upload, asks>>
        /\ \/ next' = [next EXCEPT !.artifacts = listing[by]] /\ UNCHANGED <<saved, renewed, faults>>
           \/ Clear(listing[by]) /\ UNCHANGED faults
           \/ Fault /\ UNCHANGED <<next, saved, renewed>>
    BY <1>3 DEF ArtifactsAnswer, TypeOK, Optional
  <2>2. Stated
    <3>1. [next EXCEPT !.artifacts = listing[by]] \in State
      BY <1>0, <2>1 DEF State, Optional
    <3>. QED BY <1>0, <2>1, <3>1, ClearedState DEF Stated
  <2>3. faults' \in 0..MaxFaults
    BY <2>1, FaultCounted DEF TypeOK
  <2>. QED BY <2>1, <2>2, <2>3 DEF Called, TypeOK, Optional
<1>4. CASE AskStep
  <2>1. PICK what \in {"retry", "delete"} :
          /\ Answered(what) /\ asks[what] \in Replays
          /\ Apply(next, asks[what], "working") \/ Clear(asks[what])
    BY <1>4 DEF AskStep, RetryAnswer, DeleteAnswer, Answered, TypeOK, Optional
  <2>2. Stated
    BY <1>0, <2>1, Applied, ClearedState DEF Stated
  <2>. QED BY <1>2, <2>1, <2>2 DEF Answered, Called, TypeOK, Optional
<1>5. CASE CompleteAnswer
  <2>1. upload.replay \in Replays
    BY <1>5 DEF CompleteAnswer, UploadOK, TypeOK, Optional
  <2>2. [next EXCEPT !.uploading = FALSE] \in State
    BY <1>0 DEF State
  <2>3. Stated
    BY <1>0, <1>5, <2>1, <2>2, Applied DEF CompleteAnswer, Stated
  <2>. QED BY <1>2, <1>5, <2>3 DEF CompleteAnswer, UploadGoesTo, Called, TypeOK, Optional
<1>6. CASE UploadFails
  <2>1. [next EXCEPT !.uploading = FALSE, !.form = TRUE] \in State
    BY <1>0 DEF State
  <2>2. faults' \in 0..MaxFaults
    BY <1>6, FaultCounted DEF UploadFails, TypeOK
  <2>3. Stated
    BY <1>0, <1>6, <2>1 DEF UploadFails, Stated
  <2>. QED BY <1>2, <1>6, <2>2, <2>3 DEF UploadFails, UploadGoesTo, Called, TypeOK, Optional
<1>7. ASSUME NEW r \in Replays, UploadCreated(r) PROVE Stated /\ Called
  <2>1. /\ next' = [next EXCEPT !.capability = r] /\ saved' = Append(saved, r)
        /\ server' = [server EXCEPT ![r] = "created"] /\ UploadGoesTo("sending", r)
        /\ UNCHANGED <<renewed, listing, asks, faults>>
    BY <1>7 DEF UploadCreated
  <2>2. next' \in State
    BY <1>0, <2>1 DEF State, Optional
  <2>3. r \notin ToSet(saved)
    BY <1>7 DEF UploadCreated, Created, KnownOK, Refs, Reachable
  <2>4. Stated
    BY <1>0, <2>1, <2>2, <2>3, Appended DEF Stated
  <2>. QED BY <2>1, <2>4 DEF UploadGoesTo, Called, TypeOK, Optional, Statuses
<1>. QED BY <1>2, <1>3, <1>4, <1>5, <1>6, <1>7

\* A tab that is shown again starts a chain where there is something to poll.
LEMMA VisibilityTyped ==
    ASSUME TypeOK, WatchedOK, OnVisibility
    PROVE  Timed /\ Stated /\ Called
<1>1. PICK c \in Chains : SetChain(c, "due", None)
  BY DEF OnVisibility
<1>2. view' = view /\ Following(view) /\ handle' = None
  BY DEF OnVisibility, Following
<1>3. Timed
  BY <1>1, <1>2, ChainIdle DEF Timed, ChainMoved, Optional
<1>. QED BY <1>3, Unstated DEF OnVisibility, Called, TypeOK

\* A reload forgets every request and starts with what it finds saved.
LEMMA ReloadTyped ==
    ASSUME TypeOK, WatchedOK, Reload
    PROVE  Timed /\ Stated /\ Called
<1>1. /\ view' = Mounted /\ next' = Mounted /\ renewed' = FALSE
      /\ chains' = [c \in Chains |-> IF c = 1 THEN FirstChain(Mounted) ELSE Off]
      /\ handle' = None
  BY DEF Reload
<1>2. /\ FirstChain(Mounted) = [step |-> IF Following(Mounted) THEN "due" ELSE "off", reply |-> None]
      /\ Off = [step |-> "off", reply |-> None]
  BY DEF FirstChain, Off, Following
<1>3. \A c \in Chains : chains'[c].step \in {"due", "off"}
                        /\ (chains'[c].step = "due" => Following(Mounted))
  BY <1>1, <1>2
<1>4. chains' \in [Chains -> [step : {"off", "due", "served", "stopped"},
                              reply : Optional(Replies)]]
  BY <1>1, <1>2 DEF Optional
<1>5. WatchedOK'
  BY <1>1, <1>3 DEF WatchedOK, Following, Loading, Polling, Watched
<1>6. Timed
  BY <1>1, <1>4, <1>5 DEF Timed, Optional
<1>7. Stated
  BY <1>1, MountedState DEF Reload, Stated, TypeOK
<1>. QED BY <1>6, <1>7 DEF Reload, Called, TypeOK, Optional

\* Every step keeps the types, and polls only what is followed.
LEMMA NextTyped ==
    ASSUME SectionInv, [Next]_vars
    PROVE  TypeOK' /\ WatchedOK'
<1>0. TypeOK /\ WatchedOK /\ KnownOK /\ UploadOK
  BY DEF SectionInv
<1>1. CASE UNCHANGED vars
  BY <1>0, <1>1, Untimed DEF vars, TypeOK, Timed
<1>2. ASSUME Next PROVE Timed /\ Stated /\ Called
  <2>1. CASE Click
    BY <1>0, <2>1, CommitsTyped, CallsTyped, VisibilityTyped, ReloadTyped DEF Click
  <2>2. CASE Browser
    BY <1>0, <2>2, CommitsTyped, CallsTyped, AnswersTyped, ChainStepTyped DEF Browser, UploadStep
  <2>3. CASE \E r \in Replays : ServerStep(r)
    BY <1>0, <2>3, CallsTyped
  <2>. QED BY <1>2, <2>1, <2>2, <2>3 DEF Next
<1>3. ASSUME Next PROVE clicks' \in 0..MaxClicks
  BY <1>0, <1>3, SectionAssumption DEF Next, Click, TypeOK
<1>. QED BY <1>1, <1>2, <1>3 DEF Timed, Stated, Called, TypeOK

-----------------------------------------------------------------------------
(* Every replay the page refers to exists, and the one it follows is saved *)

\* What a step makes the page refer to was referred to, or was created by it.
LEMMA RefsGrow ==
    ASSUME SectionInv, [Next]_vars, NEW q \in Replays, q \in Refs'
    PROVE  q \in Refs \/ server'[q] # "none"
<1>0. TypeOK /\ WatchedOK /\ KnownOK /\ UploadOK
  BY DEF SectionInv
<1>n. q # None
  BY SectionAssumption DEF Replays
<1>. DEFINE Named == {view.capability, next.capability, upload.replay, listing["user"],
                      listing["effect"], asks["retry"], asks["delete"]}
<1>a. Refs = ToSet(saved) \cup Named /\ Refs' = ToSet(saved)' \cup Named'
  BY DEF Refs, Reachable
<1>1. CASE UNCHANGED vars
  BY <1>1 DEF vars, Refs, Reachable
<1>2. CASE HandleUpload \/ HandleCancelUpload \/ Render
  <2>1. PICK s \in State : Commit(s) /\ s.capability \in {None, next.capability}
    <3>. DEFINE stopped == [next EXCEPT !.uploading = FALSE]
    <3>1. next \in State
      BY <1>0 DEF TypeOK
    <3>2. \A s \in {[next EXCEPT !.uploading = TRUE, !.form = FALSE], Cleared(stopped),
                    [stopped EXCEPT !.form = TRUE], next} :
            s \in State /\ s.capability \in {None, next.capability}
      BY <3>1 DEF State, Optional, Cleared
    <3>. QED BY <1>2, <3>2 DEF HandleUpload, HandleCancelUpload, Render
  <2>2. /\ view'.capability \in {None, next.capability}
        /\ next'.capability \in {None, next.capability}
        /\ listing'["user"] = listing["user"]
        /\ listing'["effect"] \in {None, listing["effect"]}
    BY <1>0, <2>1, Committed
  <2>3. asks' = asks /\ upload'.replay \in {None, upload.replay}
    BY <1>2 DEF HandleUpload, HandleCancelUpload, Render, UploadGoesTo
  <2>4. ToSet(saved') \subseteq ToSet(saved)
    BY <1>0, <1>2, WithoutKeeps DEF HandleUpload, HandleCancelUpload, Render, TypeOK
  <2>. QED BY <1>a, <1>n, <2>2, <2>3, <2>4
<1>3. CASE \/ \E r \in Replays : ServerStep(r)
           \/ CompleteServed \/ RefreshArtifacts \/ HandleRetry \/ HandleDelete \/ OnVisibility
  <2>1. UNCHANGED <<saved, view, next>>
    BY <1>3 DEF ServerStep, CompleteServed, RefreshArtifacts, HandleRetry, HandleDelete, Asked,
       OnVisibility
  <2>2. Named' \subseteq Named
    BY <1>0, <1>3, <2>1 DEF ServerStep, CompleteServed, UploadGoesTo, RefreshArtifacts,
       HandleRetry, HandleDelete, Asked, OnVisibility, TypeOK
  <2>. QED BY <1>a, <2>1, <2>2
<1>4. CASE Reload
  <2>1. Mounted.capability = None \/ Mounted.capability \in ToSet(saved)
    BY <1>0, MountedState
  <2>2. ToSet(saved)' = ToSet(saved)
    BY <1>4 DEF Reload
  <2>3. Named' \subseteq {None, Mounted.capability}
    BY <1>4 DEF Reload
  <2>. QED BY <1>a, <1>n, <2>1, <2>2, <2>3
<1>5. ASSUME NEW c \in Chains, ChainStep(c) PROVE q \in Refs
  <2>1. CASE StatusRead(c) \/ NetworkError(c)
    BY <1>5, <1>a, <2>1 DEF StatusRead, NetworkError
  <2>2. CASE StatusAnswer(c)
    <3>1. chains[c].step = "served" /\ Reply(c) \in Statuses
      BY <2>2, SectionAssumption DEF StatusAnswer, Reply, Replies
    <3>2. view.capability \in Replays
      BY <1>0, <3>1, ActiveChain
    <3>3. /\ ToSet(saved') \subseteq ToSet(saved) \cup {view.capability}
          /\ next'.capability \in {None, next.capability}
      BY <1>0, <2>2, <3>1, <3>2, Applied DEF StatusAnswer, TypeOK
    <3>4. Named' \subseteq Named \cup {None}
      BY <1>0, <2>2, <3>3 DEF StatusAnswer, TypeOK
    <3>. QED BY <1>a, <1>n, <3>3, <3>4
  <2>3. CASE NotFound(c) \/ OtherError(c)
    <3>1. ToSet(saved') \subseteq ToSet(saved) /\ next'.capability \in {None, next.capability}
      BY <1>0, <2>3, ClearedState DEF NotFound, OtherError
    <3>. QED BY <1>a, <1>n, <2>3, <3>1 DEF NotFound, OtherError
  <2>. QED BY <1>5, <2>1, <2>2, <2>3 DEF ChainStep
<1>6. ASSUME NEW by \in {"effect", "user"}, ArtifactsAnswer(by) PROVE q \in Refs
  <2>1. ToSet(saved') \subseteq ToSet(saved) /\ next'.capability \in {None, next.capability}
    BY <1>0, <1>6, ClearedState DEF ArtifactsAnswer, TypeOK, State
  <2>2. Named' \subseteq Named \cup {None}
    BY <1>0, <1>6, <2>1 DEF ArtifactsAnswer, TypeOK
  <2>. QED BY <1>a, <1>n, <2>1, <2>2
<1>7. CASE AskStep
  <2>1. PICK what \in {"retry", "delete"} :
          /\ Answered(what) /\ asks[what] \in Replays
          /\ Apply(next, asks[what], "working") \/ Clear(asks[what])
    BY <1>0, <1>7 DEF AskStep, RetryAnswer, DeleteAnswer, Answered, TypeOK, Optional
  <2>2. next \in State /\ "working" \in Statuses
    BY <1>0 DEF TypeOK, Statuses
  <2>3. /\ ToSet(saved') \subseteq ToSet(saved) \cup {asks[what]}
        /\ next'.capability \in {None, next.capability}
    BY <1>0, <2>1, <2>2, Applied, ClearedState
  <2>4. Named' \subseteq Named \cup {None}
    BY <1>0, <2>1, <2>3 DEF Answered, TypeOK
  <2>. QED BY <1>a, <1>n, <2>1, <2>3, <2>4
<1>8. CASE CompleteAnswer \/ UploadFails
  <2>1. /\ ToSet(saved') \subseteq ToSet(saved) \cup {upload.replay}
        /\ next'.capability \in {None, next.capability}
    <3>1. CASE UploadFails
      BY <1>0, <3>1 DEF UploadFails, TypeOK, State
    <3>2. CASE CompleteAnswer
      <4>1. upload.replay \in Replays /\ "working" \in Statuses
        BY <1>0, <3>2 DEF CompleteAnswer, UploadOK, TypeOK, Optional, Statuses
      <4>2. /\ [next EXCEPT !.uploading = FALSE] \in State
            /\ [next EXCEPT !.uploading = FALSE].capability = next.capability
        BY <1>0 DEF State, TypeOK
      <4>. QED BY <1>0, <3>2, <4>1, <4>2, Applied DEF CompleteAnswer
    <3>. QED BY <1>8, <3>1, <3>2
  <2>2. Named' \subseteq Named \cup {None}
    BY <1>8, <2>1 DEF CompleteAnswer, UploadFails, UploadGoesTo
  <2>. QED BY <1>a, <1>n, <2>1, <2>2
<1>9. ASSUME NEW r \in Replays, UploadCreated(r) PROVE q \in Refs \/ server'[q] # "none"
  <2>1. server'[r] = "created"
    BY <1>0, <1>9 DEF UploadCreated, TypeOK
  <2>2. ToSet(saved') \subseteq ToSet(saved) \cup {r}
    <3>1. r \notin ToSet(saved)
      BY <1>0, <1>9 DEF UploadCreated, Created, KnownOK, Refs, Reachable
    <3>. QED BY <1>0, <1>9, <3>1, Appended DEF UploadCreated, TypeOK
  <2>3. Named' \subseteq Named \cup {r}
    BY <1>0, <1>9 DEF UploadCreated, UploadGoesTo, TypeOK, State
  <2>. QED BY <1>a, <2>1, <2>2, <2>3
<1>. QED
  BY <1>1, <1>2, <1>3, <1>4, <1>5, <1>6, <1>7, <1>8, <1>9 DEF Next, Click, Browser, UploadStep

\* A step of the component's state gives up the replay it follows, keeps it with
\* everything that is saved, or follows one that it finds or puts there.
LEMMA NextHeld ==
    ASSUME SectionInv, [Next]_vars
    PROVE  Held'
<1>0. TypeOK /\ WatchedOK /\ KnownOK /\ UploadOK
  BY DEF SectionInv
<1>a. saved \in Seq(Replays) /\ saved' \in Seq(Replays) /\ next \in State
  BY <1>0, NextTyped DEF TypeOK
<1>b. next.capability # None => next.capability \in ToSet(saved)
  BY <1>a, ContainsToSet DEF SectionInv, Held
<1>c. SUFFICES next'.capability # None => next'.capability \in ToSet(saved')
  BY <1>a DEF Held, Contains, ToSet
<1>1. CASE saved' = saved /\ next'.capability \in {None, next.capability}
  BY <1>b, <1>1
<1>2. CASE next'.capability = None
  BY <1>2
<1>3. CASE HandleUpload \/ HandleCancelUpload \/ Render
  <2>1. \/ saved' = saved /\ next'.capability = next.capability
        \/ next'.capability = None
    BY <1>a, <1>3 DEF HandleUpload, HandleCancelUpload, Render, Commit, Cleared, State
  <2>. QED BY <1>1, <1>2, <2>1
<1>4. CASE Reload
  BY <1>0, <1>4, MountedState DEF Reload
<1>5. ASSUME NEW c \in Chains, ChainStep(c)
      PROVE  next'.capability # None => next'.capability \in ToSet(saved')
  <2>1. CASE StatusRead(c) \/ NetworkError(c)
    BY <1>1, <2>1 DEF StatusRead, NetworkError
  <2>2. CASE StatusAnswer(c)
    <3>1. chains[c].step = "served" /\ Reply(c) \in Statuses
      BY <2>2, SectionAssumption DEF StatusAnswer, Reply, Replies
    <3>2. view.capability \in Replays
      BY <1>0, <3>1, ActiveChain
    <3>. QED BY <1>0, <1>a, <1>b, <2>2, <3>1, <3>2, Applied DEF StatusAnswer
  <2>3. CASE NotFound(c) \/ OtherError(c)
    BY <1>0, <1>1, <2>3, ClearedState DEF NotFound, OtherError
  <2>. QED BY <1>5, <2>1, <2>2, <2>3 DEF ChainStep
<1>6. ASSUME NEW by \in {"effect", "user"}, ArtifactsAnswer(by)
      PROVE  next'.capability # None => next'.capability \in ToSet(saved')
  <2>1. \/ saved' = saved /\ next'.capability = next.capability
        \/ next'.capability = None
    BY <1>0, <1>a, <1>6, ClearedState DEF ArtifactsAnswer, State
  <2>. QED BY <1>b, <2>1
<1>7. CASE AskStep
  <2>1. PICK what \in {"retry", "delete"} :
          /\ asks[what] \in Replays
          /\ Apply(next, asks[what], "working") \/ Clear(asks[what])
    BY <1>0, <1>7 DEF AskStep, RetryAnswer, DeleteAnswer, Answered, TypeOK, Optional
  <2>2. "working" \in Statuses
    BY DEF Statuses
  <2>. QED BY <1>0, <1>a, <1>b, <2>1, <2>2, Applied, ClearedState
<1>8. CASE CompleteAnswer
  <2>1. upload.replay \in Replays /\ "working" \in Statuses
    BY <1>0, <1>8 DEF CompleteAnswer, UploadOK, TypeOK, Optional, Statuses
  <2>2. /\ [next EXCEPT !.uploading = FALSE] \in State
        /\ [next EXCEPT !.uploading = FALSE].capability = next.capability
    BY <1>a DEF State
  <2>. QED BY <1>0, <1>b, <1>8, <2>1, <2>2, Applied DEF CompleteAnswer
<1>9. ASSUME NEW r \in Replays, UploadCreated(r) PROVE next'.capability \in ToSet(saved')
  <2>1. r \notin ToSet(saved)
    BY <1>0, <1>9 DEF UploadCreated, Created, KnownOK, Refs, Reachable
  <2>2. next'.capability = r /\ saved' = Append(saved, r)
    BY <1>a, <1>9 DEF UploadCreated, State
  <2>. QED BY <1>0, <2>1, <2>2, Appended DEF TypeOK
<1>10. CASE \/ UNCHANGED vars \/ CompleteServed \/ UploadFails
            \/ RefreshArtifacts \/ HandleRetry \/ HandleDelete \/ OnVisibility
            \/ \E r \in Replays : ServerStep(r)
  <2>1. saved' = saved /\ next'.capability = next.capability
    BY <1>a, <1>10 DEF vars, CompleteServed, UploadFails, RefreshArtifacts, HandleRetry,
       HandleDelete, Asked, OnVisibility, ServerStep, State
  <2>. QED BY <1>1, <2>1
<1>. QED
  BY <1>3, <1>4, <1>5, <1>6, <1>7, <1>8, <1>9, <1>10 DEF Next, Click, Browser, UploadStep

-----------------------------------------------------------------------------
(* What is still to be applied *)

\* Where a step leaves an answer to apply, or a call whose answer will clear a
\* replay, it was there before, or it says what the server has just said.
ChainAnswers ==
    \A c \in Chains : chains'[c].step = "served" =>
      \/ chains'[c] = chains[c] /\ view'.capability = view.capability
      \/ /\ UNCHANGED <<view, server>>
         /\ chains'[c].reply \in {server[view.capability], "network", "error"}
EffectAnswers ==
    \/ listing'["effect"] \in {None, listing["effect"]}
    \/ \E c \in Chains :
         chains[c] = [step |-> "served", reply |-> "ready"] /\ listing'["effect"] = view.capability
DeleteAnswers ==
    asks'["delete"] \in {None, asks["delete"]} \/ server'[asks'["delete"]] \in Lost
Uploads == upload' = upload \/ upload'.step \in {"idle", "creating"} \/ upload'.replay # None

\* A step of a chain.
LEMMA ChainLeaves ==
    ASSUME SectionInv, NEW c \in Chains, ChainStep(c)
    PROVE  ChainAnswers /\ EffectAnswers /\ DeleteAnswers /\ Uploads
<1>0. TypeOK /\ WatchedOK /\ KnownOK
  BY DEF SectionInv
<1>1. view' = view /\ server' = server /\ asks' = asks /\ upload' = upload
  BY DEF ChainStep, StatusRead, StatusAnswer, NotFound, NetworkError, OtherError
<1>2. \A d \in Chains \ {c} : chains'[d] = chains[d]
  BY <1>0 DEF ChainStep, StatusRead, StatusAnswer, NotFound, NetworkError, OtherError, SetChain,
     Reschedule, TypeOK
<1>3. chains'[c].step = "served" =>
        chains'[c].reply \in {server[view.capability], "network", "error"}
  BY <1>0 DEF ChainStep, StatusRead, StatusAnswer, NotFound, NetworkError, OtherError, SetChain,
     Reschedule, TypeOK
<1>4. EffectAnswers
  <2>1. CASE StatusAnswer(c) /\ Reply(c) = "ready"
    <3>1. chains[c].step = "served" /\ chains[c].reply = "ready"
      BY <2>1, SectionAssumption DEF Reply, Replies, Statuses
    <3>2. chains[c] = [step |-> "served", reply |-> "ready"]
      BY <1>0, <3>1 DEF TypeOK
    <3>3. listing'["effect"] = view.capability
      BY <1>0, <2>1 DEF StatusAnswer, TypeOK
    <3>. QED BY <3>2, <3>3 DEF EffectAnswers
  <2>2. CASE ~(StatusAnswer(c) /\ Reply(c) = "ready")
    <3>1. listing' = listing
      BY <2>2 DEF ChainStep, StatusRead, StatusAnswer, NotFound, NetworkError, OtherError
    <3>. QED BY <3>1 DEF EffectAnswers
  <2>. QED BY <2>1, <2>2
<1>. QED BY <1>1, <1>2, <1>3, <1>4 DEF ChainAnswers, DeleteAnswers, Uploads

\* Any step.
LEMMA StepLeaves ==
    ASSUME SectionInv, [Next]_vars
    PROVE  ChainAnswers /\ EffectAnswers /\ DeleteAnswers /\ Uploads
<1>0. TypeOK /\ WatchedOK /\ KnownOK
  BY DEF SectionInv
<1>. USE DEF ChainAnswers, EffectAnswers, DeleteAnswers, Uploads
<1>1. CASE UNCHANGED vars
  BY <1>1 DEF vars, effectVars
<1>2. CASE HandleUpload \/ HandleCancelUpload \/ Render
  <2>1. PICK s \in State : Commit(s)
    <3>. DEFINE stopped == [next EXCEPT !.uploading = FALSE]
    <3>1. \A s \in {[next EXCEPT !.uploading = TRUE, !.form = FALSE], Cleared(stopped),
                    [stopped EXCEPT !.form = TRUE], next} : s \in State
      BY <1>0 DEF TypeOK, State, Optional, Cleared
    <3>. QED BY <1>2, <3>1 DEF HandleUpload, HandleCancelUpload, Render
  <2>2. asks' = asks /\ (upload' = upload \/ upload'.step \in {"idle", "creating"})
    BY <1>2 DEF HandleUpload, HandleCancelUpload, Render, UploadGoesTo
  <2>. QED BY <1>0, <2>1, <2>2, Committed
<1>3. CASE \E r \in Replays : ServerStep(r)
  BY <1>3 DEF ServerStep, effectVars
<1>4. CASE OnVisibility
  <2>1. PICK c \in Chains : chains' = [chains EXCEPT ![c] = [step |-> "due", reply |-> None]]
    BY <1>4 DEF OnVisibility, SetChain
  <2>2. UNCHANGED <<view, listing, asks, upload>>
    BY <1>4 DEF OnVisibility
  <2>3. \A d \in Chains : chains'[d].step = "served" => chains'[d] = chains[d]
    BY <1>0, <2>1 DEF TypeOK
  <2>. QED BY <2>2, <2>3
<1>5. CASE Reload
  <2>1. \A c \in Chains : chains'[c].step # "served"
    BY <1>5 DEF Reload, FirstChain, Off
  <2>2. listing'["effect"] = None /\ asks'["delete"] = None /\ upload'.step = "idle"
    BY <1>5 DEF Reload
  <2>. QED BY <2>1, <2>2
<1>6. CASE HandleRetry \/ HandleDelete
  <2>1. UNCHANGED <<view, chains, listing, upload>>
    BY <1>6 DEF HandleRetry, HandleDelete, Asked, effectVars
  <2>2. CASE HandleRetry
    BY <1>0, <2>1, <2>2 DEF HandleRetry, Asked, TypeOK
  <2>3. CASE HandleDelete
    <3>1. view.capability \in Replays
      BY <1>0, <2>3 DEF HandleDelete, PanelShows, TypeOK, State, Optional
    <3>2. asks'["delete"] = view.capability
      BY <1>0, <2>3 DEF HandleDelete, Asked, TypeOK
    <3>3. server'[view.capability] \in Lost
      BY <1>0, <2>3, <3>1 DEF HandleDelete, TypeOK, Lost
    <3>. QED BY <2>1, <3>2, <3>3
  <2>. QED BY <1>6, <2>2, <2>3
<1>7. CASE RefreshArtifacts \/ AskStep \/ \E by \in {"effect", "user"} : ArtifactsAnswer(by)
  <2>1. UNCHANGED <<view, chains, upload>>
    BY <1>7 DEF RefreshArtifacts, AskStep, RetryAnswer, DeleteAnswer, Answered, ArtifactsAnswer,
       effectVars
  <2>2. listing'["effect"] \in {None, listing["effect"]}
    BY <1>0, <1>7 DEF RefreshArtifacts, AskStep, RetryAnswer, DeleteAnswer, Answered,
       ArtifactsAnswer, TypeOK
  <2>3. asks'["delete"] \in {None, asks["delete"]}
    BY <1>0, <1>7 DEF RefreshArtifacts, AskStep, RetryAnswer, DeleteAnswer, Answered,
       ArtifactsAnswer, TypeOK
  <2>. QED BY <2>1, <2>2, <2>3
<1>8. CASE UploadStep
  <2>1. UNCHANGED <<view, chains, listing, asks>>
    BY <1>8 DEF UploadStep, UploadCreated, CompleteServed, CompleteAnswer, UploadFails, effectVars
  <2>2. upload'.step \in {"idle"} \/ upload'.replay # None
    BY <1>0, <1>8, SectionAssumption DEF SectionInv, UploadOK, UploadStep, UploadCreated,
       CompleteServed, CompleteAnswer, UploadFails, UploadGoesTo, Replays
  <2>. QED BY <2>1, <2>2
<1>. QED
  BY <1>1, <1>2, <1>3, <1>4, <1>5, <1>6, <1>7, <1>8, ChainLeaves DEF Next, Click, Browser

-----------------------------------------------------------------------------
(* The theorems *)

\* The invariant holds when the page is first shown.
LEMMA InitSection == Init => SectionInv
<1>. SUFFICES ASSUME Init PROVE SectionInv
  OBVIOUS
<1>. USE SectionAssumption
<1>1. /\ Off \in [step : {"off"}, reply : {None}] /\ Off.step = "off"
      /\ Mounted \in State /\ Mounted.capability = None
  BY DEF Init, Off, Mounted, State, Optional
<1>2. saved \in Seq(Replays) /\ IsInjective(saved) /\ ToSet(saved) = {}
  BY DEF Init, IsInjective, ToSet
<1>3. TypeOK
  <2>1. \A c \in Chains : chains[c] \in [step : {"off", "due", "served", "stopped"},
                                         reply : Optional(Replies)]
    BY <1>1 DEF Init, Optional
  <2>2. chains \in [Chains -> [step : {"off", "due", "served", "stopped"},
                               reply : Optional(Replies)]]
    BY <2>1 DEF Init
  <2>3. upload \in [step : {"idle", "creating", "sending", "completed"},
                    replay : Optional(Replays)]
    BY DEF Init, Optional
  <2>4. view \in State /\ next \in State
    BY <1>1 DEF Init
  <2>5. /\ server \in [Replays -> Statuses \cup {"none", "gone"}]
        /\ listing \in [{"effect", "user"} -> Optional(Replays)]
        /\ asks \in [{"retry", "delete"} -> Optional(Replays)]
        /\ handle \in Optional(Chains) /\ renewed \in BOOLEAN
    BY DEF Init, Optional
  <2>6. faults \in 0..MaxFaults /\ clicks \in 0..MaxClicks
    BY DEF Init
  <2>. QED BY <1>2, <2>2, <2>3, <2>4, <2>5, <2>6 DEF TypeOK
<1>4. WatchedOK /\ AnswerOK
  BY <1>1 DEF Init, WatchedOK, AnswerOK
<1>5. Refs = {None}
  BY <1>1, <1>2 DEF Init, Refs, Reachable
<1>6. Held /\ KnownOK /\ UploadOK /\ ListOK /\ AskOK
  BY <1>1, <1>5 DEF Init, Held, KnownOK, Replays, UploadOK, ListOK, AskOK
<1>. QED BY <1>3, <1>4, <1>6 DEF SectionInv

\* Every step keeps it.
LEMMA NextSection ==
    ASSUME SectionInv, [Next]_vars
    PROVE  SectionInv'
<1>0. TypeOK /\ WatchedOK /\ KnownOK /\ UploadOK /\ AnswerOK /\ ListOK /\ AskOK
  BY DEF SectionInv
<1>1. TypeOK' /\ WatchedOK'
  BY NextTyped
<1>2. Held'
  BY NextHeld
<1>3. KnownOK'
  BY <1>0, RefsGrow, ServerMovesOn DEF KnownOK
<1>4. ChainAnswers /\ EffectAnswers /\ DeleteAnswers /\ Uploads
  BY StepLeaves
<1>5. UploadOK'
  BY <1>0, <1>4 DEF UploadOK, Uploads
<1>6. AnswerOK'
  <2>. SUFFICES ASSUME NEW c \in Chains, chains'[c].step = "served"
                PROVE  /\ chains'[c].reply \in {"expired", "gone"} => server'[view'.capability] \in Lost
                       /\ chains'[c].reply = "ready" =>
                            server'[view'.capability] \in Lost \cup {"ready"}
    BY DEF AnswerOK
  <2>1. CASE chains'[c] = chains[c] /\ view'.capability = view.capability
    <3>1. view.capability \in Replays
      BY <1>0, <2>1, ActiveChain
    <3>. QED BY <1>0, <2>1, <3>1, ServerMovesOn DEF AnswerOK, Lost
  <2>2. CASE /\ UNCHANGED <<view, server>>
             /\ chains'[c].reply \in {server[view.capability], "network", "error"}
    BY <2>2 DEF Lost
  <2>. QED BY <1>4, <2>1, <2>2 DEF ChainAnswers
<1>7. ListOK'
  <2>1. CASE listing'["effect"] = None
    BY <2>1 DEF ListOK
  <2>2. CASE listing'["effect"] = listing["effect"] /\ listing["effect"] # None
    <3>1. listing["effect"] \in Replays
      BY <1>0, <2>2 DEF TypeOK, Optional
    <3>. QED BY <1>0, <2>2, <3>1, ServerMovesOn DEF ListOK
  <2>3. ASSUME NEW c \in Chains, chains[c] = [step |-> "served", reply |-> "ready"],
               listing'["effect"] = view.capability
        PROVE  ListOK'
    <3>1. view.capability \in Replays
      BY <1>0, <2>3, ActiveChain
    <3>2. server[view.capability] \in Lost \cup {"ready"}
      BY <1>0, <2>3 DEF AnswerOK
    <3>. QED BY <1>0, <2>3, <3>1, <3>2, ServerMovesOn DEF ListOK
  <2>. QED BY <1>4, <2>1, <2>2, <2>3 DEF EffectAnswers
<1>8. AskOK'
  <2>1. asks["delete"] # None => asks["delete"] \in Replays
    BY <1>0 DEF TypeOK, Optional
  <2>. QED BY <1>0, <1>4, <2>1, ServerMovesOn DEF AskOK, DeleteAnswers
<1>. QED BY <1>1, <1>2, <1>3, <1>5, <1>6, <1>7, <1>8 DEF SectionInv

\* Hence it always holds.
LEMMA SpecSectionInv == Spec => []SectionInv
<1>1. Init => SectionInv
  BY InitSection
<1>2. SectionInv /\ [Next]_vars => SectionInv'
  BY NextSection
<1>. QED BY <1>1, <1>2, PTL DEF Spec

\* What the component keeps has its types, and localStorage holds at most one
\* entry per replay, whatever order answers, renders and clicks come in.
THEOREM SectionIsTyped == Spec => []TypeOK
<1>1. SectionInv => TypeOK
  BY DEF SectionInv
<1>. QED BY <1>1, SpecSectionInv, PTL

\* No poll is on its way for a replay that is ready, failed or expired, nor
\* during an upload (replay-section.tsx:229-312).
THEOREM SectionPollsStop == Spec => []PollsStop
<1>1. SectionInv => PollsStop
  <2>. SUFFICES ASSUME SectionInv, NEW c \in Chains,
                       \/ view.uploading
                       \/ /\ view.status # None
                          /\ view.status.is \in {"ready", "failed", "expired"}
                PROVE  chains[c].step \in {"off", "stopped"}
    BY DEF PollsStop
  <2>1. ~Following(view)
    BY DEF Following, Loading, Polling, Watched, Terminal
  <2>. QED BY <2>1 DEF SectionInv, WatchedOK, TypeOK
<1>. QED BY <1>1, SpecSectionInv, PTL

\* The replay in memory is one that localStorage has (replay-section.tsx:
\* 144-168, 340-347).
THEOREM SectionHolds == Spec => []Held
<1>1. SectionInv => Held
  BY DEF SectionInv
<1>. QED BY <1>1, SpecSectionInv, PTL

\* The only copy of a token is given up for a replay the server has lost, by the
\* user's cancel, or by a refused refresh (replay-section.tsx:144-150, 210-224,
\* 257-280).
THEOREM SectionKeepsToken == Spec => TokenKept
<1>. DEFINE Given(r) == \/ server[r] \in {"expired", "deleting", "gone"}
                        \/ HandleCancelUpload \/ ArtifactsAnswer("user")
            Kept == \A r \in ToSet(saved) \ ToSet(saved') : Given(r)
<1>1. ASSUME SectionInv, [Next]_vars PROVE [Kept]_vars
  <2>. SUFFICES ASSUME NEW r \in ToSet(saved) \ ToSet(saved') PROVE Given(r)
    OBVIOUS
  <2>0. TypeOK /\ WatchedOK /\ KnownOK /\ UploadOK /\ AnswerOK /\ ListOK /\ AskOK
    BY <1>1 DEF SectionInv
  <2>1. saved' # saved
    OBVIOUS
  <2>2. CASE HandleCancelUpload \/ ArtifactsAnswer("user")
    BY <2>2
  <2>3. ASSUME NEW c \in Chains, ChainStep(c) PROVE Given(r)
    <3>1. CASE StatusAnswer(c)
      <4>1. chains[c].step = "served" /\ chains[c].reply = Reply(c) /\ Reply(c) \in Statuses
        BY <3>1, SectionAssumption DEF StatusAnswer, Reply, Replies
      <4>2. view.capability \in Replays
        BY <2>0, <4>1, ActiveChain
      <4>3. r = view.capability /\ Reply(c) = "expired"
        BY <2>0, <3>1, <4>1, <4>2, Applied DEF StatusAnswer, TypeOK
      <4>. QED BY <2>0, <4>1, <4>3 DEF AnswerOK, Lost
    <3>2. CASE NotFound(c)
      <4>1. chains[c].step = "served" /\ chains[c].reply = "gone"
        BY <3>2, SectionAssumption DEF NotFound, Reply, Replies
      <4>2. r = view.capability
        BY <2>0, <3>2, ClearedState DEF NotFound
      <4>. QED BY <2>0, <4>1, <4>2 DEF AnswerOK, Lost
    <3>3. CASE StatusRead(c) \/ NetworkError(c) \/ OtherError(c)
      BY <2>1, <3>3 DEF StatusRead, NetworkError, OtherError
    <3>. QED BY <2>3, <3>1, <3>2, <3>3 DEF ChainStep
  <2>4. CASE ArtifactsAnswer("effect")
    <3>1. listing["effect"] # None /\ server[listing["effect"]] # "ready" /\ Clear(listing["effect"])
      BY <2>1, <2>4 DEF ArtifactsAnswer
    <3>2. r = listing["effect"]
      BY <2>0, <3>1, ClearedState
    <3>. QED BY <2>0, <3>1, <3>2 DEF ListOK, Lost
  <2>5. CASE DeleteAnswer
    <3>1. r = asks["delete"] /\ asks["delete"] # None
      BY <2>0, <2>5, ClearedState DEF DeleteAnswer, Answered
    <3>. QED BY <2>0, <3>1 DEF AskOK, Lost
  <2>6. CASE RetryAnswer
    <3>1. asks["retry"] \in Replays /\ next \in State /\ "working" \in Statuses
      BY <2>0, <2>6 DEF RetryAnswer, Answered, TypeOK, Optional, Statuses
    <3>. QED BY <2>0, <2>6, <3>1, Applied DEF RetryAnswer
  <2>7. CASE CompleteAnswer
    <3>1. upload.replay \in Replays /\ "working" \in Statuses
      BY <2>0, <2>7 DEF CompleteAnswer, UploadOK, TypeOK, Optional, Statuses
    <3>2. [next EXCEPT !.uploading = FALSE] \in State
      BY <2>0 DEF State, TypeOK
    <3>. QED BY <2>0, <2>7, <3>1, <3>2, Applied DEF CompleteAnswer
  <2>8. ASSUME NEW q \in Replays, UploadCreated(q) PROVE Given(r)
    <3>1. q \notin ToSet(saved)
      BY <2>0, <2>8 DEF UploadCreated, Created, KnownOK, Refs, Reachable
    <3>. QED BY <2>0, <2>8, <3>1, Appended DEF UploadCreated, TypeOK
  <2>9. CASE \/ UNCHANGED vars \/ Render \/ HandleUpload \/ CompleteServed \/ UploadFails
             \/ RefreshArtifacts \/ HandleRetry \/ HandleDelete \/ OnVisibility \/ Reload
             \/ \E q \in Replays : ServerStep(q)
    BY <2>1, <2>9 DEF vars, Render, HandleUpload, CompleteServed, UploadFails, RefreshArtifacts,
       HandleRetry, HandleDelete, Asked, OnVisibility, Reload, ServerStep
  <2>. QED
    BY <1>1, <2>2, <2>3, <2>4, <2>5, <2>6, <2>7, <2>8, <2>9
       DEF Next, Click, Browser, UploadStep, AskStep
<1>2. SectionInv /\ [Next]_vars => [Kept]_vars
  BY <1>1
<1>. QED BY <1>2, SpecSectionInv, PTL DEF Spec, TokenKept
=============================================================================
