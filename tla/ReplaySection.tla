---------------------------- MODULE ReplaySection ----------------------------
(* The replay section of the match page: frontend/src/components/replay-       *)
(* section.tsx with the capabilities of replays/storage.ts and the calls of    *)
(* api/client.ts.  The component's state is kept twice: `view` is what the     *)
(* last render committed, which event handlers and effects close over, and     *)
(* `next` is `view` with the updates queued since.  An answer only queues; a   *)
(* click is committed before the next event.  Committing a new capability, a   *)
(* new status object or a change of `uploading` ends the effects of the last   *)
(* commit (their requests are aborted, their timer is cleared) and starts new  *)
(* ones.  The server is the set of states a replay's status can be read in.    *)
EXTENDS Naturals, SequencesExt

CONSTANTS
    MaxReplays,  \* replays the server can create
    MaxChains,   \* chains of polls one effect may have at a time
    MaxClicks,   \* of the user: on the buttons, to switch tabs, to reload
    MaxFaults,   \* calls that fail in a behaviour
    None

Replays == 1..MaxReplays

VARIABLES
    server,      \* what the server says of each replay
    saved,       \* capabilities in localStorage, least recently updated first
    view,        \* the state the last render committed
    next,        \* view with the queued updates
    renewed,     \* a new status object is among them
    chains,      \* polls of the current effect
    handle,      \* chain the effect's `timer` variable names
    listing,     \* artifact requests, by what started them
    upload,      \* the upload that was not aborted
    asks,        \* retry and delete calls
    faults, clicks

effectVars == <<chains, handle>>
vars == <<server, saved, view, next, renewed, effectVars, listing, upload, asks, faults, clicks>>

Chains == 1..MaxChains
\* TERMINAL_STATUSES as if a failed replay were still followed, and as it is.
TerminalButFailed == {"ready", "deleted", "expired"}
Terminal == {"ready", "failed", "deleted", "expired"}
Statuses == {"created", "working", "ready", "failed", "deleting", "expired"}
Replies == Statuses \cup {"gone", "network", "error"}
Optional(S) == S \cup {None}

ASSUME SectionAssumption ==
    /\ {MaxReplays, MaxClicks, MaxFaults} \subseteq Nat /\ MaxChains \in Nat \ {0}
    /\ None \notin Nat \cup Replies

Status == [replay : Replays, is : Statuses]
State == [capability : Optional(Replays), status : Optional(Status),
          artifacts : Optional(Replays), uploading : BOOLEAN, form : BOOLEAN]

Off == [step |-> "off", reply |-> None]

TypeOK ==
    /\ server \in [Replays -> Statuses \cup {"none", "gone"}]
    /\ saved \in Seq(Replays) /\ IsInjective(saved)
    /\ view \in State /\ next \in State /\ renewed \in BOOLEAN
    /\ chains \in [Chains -> [step : {"off", "due", "served", "stopped"},
                              reply : Optional(Replies)]]
    /\ handle \in Optional(Chains)
    /\ listing \in [{"effect", "user"} -> Optional(Replays)]
    /\ upload \in [step : {"idle", "creating", "sending", "completed"},
                   replay : Optional(Replays)]
    /\ asks \in [{"retry", "delete"} -> Optional(Replays)]
    /\ faults \in 0..MaxFaults /\ clicks \in 0..MaxClicks

-----------------------------------------------------------------------------
(* State of the component *)

\* findCapabilityForMatch and the initial values of the hooks.
Mounted ==
    [capability |-> IF saved = <<>> THEN None ELSE Last(saved), status |-> None,
     artifacts |-> None, uploading |-> FALSE, form |-> saved = <<>>]

Watched(s) == s.capability # None /\ ~s.uploading
Loading(s) == Watched(s) /\ s.status = None
Polling(s) == Watched(s) /\ s.status # None /\ s.status.is \notin Terminal

\* What the effects of a commit start with: a request, or the first delay.
FirstChain(s) ==
    [Off EXCEPT !.step = IF Loading(s) \/ Polling(s) THEN "due" ELSE "off"]

Effects(s) ==
    /\ chains' = [c \in Chains |-> IF c = 1 THEN FirstChain(s) ELSE Off]
    /\ handle' = IF Polling(s) THEN 1 ELSE None
    /\ listing' = [listing EXCEPT !["effect"] = None]

Rerun(s) ==
    \/ s.capability # view.capability \/ s.uploading # view.uploading
    \/ s.status # view.status \/ (renewed /\ s.status # None)

Commit(s) ==
    /\ next' = s /\ view' = s /\ renewed' = FALSE
    /\ IF Rerun(s) THEN Effects(s) ELSE UNCHANGED <<effectVars, listing>>

Settled == view = next /\ ~renewed
Render == ~Settled /\ Commit(next) /\ UNCHANGED <<server, saved, upload, asks, faults>>

\* clearCapabilityState as if the section kept following what it removed.
ClearedButFollowed(s) ==
    [s EXCEPT !.status = None, !.artifacts = None, !.form = TRUE]

\* clearCapabilityState, of the hooks.
Cleared(s) ==
    [s EXCEPT !.capability = None, !.status = None, !.artifacts = None, !.form = TRUE]

\* Without as if another entry were written beside the one of the replay.
WithoutNone(r) == saved
Without(r) ==
    IF Contains(saved, r)
    THEN RemoveAt(saved, CHOOSE i \in DOMAIN saved : saved[i] = r)
    ELSE saved

\* clearCapabilityState, called from a continuation of what read replay r.
Clear(r) == next' = Cleared(next) /\ saved' = Without(r) /\ UNCHANGED renewed

\* applyStatus, from the state `s` left by the calls before it.
Apply(s, r, is) ==
    IF is \in {"expired", "deleted"}
    THEN next' = Cleared(s) /\ saved' = Without(r) /\ UNCHANGED renewed
    ELSE /\ next' = [s EXCEPT !.status = [replay |-> r, is |-> is]]
         /\ saved' = Append(Without(r), r)
         /\ renewed' = TRUE

-----------------------------------------------------------------------------
(* The server, and calls that fail *)

After(is) ==
    CASE is = "created" -> {"expired"}
      [] is = "working" -> {"ready", "failed"}
      [] is = "deleting" -> {"gone"}
      [] is \in {"ready", "failed", "expired"} -> {"deleting"}
      [] OTHER -> {}

\* What the page can still ask about: it never learns the state of the others.
Reachable == ToSet(saved) \cup {view.capability, next.capability, upload.replay}
               \cup {listing["user"], asks["retry"], asks["delete"]}

ServerStep(r) ==
    /\ r \in Reachable
    /\ \E is \in After(server[r]) : server' = [server EXCEPT ![r] = is]
    /\ UNCHANGED <<saved, view, next, renewed, effectVars, listing, upload, asks, faults>>

Fault == faults < MaxFaults /\ faults' = faults + 1

-----------------------------------------------------------------------------
(* The two effects: load the status of a known capability, poll an active one  *)

SetChain(c, step, reply) == chains' = [chains EXCEPT ![c] = [step |-> step, reply |-> reply]]

\* A request is sent and the server reads the status, or the call fails on the
\* way or in the server.  A poll waits its delay of seconds first: renders that
\* are due come before.
StatusRead(c) ==
    /\ chains[c].step = "due"
    /\ Polling(view) => Settled
    /\ \/ SetChain(c, "served", server[view.capability]) /\ UNCHANGED faults
       \/ \E reply \in {"network", "error"} : SetChain(c, "served", reply) /\ Fault
    /\ UNCHANGED <<server, saved, view, next, renewed, handle, listing, upload, asks>>

Reply(c) == IF chains[c].step = "served" THEN chains[c].reply ELSE None

\* The effect schedules its next poll; its load asks only once.
Reschedule(c) ==
    IF Polling(view)
    THEN SetChain(c, "due", None) /\ handle' = c
    ELSE SetChain(c, "off", None) /\ UNCHANGED handle

StatusAnswer(c) ==
    /\ Reply(c) \in Statuses
    /\ Apply(next, view.capability, Reply(c))
    /\ IF Reply(c) \in Terminal
       THEN SetChain(c, "off", None) /\ UNCHANGED handle
       ELSE Reschedule(c)
    /\ listing' = IF Reply(c) = "ready"
                  THEN [listing EXCEPT !["effect"] = view.capability]
                  ELSE listing
    /\ UNCHANGED <<server, view, upload, asks, faults>>

NotFound(c) ==
    /\ Reply(c) = "gone"
    /\ Clear(view.capability)
    /\ SetChain(c, "off", None)
    /\ UNCHANGED <<server, view, handle, listing, upload, asks, faults>>

\* NetworkError as if every error ended the polls.
NetworkErrorEnds(c) ==
    /\ Reply(c) = "network"
    /\ SetChain(c, "off", None)
    /\ UNCHANGED <<server, saved, view, next, renewed, handle, listing, upload, asks, faults>>

\* Taken for transient by the polls: they back off and go on.
NetworkError(c) ==
    /\ Reply(c) = "network"
    /\ Reschedule(c)
    /\ UNCHANGED <<server, saved, view, next, renewed, listing, upload, asks, faults>>

\* OtherError as if any refusal meant that the replay is gone.
OtherErrorClears(c) ==
    /\ Reply(c) = "error"
    /\ Clear(view.capability)
    /\ SetChain(c, "off", None)
    /\ UNCHANGED <<server, view, handle, listing, upload, asks, faults>>

\* Any other error is shown and ends the chain.
OtherError(c) ==
    /\ Reply(c) = "error"
    /\ SetChain(c, "stopped", None)
    /\ UNCHANGED <<server, saved, view, next, renewed, handle, listing, upload, asks, faults>>

\* visibilitychange: a delay that `timer` names is cut short, which StatusRead
\* allows at any time; a request in flight goes on beside the one started now.
OnVisibility ==
    /\ Polling(view)
    /\ handle # None => chains[handle].step # "due"
    /\ \E c \in Chains : chains[c].step \in {"off", "stopped"} /\ SetChain(c, "due", None)
    /\ handle' = None
    /\ UNCHANGED <<server, saved, view, next, renewed, listing, upload, asks, faults>>

-----------------------------------------------------------------------------
(* Artifacts *)

\* loadArtifacts; a signal that was aborted left no request to answer.
ArtifactsAnswer(by) ==
    LET r == listing[by] IN
    /\ r # None
    /\ listing' = [listing EXCEPT ![by] = None]
    /\ \/ server[r] = "ready" /\ next' = [next EXCEPT !.artifacts = r]
            /\ UNCHANGED <<saved, renewed, faults>>
       \/ server[r] # "ready" /\ Clear(r) /\ UNCHANGED faults
       \/ Fault /\ UNCHANGED <<next, saved, renewed>>
    /\ UNCHANGED <<server, view, effectVars, upload, asks>>

GalleryShown ==
    /\ view.status # None /\ view.status.is = "ready"
    /\ view.capability # None /\ view.artifacts # None

\* refreshArtifacts, called when a presigned image fails to load.
RefreshArtifacts ==
    /\ GalleryShown /\ listing["user"] = None
    /\ listing' = [listing EXCEPT !["user"] = view.capability]
    /\ UNCHANGED <<server, saved, view, next, renewed, effectVars, upload, asks, faults>>

-----------------------------------------------------------------------------
(* Upload *)

FormShown ==
    /\ view.form /\ ~view.uploading
    /\ view.status # None => view.status.is \in {"deleted", "expired"}

HandleUpload ==
    /\ FormShown
    /\ Commit([next EXCEPT !.uploading = TRUE, !.form = FALSE])
    /\ upload' = [step |-> "creating", replay |-> None]
    /\ UNCHANGED <<server, saved, asks, faults>>

UploadGoesTo(step, r) == upload' = [step |-> step, replay |-> r]

\* Ids are new; the model gives them out in order.
Created == {r \in Replays : server[r] # "none"}

UploadCreated(r) ==
    /\ upload.step = "creating" /\ r \notin Created /\ 1..r - 1 \subseteq Created
    /\ server' = [server EXCEPT ![r] = "created"]
    /\ saved' = Append(saved, r)
    /\ next' = [next EXCEPT !.capability = r]
    /\ UploadGoesTo("sending", r)
    /\ UNCHANGED <<view, renewed, effectVars, listing, asks, faults>>

\* The content is sent and POST /complete is served.
CompleteServed ==
    /\ upload.step = "sending" /\ server[upload.replay] = "created"
    /\ server' = [server EXCEPT ![upload.replay] = "working"]
    /\ UploadGoesTo("completed", upload.replay)
    /\ UNCHANGED <<saved, view, next, renewed, effectVars, listing, asks, faults>>

CompleteAnswer ==
    /\ upload.step = "completed"
    /\ Apply([next EXCEPT !.uploading = FALSE], upload.replay, "working")
    /\ UploadGoesTo("idle", None)
    /\ UNCHANGED <<server, view, effectVars, listing, asks, faults>>

\* A call of the upload fails: always once the server dropped the replay.
UploadFails ==
    /\ upload.step # "idle"
    /\ \/ upload.step = "sending" /\ server[upload.replay] # "created"
            /\ UNCHANGED faults
       \/ upload.step = "creating" /\ Created = Replays
            /\ UNCHANGED faults
       \/ Fault
    /\ next' = [next EXCEPT !.uploading = FALSE, !.form = TRUE]
    /\ UploadGoesTo("idle", None)
    /\ UNCHANGED <<server, saved, view, renewed, effectVars, listing, asks>>

\* The handler closes over the capability of the last render.
HandleCancelUpload ==
    /\ view.uploading
    /\ UploadGoesTo("idle", None)
    /\ LET stopped == [next EXCEPT !.uploading = FALSE] IN
       IF view.capability # None
       THEN Commit(Cleared(stopped)) /\ saved' = Without(view.capability)
       ELSE Commit([stopped EXCEPT !.form = TRUE]) /\ UNCHANGED saved
    /\ UNCHANGED <<server, asks, faults>>

-----------------------------------------------------------------------------
(* Retry and delete: their signals are never aborted.  The server acts when it *)
(* gets the call, its answer is applied at any later time; a call that fails   *)
(* or is refused shows a message and changes nothing.                          *)

Asked(what) ==
    /\ asks[what] = None
    /\ asks' = [asks EXCEPT ![what] = view.capability]
    /\ UNCHANGED <<saved, view, next, renewed, effectVars, listing, upload, faults>>

Answered(what) ==
    /\ asks[what] # None
    /\ asks' = [asks EXCEPT ![what] = None]
    /\ UNCHANGED <<server, view, effectVars, listing, upload, faults>>

PanelShows(allowed) ==
    view.capability # None /\ view.status # None /\ view.status.is \in allowed

HandleRetry ==
    /\ PanelShows({"failed"})
    /\ server[view.capability] = "failed"
    /\ server' = [server EXCEPT ![view.capability] = "working"]
    /\ Asked("retry")

\* A replay that is gone is answered as one that is deleted.
HandleDelete ==
    /\ PanelShows(Statuses \ {"expired"}) /\ ~view.uploading
    /\ server' = [server EXCEPT ![view.capability] = IF @ = "gone" THEN "gone" ELSE "deleting"]
    /\ Asked("delete")

RetryAnswer == Apply(next, asks["retry"], "working") /\ Answered("retry")
DeleteAnswer == Clear(asks["delete"]) /\ Answered("delete")

\* The page is loaded again: only localStorage and the server remain.
Reload ==
    /\ view' = Mounted /\ next' = Mounted /\ renewed' = FALSE
    /\ chains' = [c \in Chains |-> IF c = 1 THEN FirstChain(Mounted) ELSE Off]
    /\ handle' = None
    /\ listing' = [by \in {"effect", "user"} |-> None]
    /\ upload' = [step |-> "idle", replay |-> None]
    /\ asks' = [what \in {"retry", "delete"} |-> None]
    /\ UNCHANGED <<server, saved, faults>>

-----------------------------------------------------------------------------
(* Specification.  Renders, timers and the calls of the browser come; the      *)
(* user and the server owe nothing.                                            *)

Init ==
    /\ server = [r \in Replays |-> "none"]
    /\ saved = <<>>
    /\ view = Mounted /\ next = Mounted /\ renewed = FALSE
    /\ chains = [c \in Chains |-> Off] /\ handle = None
    /\ listing = [by \in {"effect", "user"} |-> None]
    /\ upload = [step |-> "idle", replay |-> None]
    /\ asks = [what \in {"retry", "delete"} |-> None]
    /\ faults = 0 /\ clicks = 0

ChainStep(c) ==
    \/ StatusRead(c) \/ StatusAnswer(c)
    \/ NotFound(c) \/ NetworkError(c) \/ OtherError(c)

UploadStep ==
    \/ \E r \in Replays : UploadCreated(r)
    \/ CompleteServed \/ CompleteAnswer \/ UploadFails

AskStep == RetryAnswer \/ DeleteAnswer

Click ==
    /\ clicks < MaxClicks /\ clicks' = clicks + 1
    /\ \/ HandleUpload \/ HandleCancelUpload \/ HandleRetry \/ HandleDelete
       \/ OnVisibility \/ Reload

Browser ==
    \/ Render \/ RefreshArtifacts
    \/ \E c \in Chains : ChainStep(c)
    \/ \E by \in {"effect", "user"} : ArtifactsAnswer(by)
    \/ UploadStep \/ AskStep

Next ==
    \/ Click
    \/ (Browser \/ \E r \in Replays : ServerStep(r)) /\ UNCHANGED clicks

Fairness ==
    /\ WF_vars(Render /\ UNCHANGED clicks)
    /\ \A c \in Chains : WF_vars(ChainStep(c) /\ UNCHANGED clicks)
    /\ \A by \in {"effect", "user"} : WF_vars(ArtifactsAnswer(by) /\ UNCHANGED clicks)
    /\ WF_vars((UploadStep \/ AskStep) /\ UNCHANGED clicks)

Spec == Init /\ [][Next]_vars /\ Fairness

-----------------------------------------------------------------------------
(* Properties *)

\* The polls stop on ready, failed and expired, and during an upload: nothing
\* of an earlier effect goes on asking (229-312; polling "stops on ready,
\* failed, deleted, or expired" in the replay design).
PollsStop ==
    view.uploading \/ (view.status # None /\ view.status.is \in {"ready", "failed", "expired"})
      => \A c \in Chains : chains[c].step \in {"off", "stopped"}

\* The replay the section follows is one a reload finds again: memory and
\* localStorage agree however answers, clicks and renders interleave (144-168,
\* 340-347).
Held == next.capability # None => Contains(saved, next.capability)

\* The only copy of a replay's token is given up because the server no longer
\* serves the replay, because the user cancels an upload or because a refresh of
\* the gallery is refused, never for a call that failed or an answer to
\* something else (144-150, 210-224, 257-280).
TokenKept ==
    [][\A r \in ToSet(saved) \ ToSet(saved') :
          \/ server[r] \in {"expired", "deleting", "gone"}
          \/ HandleCancelUpload \/ ArtifactsAnswer("user")]_vars

\* An active replay that settles on the server is seen to settle, through
\* network errors, overlapping polls, retries and tab switches, unless it moves
\* on before or another error ended the polls (229-312).
Followed ==
    \A r \in Replays :
      (Polling(view) /\ view.capability = r /\ server[r] \in {"ready", "failed", "expired", "gone"})
        ~> \/ ~Polling(view) \/ view.capability # r
           \/ server[r] \in {"working", "deleting"}
           \/ \E c \in Chains : chains[c].step = "stopped"

\* A replay that is shown as ready gets its artifacts.
ReadyShowsArtifacts ==
    \A r \in Replays :
      LET shown == view.capability = r /\ view.status = [replay |-> r, is |-> "ready"]
                     /\ server[r] = "ready" IN
      shown ~> (view.artifacts = r \/ ~shown)
=============================================================================
