----------------------------- MODULE LocalUpload -----------------------------
(* PUT /content with the local store: the gateway's rate limits of services/   *)
(* replays/rate_limit.py and the dependencies of api/replays.py that apply     *)
(* them, the route, and LocalReplayStorage of services/replays/storage/        *)
(* local.py down to its files.  The uploads are of one replay: they write the  *)
(* same source key, and on disk the same ".part" file before it is renamed.    *)
(* A file is an inode that a name or the handle of an upload reaches.          *)
EXTENDS Integers, FiniteSets, SequencesExt

CONSTANTS
    Clients,         \* addresses resolve_client_ip finds
    Uploads,
    RequestLimit,    \* request_limit, per window
    CreateLimit,     \* create_limit, per window
    Second,          \* ticks of the clock in a second
    Window,          \* window_seconds, the same for both, in ticks
    SlotLimit,       \* upload_concurrency_limit
    MaxBytes,        \* what the route accepts, in chunks
    MaxTime,         \* of the clock
    None

ASSUME UploadAssumption ==
    /\ RequestLimit \in Nat \ {0} /\ CreateLimit \in Nat \ {0} /\ Window \in Nat \ {0}
    /\ Second \in Nat \ {0} /\ SlotLimit \in Nat \ {0} /\ MaxBytes \in Nat /\ MaxTime \in Nat
    /\ None \notin Nat /\ IsFiniteSet(Uploads)

VARIABLES
    now,
    hits,        \* _RollingWindowCounter._hits, for requests and creates
    accepted,    \* times of all the hits allowed
    told,        \* what a refused client was told last, until a hit is allowed:
                 \* the time to come back, and whether it had waited for the
                 \* time it was told before
    active,      \* _ConcurrencyCounter._active
    up,          \* each upload: its step, its client, the chunks it has read
    status,      \* of the replay: "created" or "uploaded"
    part, final, \* inodes of the two names
    inode        \* [size, writers] of each inode

gateVars == <<now, hits, accepted, told>>
fileVars == <<part, final, inode>>
vars == <<gateVars, active, up, status, fileVars>>

Kinds == {"request", "create"}
Limit == [request |-> RequestLimit, create |-> CreateLimit]
NoUpload == [step |-> "idle", client |-> None, read |-> 0, handle |-> None]
Inodes == 0..Cardinality(Uploads)  \* enough for a name and every handle
Empty == [size |-> 0, writers |-> {}]

Init ==
    /\ now = 0
    /\ hits = [k \in Kinds |-> [c \in Clients |-> <<>>]]
    /\ accepted = hits
    /\ told = [k \in Kinds |-> [c \in Clients |-> None]]
    /\ active = [c \in Clients |-> 0]
    /\ up = [u \in Uploads |-> NoUpload]
    /\ status = "created"
    /\ part = None /\ final = None
    /\ inode = [i \in Inodes |-> Empty]

-----------------------------------------------------------------------------
(* Rolling windows *)

\* How many hits popleft drops.
Dropped(k, c) ==
    LET h == hits[k][c]
    IN  Min({n \in 0..Len(h) : n = Len(h) \/ h[n + 1] > now - Window})

RecentHits(k, c) == SubSeq(hits[k][c], Dropped(k, c) + 1, Len(hits[k][c]))

\* Refused as if one more than the limit were allowed, then as it is.
RefusedPastLimit(k, c) == Len(RecentHits(k, c)) > Limit[k]
Refused(k, c) == Len(RecentHits(k, c)) >= Limit[k]

\* hit, allowed: old hits are dropped, the new one is added.
Allow(k, c) ==
    /\ ~Refused(k, c)
    /\ hits' = [hits EXCEPT ![k][c] = Append(RecentHits(k, c), now)]
    /\ accepted' = [accepted EXCEPT ![k][c] = Append(@, now)]
    /\ told' = [told EXCEPT ![k][c] = None]

Larger(a, b) == IF a >= b THEN a ELSE b

\* round: the nearest second, and of two the even one.
Rounded(wait) ==
    LET s == wait \div Second  twice == 2 * (wait % Second) IN
    IF twice < Second \/ (twice = Second /\ s % 2 = 0) THEN s ELSE s + 1

\* The Retry-After header as if nothing were made of a wait that rounds to no
\* second, then as it is.
RetryAfterOrZero(wait) == Rounded(wait)
RetryAfter(wait) == Larger(1, Rounded(wait))

\* hit, refused: the exact wait is until the oldest hit leaves; the client is told
\* the one of replay_rate_limited.
Refuse(k, c) ==
    LET wait == Head(RecentHits(k, c)) + Window - now IN
    /\ Refused(k, c)
    /\ hits' = [hits EXCEPT ![k][c] = RecentHits(k, c)]
    /\ told' = [told EXCEPT ![k][c] =
                  [until |-> now + Second * RetryAfter(wait),
                   waited |-> @ # None /\ now >= @.until]]
    /\ UNCHANGED accepted

\* A call of another route, which asks for the request window only.
OtherRequest(c) ==
    /\ Allow("request", c) \/ Refuse("request", c)
    /\ UNCHANGED <<now, active, up, status, fileVars>>

\* enforce_create_rate_limit runs after the request was allowed: a client that
\* asks to create spends a request first, here as a call of its own.
Create(c) ==
    /\ now \in ToSet(hits["request"][c])
    /\ Allow("create", c) \/ Refuse("create", c)
    /\ UNCHANGED <<now, active, up, status, fileVars>>

Tick ==
    /\ now < MaxTime /\ now' = now + 1
    /\ UNCHANGED <<hits, accepted, told, active, up, status, fileVars>>

-----------------------------------------------------------------------------
(* Upload slots *)

At(u, step) == up[u].step = step
GoTo(u, step) == up' = [up EXCEPT ![u].step = step]

UploadStarts(u, c) ==
    /\ At(u, "idle")
    /\ \/ Allow("request", c) /\ up' = [up EXCEPT ![u] = [NoUpload EXCEPT !.step = "slot", !.client = c]]
       \/ Refuse("request", c) /\ UNCHANGED up
    /\ UNCHANGED <<now, active, status, fileVars>>

\* acquire; a client over its limit is refused.
Acquire(u) ==
    LET c == up[u].client IN
    /\ At(u, "slot")
    /\ IF active[c] >= SlotLimit
       THEN up' = [up EXCEPT ![u] = NoUpload] /\ UNCHANGED active
       ELSE active' = [active EXCEPT ![c] = @ + 1] /\ GoTo(u, "check")
    /\ UNCHANGED <<gateVars, status, fileVars>>

\* AfterRelease as if the client's entry were always dropped, then as it is.
NoneLeft(count) == 0
AfterRelease(count) == IF count <= 1 THEN 0 ELSE count - 1

\* release, in the finally clause of the dependency.
Release(u) ==
    /\ At(u, "release")
    /\ active' = [active EXCEPT ![up[u].client] = AfterRelease(@)]
    /\ up' = [up EXCEPT ![u] = NoUpload]
    /\ UNCHANGED <<gateVars, status, fileVars>>

-----------------------------------------------------------------------------
(* The route and write_stream *)

\* The row is read before anything is written: a replay that has its source is
\* refused, as is a bad token, a late upload or a declared size over the limit.
Check(u) ==
    /\ At(u, "check")
    /\ \/ status = "created" /\ GoTo(u, "open")
       \/ GoTo(u, "release")
    /\ UNCHANGED <<gateVars, active, status, fileVars>>

Unused(i) == i # final /\ \A u \in Uploads : up[u].handle # i

\* The file is truncated when it is there: another upload may be writing it.
Open(u) ==
    LET i == IF part = None THEN CHOOSE j \in Inodes : Unused(j) ELSE part IN
    /\ At(u, "open")
    /\ part' = i
    /\ inode' = [inode EXCEPT ![i] = Empty]
    /\ up' = [up EXCEPT ![u].step = "body", ![u].handle = i]
    /\ UNCHANGED <<gateVars, active, status, final>>

\* Without a directory nothing is removed, without a handle the partial name is.
OpenFails(u) ==
    /\ At(u, "open")
    /\ GoTo(u, "release") \/ GoTo(u, "unlink")
    /\ UNCHANGED <<gateVars, active, status, fileVars>>

\* TooLarge as if the chunk that has come were not counted, then as it is.
TooLargeLate(u) == up[u].read > MaxBytes
TooLarge(u) == up[u].read + 1 > MaxBytes

\* A chunk is counted before it is written, at the offset of this upload.
Chunk(u) ==
    LET i == up[u].handle IN
    /\ At(u, "body") /\ ~TooLarge(u)
    /\ up' = [up EXCEPT ![u].read = @ + 1]
    /\ inode' = [inode EXCEPT ![i] = [size |-> Larger(@.size, up[u].read + 1),
                                      writers |-> @.writers \cup {u}]]
    /\ UNCHANGED <<gateVars, active, status, part, final>>

\* BodyEnds as if a body cut off left its partial file, then as it is: complete,
\* cut off or too large, the handle is closed.
BodyEndsUnclean(u) ==
    /\ At(u, "body")
    /\ \/ GoTo(u, "rename")
       \/ GoTo(u, "release")
    /\ UNCHANGED <<gateVars, active, status, fileVars>>
BodyEnds(u) ==
    /\ At(u, "body")
    /\ \/ GoTo(u, "rename")
       \/ GoTo(u, "unlink")
    /\ UNCHANGED <<gateVars, active, status, fileVars>>

\* os.replace, which fails when another upload has moved or removed the file.
Rename(u) ==
    /\ At(u, "rename")
    /\ IF part = None
       THEN GoTo(u, "unlink") /\ UNCHANGED fileVars
       ELSE final' = part /\ part' = None /\ GoTo(u, "mark") /\ UNCHANGED inode
    /\ UNCHANGED <<gateVars, active, status>>

\* _unlink_if_exists on the partial name, whoever wrote what it names now.
Unlink(u) ==
    /\ At(u, "unlink") /\ GoTo(u, "release")
    /\ part' = None
    /\ UNCHANGED <<gateVars, active, status, final, inode>>

\* mark_local_uploaded makes the replay uploaded, finds it so, or raises.  Only a
\* cancellation goes past the cleanup.
Mark(u) ==
    /\ At(u, "mark")
    /\ \/ status' = "uploaded" /\ GoTo(u, "release")
       \/ UNCHANGED status /\ (GoTo(u, "delete_final") \/ GoTo(u, "release"))
    /\ UNCHANGED <<gateVars, active, fileVars>>

\* The route's cleanup: delete removes both names, one after the other.  A name
\* another upload removes after is_file ends the cleanup.
DeleteFinal(u) ==
    /\ At(u, "delete_final")
    /\ GoTo(u, "delete_part") \/ (final = None /\ GoTo(u, "release"))
    /\ final' = None
    /\ UNCHANGED <<gateVars, active, status, part, inode>>
DeletePart(u) ==
    /\ At(u, "delete_part") /\ GoTo(u, "release")
    /\ part' = None
    /\ UNCHANGED <<gateVars, active, status, final, inode>>

-----------------------------------------------------------------------------
(* Specification *)

UploadStep(u) ==
    \/ Acquire(u) \/ Release(u) \/ Check(u) \/ Open(u) \/ OpenFails(u) \/ Chunk(u)
    \/ BodyEnds(u) \/ Rename(u) \/ Unlink(u) \/ Mark(u) \/ DeleteFinal(u) \/ DeletePart(u)

Next ==
    \/ Tick
    \/ \E c \in Clients : OtherRequest(c) \/ Create(c)
    \/ \E u \in Uploads, c \in Clients : UploadStarts(u, c)
    \/ \E u \in Uploads : UploadStep(u)

Spec == Init /\ [][Next]_vars

-----------------------------------------------------------------------------
(* Properties *)

\* No stretch of time shorter than the window, wherever it begins, has more
\* allowed hits of a client than the limit, although hits are only dropped from
\* the counter when the client comes again: a hit and the one as many before it
\* as the limit are a window apart (rate_limit.py:77-87).
WindowBound ==
    \A k \in Kinds, c \in Clients : \A n \in DOMAIN accepted[k][c] :
      n > Limit[k] => accepted[k][c][n] - accepted[k][c][n - Limit[k]] >= Window

\* The wait a refused client is told is rounded, so a client that comes back then
\* may be refused once more, but it is at most half a second early, and the wait
\* it is told then is enough, while nothing else of it is allowed
\* (rate_limit.py:81-85, core/errors.py:119-120).
SecondWaitIsEnough ==
    \A k \in Kinds, c \in Clients :
      LET t == told[k][c] IN
      t # None =>
        /\ 2 * now >= 2 * t.until + Second => ~Refused(k, c)
        /\ t.waited /\ now >= t.until => ~Refused(k, c)

\* That the wait told is enough the first time.  It is not: 12.4 s are told as 12
\* (tests/test_errors.py:111-118).
FirstWaitIsEnough ==
    \A k \in Kinds, c \in Clients :
      told[k][c] # None /\ now >= told[k][c].until => ~Refused(k, c)

Holds(u) == up[u].step \notin {"idle", "slot"}

\* The counter of upload slots is the number of uploads that hold one, whichever
\* way they end, and never above the limit (rate_limit.py:98-112, api/replays.py
\* :107-123).
SlotsMatch ==
    \A c \in Clients :
      /\ active[c] = Cardinality({u \in Uploads : Holds(u) /\ up[u].client = c})
      /\ active[c] <= SlotLimit

\* Nothing larger than the limit takes the final name, not even of two bodies
\* mixed in one file, and later writes through a handle that is still open keep
\* it so (local.py:64-89).
SizeBounded == final # None => inode[final].size <= MaxBytes

\* When no upload is at work no partial file is left, although uploads rename
\* and remove each other's (local.py:81-89, 168-171).
NoPartLeft == (\A u \in Uploads : ~Holds(u)) => part = None

\* The source is one whole body.  Two uploads at once break it: the file is
\* truncated and written by both, and renamed by the first.
SourceIsOneBody ==
    final # None /\ (\A u \in Uploads : ~Holds(u)) => Cardinality(inode[final].writers) <= 1
=============================================================================
