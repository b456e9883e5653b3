---------------------------- MODULE PlayerService ----------------------------
(* Players by Riot ID or account: services/players.py over the table of        *)
(* repositories/players.py, for one platform (a row belongs to one platform).  *)
(* A request reads the row, and on a miss asks Riot for the account and the    *)
(* summoner and writes the row.  MatchService goes through it first.           *)
EXTENDS RiotClient, FiniteSets

CONSTANTS
    Puuids, Names,   \* accounts, and the Riot IDs they may have
    MatchIds,        \* matches of every account
    Requests, Loads, \* callers, and loads of a match that can exist at a time
    MaxMoves         \* changes of the world outside that an instance allows

\* Accounts have Riot IDs of their own.
Distinct(f) == \A p, q \in Puuids : f[p] = f[q] => p = q

ASSUME PlayerAssumption ==
    /\ MaxMoves \in Nat
    /\ None \notin Puuids \cup Names \cup MatchIds \cup Loads
    /\ \E f \in [Puuids -> Names] : Distinct(f)

VARIABLES
    name,      \* the Riot ID each account has
    moves,     \* changes of the world outside so far
    players,   \* the Riot ID in the fresh row of each account
    rq         \* requests

-----------------------------------------------------------------------------
(* Requests.  op is what the caller asked for; a call starts with the read     *)
(* that is its first await.                                                    *)

RequestStep == {"idle", "account", "save", "recent", "ids", "wait"}

Idle == [step |-> "idle", op |-> None, puuid |-> None, name |-> None, loads |-> {}]

Request == [step : RequestStep, op : {None, "resolve", "list"},
            puuid : Puuids \cup {None}, name : Names \cup {None},
            loads : SUBSET Loads]

At(r, step) == rq[r].step = step
Answer(r) == rq' = [rq EXCEPT ![r] = Idle]

\* With the player known, resolve answers and list_recent goes on.
PlayerKnown(r, op, p) ==
    rq' = [rq EXCEPT ![r] = IF op = "list"
                            THEN [Idle EXCEPT !.step = "recent", !.op = op, !.puuid = p]
                            ELSE Idle]

-----------------------------------------------------------------------------
(* Rows.  One whose fetched_at is older than player_cache_ttl_seconds is not   *)
(* selected, and is replaced like one that is missing.                         *)

FreshPlayer(puuid) == players[puuid] # None

\* The rows get_by_riot_id selects.  Nothing keeps two of them from having one
\* Riot ID: scalar_one_or_none raises then, and the call fails.
Named(n) == {p \in Puuids : FreshPlayer(p) /\ players[p] = n}

PlayerTypeOK ==
    /\ name \in [Puuids -> Names]
    /\ moves \in 0..MaxMoves
    /\ players \in [Puuids -> Names \cup {None}]
    /\ rq \in [Requests -> Request]

\* Which Riot IDs the accounts have first makes no difference.
PlayerInit ==
    /\ name = CHOOSE f \in [Puuids -> Names] : Distinct(f)
    /\ moves = 0
    /\ players = [p \in Puuids |-> None]
    /\ rq = [r \in Requests |-> Idle]

-----------------------------------------------------------------------------
(* Steps; each leaves what MatchService adds as it is                          *)

\* One row answers, more than one fails, none asks Riot.
Resolve(r, n) ==
    /\ At(r, "idle")
    /\ Named(n) = {}
    /\ rq' = [rq EXCEPT ![r] = [Idle EXCEPT !.step = "account", !.op = "resolve",
                                            !.name = n]]
    /\ UNCHANGED <<name, moves, players>>

\* get_by_puuid, which list_recent awaits first.
ListRecent(r, p) ==
    /\ At(r, "idle")
    /\ IF FreshPlayer(p)
       THEN PlayerKnown(r, "list", p)
       ELSE rq' = [rq EXCEPT ![r] = [Idle EXCEPT !.step = "account", !.op = "list",
                                                 !.puuid = p]]
    /\ UNCHANGED <<name, moves, players>>

\* get_account_by_riot_id or get_account_by_puuid: the account as it is now.
Holder(r) == IF rq[r].op = "resolve" THEN {p \in Puuids : name[p] = rq[r].name}
                                     ELSE {rq[r].puuid}

\* The account, then its summoner on this platform, if it plays there.
AccountAnswer(r) ==
    /\ At(r, "account")
    /\ \E account \in Answers(Holder(r) # {}), summoner \in CodesThere \cup CodesMissing :
         \/ /\ account = "OK" /\ summoner = "OK"
            /\ \E p \in Holder(r) :
                 rq' = [rq EXCEPT ![r].step = "save", ![r].puuid = p, ![r].name = name[p]]
         \/ account # "OK" /\ Answer(r)
         \/ account = "OK" /\ summoner # "OK" /\ Answer(r)
    /\ UNCHANGED <<name, moves, players>>

\* The upsert by (platform, puuid) of what the account answered.
SavePlayer(r) ==
    /\ At(r, "save")
    /\ players' = [players EXCEPT ![rq[r].puuid] = rq[r].name]
    /\ PlayerKnown(r, rq[r].op, rq[r].puuid)
    /\ UNCHANGED <<name, moves>>

PlayerStep(r) == AccountAnswer(r) \/ SavePlayer(r)

ExpirePlayer(p) ==
    /\ FreshPlayer(p)
    /\ players' = [players EXCEPT ![p] = None]
    /\ UNCHANGED <<name, moves, rq>>

\* Accounts change their Riot IDs, and one may take what another gave up.
Rename(new) ==
    /\ moves < MaxMoves /\ moves' = moves + 1
    /\ Distinct(new)
    /\ name' = new
    /\ UNCHANGED <<players, rq>>
=============================================================================
