------------------------------ MODULE RiotClient ------------------------------
(* One call to the Riot API: RiotHttpClient.get_json of services/riot/client   *)
(* .py, as a function of what the network answers to its one or two requests,  *)
(* and the methods of services/riot/gateway.py, which differ in what they ask. *)
EXTENDS Integers

CONSTANTS
    TotalTimeout,   \* total_timeout_seconds
    MaxDelay,       \* retry_max_delay_seconds
    MaxAfter,       \* largest Retry-After an instance enumerates
    None

ASSUME ClientAssumption ==
    /\ TotalTimeout \in Nat
    /\ MaxDelay \in Nat /\ MaxAfter \in Nat
    /\ None \notin Nat

\* What a request meets: a body (readable or not), an HTTP status, or no answer.
Kind == {"body", "bad_body", "400", "401", "404", "429", "4xx", "5xx", "network"}

\* A reply, the time it took to come and its Retry-After header; a header that
\* is absent, negative or not a number reads as None.
Reply == [kind : Kind, took : Nat, after : Nat \cup {None}]

\* The code a reply is reported with when no request follows it.
Outcome(reply) ==
    CASE reply.kind = "body"     -> "OK"
      [] reply.kind = "bad_body" -> "RIOT_INVALID_RESPONSE"
      [] reply.kind = "400"      -> "RIOT_REQUEST_INVALID"
      [] reply.kind = "401"      -> "RIOT_AUTH_FAILED"
      [] reply.kind = "404"      -> "NOT_FOUND"
      [] reply.kind = "429"      -> "RIOT_RATE_LIMITED"
      [] OTHER                   -> "RIOT_UNAVAILABLE"

\* As if what remains of the budget were not looked at.
HonouredIfShort(reply) ==
    reply.kind = "429" /\ reply.after # None /\ reply.after <= MaxDelay

\* Retry-After is honoured when it is short and fits in what remains.
Honoured(reply) ==
    /\ reply.kind = "429"
    /\ reply.after # None
    /\ reply.after <= MaxDelay
    /\ reply.after <= TotalTimeout - reply.took

Retried(reply) == reply.kind \in {"network", "5xx"} \/ Honoured(reply)

\* The jitter of the default client is the whole delay.
Pause(reply) == IF reply.kind = "429" THEN reply.after ELSE MaxDelay

Ended(code, requests, elapsed) ==
    [code |-> code, requests |-> requests, elapsed |-> elapsed]

\* asyncio.timeout ends the call wherever it is.
TimedOut(requests) == Ended("RIOT_UNAVAILABLE", requests, TotalTimeout)

GetJson(first, second) ==
    LET resumed == first.took + Pause(first) IN
    CASE first.took > TotalTimeout -> TimedOut(1)
      [] first.took <= TotalTimeout /\ ~Retried(first) ->
            Ended(Outcome(first), 1, first.took)
      [] first.took <= TotalTimeout /\ Retried(first) /\ resumed > TotalTimeout ->
            TimedOut(1)
      [] OTHER ->
            IF resumed + second.took > TotalTimeout
            THEN TimedOut(2)
            ELSE Ended(Outcome(second), 2, resumed + second.took)

-----------------------------------------------------------------------------
(* Calls of the gateway *)

\* Replies of an instance: to ask for something that is there, or is not.
Replies(there) ==
    [kind : Kind \ (IF there THEN {"404"} ELSE {"body"}),
     took : 0..TotalTimeout + 1,
     after : 0..MaxAfter \cup {None}]

Codes(there) ==
    {GetJson(call[1], call[2]).code : call \in Replies(there) \X Replies(there)}

CodesThere == Codes(TRUE)
CodesMissing == Codes(FALSE)

\* The answers a gateway method may get.
Answers(there) == IF there THEN CodesThere ELSE CodesMissing

Failures == {"RIOT_INVALID_RESPONSE", "RIOT_REQUEST_INVALID", "RIOT_AUTH_FAILED",
             "RIOT_RATE_LIMITED", "RIOT_UNAVAILABLE"}

-----------------------------------------------------------------------------
\* A call makes at most two requests and ends within its timeout; one that was
\* told to wait is reported as rate limited or carried on: the budget is never
\* spent in the pause that Retry-After asked for (client.py:112-124).
CallBounded(first, second) ==
    LET call == GetJson(first, second) IN
    /\ call.requests \in 1..2
    /\ call.elapsed <= TotalTimeout
    /\ (first.kind = "429" /\ first.took <= TotalTimeout /\ call.requests = 1)
          => call.code = "RIOT_RATE_LIMITED"

BoundedThere == \A first, second \in Replies(TRUE) : CallBounded(first, second)
BoundedMissing == \A first, second \in Replies(FALSE) : CallBounded(first, second)
=============================================================================
