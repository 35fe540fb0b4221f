----------------------------- MODULE ApiClient -----------------------------
(***************************************************************************)
(* DeviantArtClient.get_json on top of RefreshTokenAuth: a process makes   *)
(* one call of get_json per page, and every attempt of a call asks token() *)
(* for its bearer.                                                         *)
(***************************************************************************)
EXTENDS TokenAuth

CONSTANTS
    MaxRetries,       \* DAWATCH_MAX_RETRIES
    MaxPages,         \* MAX_PAGES: calls of get_json in one process
    RetryAfters,      \* Retry-After headers the API sends: seconds, or NoHeader
    MaxRetryAfter     \* MAX_RETRY_AFTER_SECONDS

NoHeader == -1000000  \* no Retry-After, or one that is not a number

ASSUME MaxRetriesAssumption == MaxRetries \in Nat
ASSUME MaxPagesAssumption == MaxPages \in Nat \ {0}
ASSUME RetryAftersAssumption == RetryAfters \subseteq Int
ASSUME MaxRetryAfterAssumption == MaxRetryAfter \in Nat

VARIABLE call  \* the locals of get_json in each process

clientVars == <<vars, call>>

\* `sent` counts the requests of this call; `slept` and `idle` the seconds this
\* process has slept, and those after which no attempt came.
Call ==
    [attempt : Nat, reauthed : BOOLEAN, sent : Nat, pages : 0..MaxPages,
     slept : Nat, idle : Nat]

NewCall(pages, slept) ==
    [attempt |-> 0, reauthed |-> FALSE, sent |-> 0, pages |-> pages,
     slept |-> slept, idle |-> 0]

ClientTypeOK == TypeOK /\ call \in [Proc -> Call]

ClientInit == Init /\ call = [p \in Proc |-> NewCall(0, 0)]

Attempts == IF MaxRetries < 1 THEN 1 ELSE MaxRetries

-----------------------------------------------------------------------------
Calls(p, c) == call' = [call EXCEPT ![p] = c]

Sent(p) == [call[p] EXCEPT !.sent = @ + 1]

\* Mutant: the server's advice is taken as it is.
Unclamped(attempt, retry_after) ==
    IF retry_after = NoHeader THEN 2^attempt
    ELSE IF retry_after < 0 THEN 0
    ELSE retry_after

\* _wait
Delay(attempt, retry_after) ==
    IF retry_after = NoHeader THEN 2^attempt
    ELSE IF retry_after < 0 THEN 0
    ELSE IF retry_after > MaxRetryAfter THEN MaxRetryAfter
    ELSE retry_after

StartProcess(p) == Begin(p) /\ Calls(p, NewCall(0, 0))

\* Mutant: paging goes on after MAX_PAGES.
AskTokenForMore(p) == TokenCall(p) /\ UNCHANGED call

\* token() is called in every attempt, and no page is requested after the last.
AskToken(p) ==
    /\ auth[p].pc = "ready" => call[p].pages < MaxPages
    /\ TokenCall(p)
    /\ UNCHANGED call

\* 200 with a JSON object.
Answered(p) ==
    /\ Used(p)
    /\ Accepts(auth[p].bearer)
    /\ Calls(p, NewCall(call[p].pages + 1, call[p].slept))

\* Mutant: reauthed is not remembered.
ReauthenticateAlways(p) ==
    /\ Invalidated(p)
    /\ Calls(p, Sent(p))

Reauthenticate(p) ==
    /\ Invalidated(p)
    /\ ~call[p].reauthed
    /\ Calls(p, [Sent(p) EXCEPT !.reauthed = TRUE])

\* A second 401, another status that is not retryable, a body that is not JSON.
Refused(p) ==
    /\ auth[p].pc = "granted"
    /\ Accepts(auth[p].bearer) \/ call[p].reauthed
    /\ Exit(p)
    /\ Calls(p, Sent(p))

\* Mutant: a transport error or a retryable status does not use up an attempt.
RetryFreely(p) == Used(p) /\ UNCHANGED call

\* Transport error, 429 or 5xx, and an attempt is left.
Retry(p) ==
    /\ call[p].attempt + 1 < Attempts
    /\ Used(p)
    /\ \E retry_after \in RetryAfters :
        Calls(p, [Sent(p) EXCEPT
                    !.attempt = @ + 1,
                    !.slept = @ + Delay(call[p].attempt, retry_after)])

\* The same after the last attempt: it sleeps, then raises FetchError.
GiveUp(p) ==
    /\ call[p].attempt + 1 >= Attempts
    /\ auth[p].pc = "granted"
    /\ Exit(p)
    /\ \E retry_after \in RetryAfters :
        LET delay == Delay(call[p].attempt, retry_after) IN
        Calls(p, [Sent(p) EXCEPT !.attempt = @ + 1,
                                 !.slept = @ + delay,
                                 !.idle = @ + delay])

\* has_more is false, a seen deviation is reached, the cap is reached, or an
\* exception has left token().
StopProcess(p) ==
    /\ \/ auth[p].pc = "ready" /\ call[p].pages > 0 /\ call[p].sent = 0
       \/ auth[p].pc \in {"error", "config_error"}
    /\ Exit(p)
    /\ UNCHANGED call

\* At any point: in token(), during the request or in the sleep.
KillProcess(p) == Crash(p) /\ UNCHANGED call

Step(p) ==
    \/ AskToken(p) \/ Answered(p) \/ Reauthenticate(p) \/ Refused(p)
    \/ Retry(p) \/ GiveUp(p) \/ StopProcess(p)

ClientNext ==
    \/ Environment /\ UNCHANGED call
    \/ \E p \in Proc : StartProcess(p) \/ Step(p) \/ KillProcess(p)

ClientSpec == ClientInit /\ [][ClientNext]_clientVars

\* A process that is running goes on; requests time out (DAWATCH_HTTP_TIMEOUT).
FairClientSpec == ClientSpec /\ \A p \in Proc : WF_clientVars(Step(p))

-----------------------------------------------------------------------------
(***************************************************************************)
(* Properties.                                                             *)
(***************************************************************************)
\* Refused requests, transport errors and revoked tokens together never make a
\* call send more than its attempts and one request more, after the only
\* re-authentication.
CallBounded == \A p \in Proc : call[p].sent <= Attempts + 1

\* However long the Retry-After headers of an API under pressure, a process
\* sleeps at most the clamp for each attempt of each page (as long as there are
\* so few attempts that the backoff without a header stays below the clamp).
SleepBounded ==
    \A p \in Proc : call[p].slept <= MaxPages * Attempts * MaxRetryAfter

\* A process asleep never outlasts the 300 seconds the schedule allows.
SlotNotHeld == \A p \in Proc : call[p].slept < 300

\* It sleeps before the next attempt, not after the last one.
SleepsBeforeAttempts == \A p \in Proc : call[p].idle = 0

\* Whatever the API, the token endpoint and the store answer, a process ends.
ProcessEnds == \A p \in Proc : auth[p].pc # "off" ~> auth[p].pc = "off"
=============================================================================
