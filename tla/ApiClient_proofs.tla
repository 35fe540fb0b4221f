-------------------------- MODULE ApiClient_proofs --------------------------
(***************************************************************************)
(* Theorems about ApiClient: what is proved of token() alone holds under   *)
(* get_json, a call of get_json sends no more requests than allowed, and a *)
(* process asks for no more pages and sleeps no longer than allowed, for   *)
(* any number of processes, pages, retries and headers.                    *)
(***************************************************************************)
EXTENDS ApiClient, TokenAuth_proofs

\* The fields of a call that EXCEPT changes exist.
Shaped(c) ==
    c = [attempt |-> c.attempt, reauthed |-> c.reauthed, sent |-> c.sent,
         pages |-> c.pages, slept |-> c.slept, idle |-> c.idle]

\* A call that goes on has an attempt left, and every request it has sent used
\* one up, but for the one that was answered with the first 401.
Counted(c) ==
    /\ c.attempt < Attempts
    /\ c.sent <= c.attempt + (IF c.reauthed THEN 1 ELSE 0)

CallInv ==
    /\ call = [p \in Proc |-> call[p]]
    /\ \A p \in Proc : /\ Shaped(call[p])
                       /\ call[p].attempt \in Nat /\ call[p].sent \in Nat
                       /\ call[p].reauthed \in BOOLEAN
    /\ \A p \in Proc : auth[p].pc # "off" => Counted(call[p])
    /\ CallBounded

-----------------------------------------------------------------------------
(***************************************************************************)
(* A client is an authenticator that is used in a certain way.             *)
(***************************************************************************)
LEMMA ClientStepIsStep == [ClientNext]_clientVars => [Next]_vars
<1> SUFFICES ASSUME [ClientNext]_clientVars PROVE [Next]_vars
  OBVIOUS
<1>1. CASE UNCHANGED clientVars
  BY <1>1 DEF clientVars
<1>2. CASE Environment
  BY <1>2 DEF Next
<1>3. ASSUME NEW p \in Proc, StartProcess(p) \/ Step(p) \/ KillProcess(p)
      PROVE  TokenCall(p) \/ Caller(p)
  BY <1>3 DEF StartProcess, Step, KillProcess, AskToken, Answered,
              Reauthenticate, Refused, Retry, GiveUp, StopProcess, Caller
<1> QED
  BY <1>1, <1>2, <1>3 DEF ClientNext, Next

\* The composed program implements token() as TokenAuth specifies it: get_json
\* uses it in no way that TokenAuth does not allow (client.py, auth.py).
THEOREM ClientImplementsAuth == ClientSpec => Spec
<1>1. ClientInit => Init
  BY DEF ClientInit
<1> QED
  BY <1>1, ClientStepIsStep, PTL DEF ClientSpec, Spec

\* Under get_json, too, a bearer that was answered with a 401 is never sent a
\* second time by the process (client.py:79, auth.py:53).
THEOREM ClientDropsRejected == ClientSpec => []RejectedNotReused
BY ClientImplementsAuth, RejectedStaysUnused, PTL

-----------------------------------------------------------------------------
LEMMA AttemptsIs == Attempts \in Nat /\ Attempts >= 1
BY MaxRetriesAssumption DEF Attempts

\* What CallInv asks of a call, in a process that is running or not.
Fits(c, running) ==
    /\ Shaped(c)
    /\ c.attempt \in Nat /\ c.sent \in Nat /\ c.reauthed \in BOOLEAN
    /\ running => Counted(c)
    /\ c.sent <= Attempts + 1

LEMMA NewCallIs ==
    ASSUME NEW pages, NEW slept
    PROVE  Fits(NewCall(pages, slept), TRUE)
<1> DEFINE c == NewCall(pages, slept)
<1>1. Shaped(c) /\ c.attempt = 0 /\ c.sent = 0 /\ c.reauthed = FALSE
  BY DEF NewCall, Shaped
<1> HIDE DEF c
<1>2. Counted(c) /\ c.sent <= Attempts + 1
  BY <1>1, AttemptsIs DEF Counted
<1>3. c.reauthed \in BOOLEAN
  BY <1>1, Zenon
<1>4. Fits(c, TRUE)
  BY <1>1, <1>2, <1>3 DEF Fits
<1> QED
  BY <1>4 DEF c

\* The changes that a call goes through.
LEMMA OneChange ==
    ASSUME NEW c, Shaped(c), NEW v
    PROVE  /\ [c EXCEPT !.attempt = v] =
                [attempt |-> v, reauthed |-> c.reauthed, sent |-> c.sent,
                 pages |-> c.pages, slept |-> c.slept, idle |-> c.idle]
           /\ [c EXCEPT !.reauthed = v] =
                [attempt |-> c.attempt, reauthed |-> v, sent |-> c.sent,
                 pages |-> c.pages, slept |-> c.slept, idle |-> c.idle]
           /\ [c EXCEPT !.slept = v] =
                [attempt |-> c.attempt, reauthed |-> c.reauthed, sent |-> c.sent,
                 pages |-> c.pages, slept |-> v, idle |-> c.idle]
           /\ [c EXCEPT !.idle = v] =
                [attempt |-> c.attempt, reauthed |-> c.reauthed, sent |-> c.sent,
                 pages |-> c.pages, slept |-> c.slept, idle |-> v]
<1>1. DOMAIN c = {"attempt", "reauthed", "sent", "pages", "slept", "idle"}
  BY DEF Shaped
<1>2. c = [f \in DOMAIN c |-> c[f]]
  BY DEF Shaped
<1> QED
  BY <1>1, <1>2

LEMMA ReauthedIs ==
    ASSUME NEW c, Shaped(c), NEW b
    PROVE  LET d == [c EXCEPT !.reauthed = b] IN
           /\ Shaped(d) /\ d.attempt = c.attempt /\ d.sent = c.sent
           /\ d.reauthed = b
BY OneChange DEF Shaped

\* One call is replaced by one that fits.
LEMMA CallStep ==
    ASSUME CallInv, auth \in [Proc -> AuthState], NEW p \in Proc, NEW a, NEW c,
           Become(p, a), Calls(p, c), Fits(c, a.pc # "off")
    PROVE  CallInv'
<1>1. /\ auth'[p] = a /\ \A q \in Proc \ {p} : auth'[q] = auth[q]
  BY DEF Become
<1>2. /\ call' = [q \in Proc |-> call'[q]]
      /\ call'[p] = c /\ \A q \in Proc \ {p} : call'[q] = call[q]
  BY DEF Calls, CallInv
<1>3. ASSUME NEW q \in Proc
      PROVE  /\ Shaped(call'[q])
             /\ call'[q].attempt \in Nat /\ call'[q].sent \in Nat
             /\ call'[q].reauthed \in BOOLEAN
             /\ auth'[q].pc # "off" => Counted(call'[q])
             /\ call'[q].sent <= Attempts + 1
  <2>1. CASE q = p
    BY <1>1, <1>2, <2>1 DEF Fits
  <2>2. CASE q # p
    BY <1>1, <1>2, <2>2 DEF CallInv, CallBounded
  <2> QED
    BY <2>1, <2>2
<1>4. Attempts' = Attempts
  BY DEF Attempts
<1> QED
  BY <1>2, <1>3, <1>4 DEF CallInv, CallBounded, Shaped, Counted

\* The same, when no call changes and the process was running.
LEMMA AuthStep ==
    ASSUME CallInv, auth \in [Proc -> AuthState], NEW p \in Proc, NEW a,
           Become(p, a), call' = call, auth[p].pc # "off"
    PROVE  CallInv'
<1>1. \A q \in Proc \ {p} : auth'[q] = auth[q]
  BY DEF Become
<1>2. \A q \in Proc : auth'[q].pc # "off" => Counted(call[q])
  BY <1>1 DEF CallInv
<1> QED
  BY <1>2 DEF CallInv, CallBounded, Shaped, Counted

LEMMA TokenCallBecomes ==
    ASSUME NEW p \in Proc, TokenCall(p)
    PROVE  auth[p].pc # "off" /\ \E a : Become(p, a)
<1>1. \E a : Become(p, a)
  BY StepIsLocal
<1>2. auth[p].pc # "off"
  BY DEF TokenCall, FromMemory, NotInMemory, FromStore, NeedsFresh,
         LoadRefreshToken, Granted, InvalidGrant, Unreachable, AnswerLost,
         SaveRefreshToken, SaveToken, StoreFails
<1> QED
  BY <1>1, <1>2

LEMMA SentIs ==
    ASSUME CallInv, NEW p \in Proc
    PROVE  /\ Shaped(Sent(p))
           /\ Sent(p).sent = call[p].sent + 1
           /\ Sent(p).attempt = call[p].attempt
           /\ Sent(p).reauthed = call[p].reauthed
BY DEF CallInv, Shaped, Sent

LEMMA StepCounts ==
    ASSUME CallInv, IInv, NEW p \in Proc, Step(p)
    PROVE  CallInv'
<1>1. auth \in [Proc -> AuthState]
  BY DEF IInv, TypeOK
<1>2. Off.pc = "off"
  BY OffIs
<1>3. /\ call[p].attempt \in Nat /\ call[p].sent \in Nat
      /\ call[p].reauthed \in BOOLEAN
      /\ auth[p].pc # "off" => Counted(call[p])
      /\ call[p].sent <= Attempts + 1
  BY DEF CallInv, CallBounded
<1>4. CASE AskToken(p)
  <2>1. call' = call
    BY <1>4 DEF AskToken
  <2>2. auth[p].pc # "off" /\ \E a : Become(p, a)
    BY <1>4, TokenCallBecomes DEF AskToken
  <2> QED
    BY <1>1, <2>1, <2>2, AuthStep
<1>5. CASE Answered(p)
  <2>1. PICK a : Become(p, a)
    BY <1>5 DEF Answered, Used
  <2>2. Calls(p, NewCall(call[p].pages + 1, call[p].slept))
    BY <1>5 DEF Answered
  <2> QED
    <3>1. Fits(NewCall(call[p].pages + 1, call[p].slept), a.pc # "off")
      BY NewCallIs DEF Fits
    <3> QED
      BY <1>1, <2>1, <2>2, <3>1, CallStep
<1>6. CASE Reauthenticate(p)
  <2> DEFINE c == [Sent(p) EXCEPT !.reauthed = TRUE]
  <2>1. PICK a : Become(p, a)
    BY <1>6 DEF Reauthenticate, Invalidated
  <2>2. Calls(p, c) /\ ~call[p].reauthed /\ auth[p].pc # "off"
    BY <1>6 DEF Reauthenticate, Invalidated
  <2>3. /\ Shaped(c) /\ c.attempt = call[p].attempt
        /\ c.sent = call[p].sent + 1 /\ c.reauthed = TRUE
    BY SentIs, ReauthedIs
  <2>4. Counted(c) /\ c.sent <= Attempts + 1
    BY <1>3, <2>2, <2>3, AttemptsIs DEF Counted
  <2> HIDE DEF c
  <2>5. c.reauthed \in BOOLEAN
    BY <2>3, Zenon
  <2>6. Fits(c, a.pc # "off")
    BY <1>3, <2>3, <2>4, <2>5 DEF Fits
  <2> QED
    BY <1>1, <2>1, <2>2, <2>6, CallStep
<1>7. CASE Refused(p)
  <2>1. Become(p, Off) /\ Calls(p, Sent(p)) /\ auth[p].pc # "off"
    BY <1>7 DEF Refused, Exit
  <2>2. Sent(p).sent <= Attempts + 1
    BY <1>3, <2>1, SentIs, AttemptsIs DEF Counted
  <2>3. Fits(Sent(p), Off.pc # "off")
    BY <1>2, <1>3, <2>2, SentIs DEF Fits
  <2> QED
    BY <1>1, <2>1, <2>3, CallStep
<1>8. CASE Retry(p)
  <2>1. PICK retry_after \in RetryAfters :
          Calls(p, [Sent(p) EXCEPT
                      !.attempt = @ + 1,
                      !.slept = @ + Delay(call[p].attempt, retry_after)])
    BY <1>8 DEF Retry
  <2> DEFINE c == [Sent(p) EXCEPT
                     !.attempt = @ + 1,
                     !.slept = @ + Delay(call[p].attempt, retry_after)]
  <2>2. PICK a : Become(p, a)
    BY <1>8 DEF Retry, Used
  <2>3. auth[p].pc # "off" /\ call[p].attempt + 1 < Attempts
    BY <1>8 DEF Retry, Used
  <2>4. /\ Shaped(c) /\ c.attempt = call[p].attempt + 1
        /\ c.sent = call[p].sent + 1 /\ c.reauthed = call[p].reauthed
    <3> DEFINE c1 == [Sent(p) EXCEPT !.attempt = @ + 1]
    <3>1. /\ Shaped(c1) /\ c1.attempt = call[p].attempt + 1
          /\ c1.sent = call[p].sent + 1 /\ c1.reauthed = call[p].reauthed
      BY SentIs, OneChange DEF Shaped
    <3>2. c = [c1 EXCEPT !.slept = @ + Delay(call[p].attempt, retry_after)]
      OBVIOUS
    <3> HIDE DEF c1, c
    <3> QED
      BY <3>1, <3>2, OneChange DEF Shaped
  <2>5. Counted(c) /\ c.sent <= Attempts + 1
    BY <1>3, <2>3, <2>4, AttemptsIs DEF Counted
  <2> HIDE DEF c
  <2>6. Calls(p, c)
    BY <2>1 DEF c
  <2>7. Fits(c, a.pc # "off")
    BY <1>3, <2>4, <2>5 DEF Fits
  <2> QED
    BY <1>1, <2>2, <2>6, <2>7, CallStep
<1>9. CASE GiveUp(p)
  <2>1. PICK delay : Calls(p, [Sent(p) EXCEPT !.attempt = @ + 1,
                                              !.slept = @ + delay,
                                              !.idle = @ + delay])
    BY <1>9 DEF GiveUp
  <2> DEFINE c == [Sent(p) EXCEPT !.attempt = @ + 1, !.slept = @ + delay,
                                  !.idle = @ + delay]
  <2>2. Become(p, Off) /\ auth[p].pc # "off"
    BY <1>9 DEF GiveUp, Exit
  <2>3. /\ Shaped(c) /\ c.attempt = call[p].attempt + 1
        /\ c.sent = call[p].sent + 1 /\ c.reauthed = call[p].reauthed
    <3> DEFINE c1 == [Sent(p) EXCEPT !.attempt = @ + 1]
           c2 == [c1 EXCEPT !.slept = @ + delay]
    <3>1. /\ Shaped(c1) /\ c1.attempt = call[p].attempt + 1
          /\ c1.sent = call[p].sent + 1 /\ c1.reauthed = call[p].reauthed
      BY SentIs, OneChange DEF Shaped
    <3>2. c2 = [c1 EXCEPT !.slept = @ + delay]
      OBVIOUS
    <3> HIDE DEF c1, c2
    <3>3. /\ Shaped(c2) /\ c2.attempt = call[p].attempt + 1
          /\ c2.sent = call[p].sent + 1 /\ c2.reauthed = call[p].reauthed
      BY <3>1, <3>2, OneChange DEF Shaped
    <3>4. c = [c2 EXCEPT !.idle = @ + delay]
      BY DEF c1, c2
    <3> HIDE DEF c
    <3> QED
      BY <3>3, <3>4, OneChange DEF Shaped
  <2>4. c.sent <= Attempts + 1
    BY <1>3, <2>2, <2>3, AttemptsIs DEF Counted
  <2> HIDE DEF c
  <2>5. Calls(p, c)
    BY <2>1 DEF c
  <2>6. Fits(c, Off.pc # "off")
    BY <1>2, <1>3, <2>3, <2>4 DEF Fits
  <2> QED
    BY <1>1, <2>2, <2>5, <2>6, CallStep
<1>10. CASE StopProcess(p)
  <2>1. Become(p, Off) /\ call' = call /\ auth[p].pc # "off"
    BY <1>10 DEF StopProcess, Exit
  <2> QED
    BY <1>1, <2>1, AuthStep
<1> QED
  BY <1>4, <1>5, <1>6, <1>7, <1>8, <1>9, <1>10 DEF Step

LEMMA ClientCounts == CallInv /\ IInv /\ [ClientNext]_clientVars => CallInv'
<1> SUFFICES ASSUME CallInv, IInv, [ClientNext]_clientVars PROVE CallInv'
  OBVIOUS
<1>1. auth \in [Proc -> AuthState]
  BY DEF IInv, TypeOK
<1>2. CASE auth' = auth /\ call' = call
  BY <1>2 DEF CallInv, CallBounded, Shaped, Counted, Attempts
<1>3. CASE UNCHANGED clientVars
  BY <1>2, <1>3 DEF clientVars, vars
<1>4. CASE Environment /\ UNCHANGED call
  BY <1>2, <1>4 DEF Environment, Tick, Revoke, ExpireRefreshToken, Login, LoseVolume
<1>5. ASSUME NEW p \in Proc, StartProcess(p)
      PROVE  CallInv'
  <2>1. Become(p, NewAuth(env)) /\ Calls(p, NewCall(0, 0))
    BY <1>5 DEF StartProcess, Begin
  <2>2. Fits(NewCall(0, 0), NewAuth(env).pc # "off")
    BY NewCallIs DEF Fits
  <2> QED
    BY <1>1, <2>1, <2>2, CallStep
<1>6. ASSUME NEW p \in Proc, Step(p)
      PROVE  CallInv'
  BY <1>6, StepCounts
<1>7. ASSUME NEW p \in Proc, KillProcess(p)
      PROVE  CallInv'
  BY <1>1, <1>7, AuthStep DEF KillProcess, Crash
<1> QED
  BY <1>3, <1>4, <1>5, <1>6, <1>7 DEF ClientNext

LEMMA ClientStarts == ClientInit => CallInv
<1> SUFFICES ASSUME ClientInit PROVE CallInv
  OBVIOUS
<1>1. call = [p \in Proc |-> NewCall(0, 0)]
  BY DEF ClientInit
<1> QED
  BY <1>1, NewCallIs DEF CallInv, CallBounded, Fits

\* Refused requests, transport errors and revoked tokens together never make a
\* call of get_json send more than DAWATCH_MAX_RETRIES requests and one
\* (client.py:60-94).
THEOREM CallsAreBounded == ClientSpec => []CallBounded
<1>1. ClientSpec => []IInv
  BY ClientImplementsAuth, Invariant, PTL
<1>2. CallInv => CallBounded
  BY DEF CallInv
<1> QED
  BY <1>1, <1>2, ClientStarts, ClientCounts, PTL DEF ClientSpec

-----------------------------------------------------------------------------
(***************************************************************************)
(* How long a process sleeps, and how many pages it asks for.              *)
(***************************************************************************)
\* Arithmetic the provers do not have: a power of two is a natural number.
PowersAreNatural == \A n \in 0..(Attempts - 1) : 2^n \in Nat

\* DAWATCH_MAX_RETRIES is so small that no backoff without a header exceeds the
\* clamp on the headers: at most six for the 60 seconds of the code.
BackoffClamped == \A n \in 0..(Attempts - 1) : 2^n \in 0..MaxRetryAfter

\* A process that asks for a token has a page left to fetch with it.
OnPage(c, pc) ==
    /\ pc \notin {"off", "ready"} => c.pages < MaxPages
    /\ c.pages = MaxPages => c.attempt = 0
    /\ c.attempt <= Attempts

PageInv ==
    /\ call \in [Proc -> Call]
    /\ \A p \in Proc : OnPage(call[p], auth[p].pc)

\* The clamp, once for each attempt of the pages that are done and of this one.
Slept(c) == c.slept <= (c.pages * Attempts + c.attempt) * MaxRetryAfter

SleepInv == \A p \in Proc : Slept(call[p])

LEMMA DelayIs ==
    ASSUME NEW n \in Nat, n < Attempts, NEW retry_after \in RetryAfters
    PROVE  /\ PowersAreNatural => Delay(n, retry_after) \in Nat
           /\ BackoffClamped => Delay(n, retry_after) \in 0..MaxRetryAfter
<1>1. n \in 0..(Attempts - 1)
  BY AttemptsIs
<1>2. retry_after \in Int /\ MaxRetryAfter \in Nat
  BY RetryAftersAssumption, MaxRetryAfterAssumption
<1>3. PowersAreNatural => 2^n \in Nat
  BY <1>1 DEF PowersAreNatural
<1>4. BackoffClamped => 2^n \in 0..MaxRetryAfter
  BY <1>1 DEF BackoffClamped
<1> DEFINE power == 2^n
<1>5. /\ PowersAreNatural => power \in Nat
      /\ BackoffClamped => power \in 0..MaxRetryAfter
  BY <1>3, <1>4
<1>6. Delay(n, retry_after) =
        IF retry_after = NoHeader THEN power
        ELSE IF retry_after < 0 THEN 0
        ELSE IF retry_after > MaxRetryAfter THEN MaxRetryAfter
        ELSE retry_after
  BY DEF Delay
<1> HIDE DEF power
<1> QED
  BY <1>2, <1>5, <1>6

LEMMA BackoffIsNatural == BackoffClamped => PowersAreNatural
BY MaxRetryAfterAssumption DEF BackoffClamped, PowersAreNatural

\* The fields of a call.
Fields(c, attempt, sent, pages, slept, idle) ==
    /\ Shaped(c)
    /\ c.reauthed \in BOOLEAN
    /\ c.attempt = attempt
    /\ c.sent = sent
    /\ c.pages = pages
    /\ c.slept = slept
    /\ c.idle = idle

LEMMA CallIs ==
    ASSUME NEW attempt \in Nat, NEW sent \in Nat, NEW pages \in 0..MaxPages,
           NEW slept \in Nat, NEW idle \in Nat, NEW c,
           Fields(c, attempt, sent, pages, slept, idle)
    PROVE  c \in Call
BY DEF Fields, Shaped, Call

LEMMA NewCallFields ==
    ASSUME NEW pages, NEW slept
    PROVE  Fields(NewCall(pages, slept), 0, 0, pages, slept, 0)
<1> DEFINE c == NewCall(pages, slept)
<1>1. /\ Shaped(c) /\ c.reauthed = FALSE /\ c.attempt = 0 /\ c.sent = 0
      /\ c.pages = pages /\ c.slept = slept /\ c.idle = 0
  BY DEF NewCall, Shaped
<1> HIDE DEF c
<1>2. c.reauthed \in BOOLEAN
  BY <1>1, Zenon
<1>3. Fields(c, 0, 0, pages, slept, 0)
  BY <1>1, <1>2 DEF Fields
<1> QED
  BY <1>3 DEF c

\* Field by field, the changes that a call goes through.
LEMMA FieldChanges ==
    ASSUME NEW c, NEW attempt, NEW sent, NEW pages, NEW slept, NEW idle,
           Fields(c, attempt, sent, pages, slept, idle), NEW v
    PROVE  /\ Fields([c EXCEPT !.attempt = v], v, sent, pages, slept, idle)
           /\ Fields([c EXCEPT !.slept = v], attempt, sent, pages, v, idle)
           /\ Fields([c EXCEPT !.idle = v], attempt, sent, pages, slept, v)
           /\ Fields([c EXCEPT !.sent = v], attempt, v, pages, slept, idle)
           /\ v \in BOOLEAN =>
                Fields([c EXCEPT !.reauthed = v], attempt, sent, pages, slept, idle)
<1>1. Shaped(c) /\ c.reauthed \in BOOLEAN
  BY DEF Fields
<1>2. [c EXCEPT !.sent = v] =
        [attempt |-> c.attempt, reauthed |-> c.reauthed, sent |-> v,
         pages |-> c.pages, slept |-> c.slept, idle |-> c.idle]
  <2>1. DOMAIN c = {"attempt", "reauthed", "sent", "pages", "slept", "idle"}
    BY <1>1 DEF Shaped
  <2>2. c = [f \in DOMAIN c |-> c[f]]
    BY <1>1 DEF Shaped
  <2> QED
    BY <2>1, <2>2
<1>3. ASSUME NEW d, NEW b,
             d = [attempt |-> d.attempt, reauthed |-> b, sent |-> d.sent,
                  pages |-> d.pages, slept |-> d.slept, idle |-> d.idle],
             b \in BOOLEAN
      PROVE  Shaped(d) /\ d.reauthed \in BOOLEAN
  <2>1. d.reauthed = b /\ Shaped(d)
    BY <1>3 DEF Shaped
  <2> QED
    BY <1>3, <2>1, Zenon
<1>4. Fields([c EXCEPT !.attempt = v], v, sent, pages, slept, idle)
  <2> DEFINE d == [c EXCEPT !.attempt = v]
  <2>1. d = [attempt |-> v, reauthed |-> c.reauthed, sent |-> c.sent,
             pages |-> c.pages, slept |-> c.slept, idle |-> c.idle]
    BY <1>1, OneChange
  <2> HIDE DEF d
  <2>2. /\ d.attempt = v /\ d.sent = c.sent /\ d.pages = c.pages
        /\ d.slept = c.slept /\ d.idle = c.idle
    BY <2>1
  <2>3. Shaped(d) /\ d.reauthed \in BOOLEAN
    BY <1>1, <1>3, <2>1, <2>2
  <2>4. Fields(d, v, sent, pages, slept, idle)
    BY <2>2, <2>3 DEF Fields
  <2> QED
    BY <2>4 DEF d
<1>5. Fields([c EXCEPT !.slept = v], attempt, sent, pages, v, idle)
  <2> DEFINE d == [c EXCEPT !.slept = v]
  <2>1. d = [attempt |-> c.attempt, reauthed |-> c.reauthed, sent |-> c.sent,
             pages |-> c.pages, slept |-> v, idle |-> c.idle]
    BY <1>1, OneChange
  <2> HIDE DEF d
  <2>2. /\ d.attempt = c.attempt /\ d.sent = c.sent /\ d.pages = c.pages
        /\ d.slept = v /\ d.idle = c.idle
    BY <2>1
  <2>3. Shaped(d) /\ d.reauthed \in BOOLEAN
    BY <1>1, <1>3, <2>1, <2>2
  <2>4. Fields(d, attempt, sent, pages, v, idle)
    BY <2>2, <2>3 DEF Fields
  <2> QED
    BY <2>4 DEF d
<1>6. Fields([c EXCEPT !.idle = v], attempt, sent, pages, slept, v)
  <2> DEFINE d == [c EXCEPT !.idle = v]
  <2>1. d = [attempt |-> c.attempt, reauthed |-> c.reauthed, sent |-> c.sent,
             pages |-> c.pages, slept |-> c.slept, idle |-> v]
    BY <1>1, OneChange
  <2> HIDE DEF d
  <2>2. /\ d.attempt = c.attempt /\ d.sent = c.sent /\ d.pages = c.pages
        /\ d.slept = c.slept /\ d.idle = v
    BY <2>1
  <2>3. Shaped(d) /\ d.reauthed \in BOOLEAN
    BY <1>1, <1>3, <2>1, <2>2
  <2>4. Fields(d, attempt, sent, pages, slept, v)
    BY <2>2, <2>3 DEF Fields
  <2> QED
    BY <2>4 DEF d
<1>7. Fields([c EXCEPT !.sent = v], attempt, v, pages, slept, idle)
  <2> DEFINE d == [c EXCEPT !.sent = v]
  <2>1. d = [attempt |-> c.attempt, reauthed |-> c.reauthed, sent |-> v,
             pages |-> c.pages, slept |-> c.slept, idle |-> c.idle]
    BY <1>2
  <2> HIDE DEF d
  <2>2. /\ d.attempt = c.attempt /\ d.sent = v /\ d.pages = c.pages
        /\ d.slept = c.slept /\ d.idle = c.idle
    BY <2>1
  <2>3. Shaped(d) /\ d.reauthed \in BOOLEAN
    BY <1>1, <1>3, <2>1, <2>2
  <2>4. Fields(d, attempt, v, pages, slept, idle)
    BY <2>2, <2>3 DEF Fields
  <2> QED
    BY <2>4 DEF d
<1>8. ASSUME v \in BOOLEAN
      PROVE  Fields([c EXCEPT !.reauthed = v], attempt, sent, pages, slept, idle)
  <2> DEFINE d == [c EXCEPT !.reauthed = v]
  <2>1. d = [attempt |-> c.attempt, reauthed |-> v, sent |-> c.sent,
             pages |-> c.pages, slept |-> c.slept, idle |-> c.idle]
    BY <1>1, OneChange
  <2> HIDE DEF d
  <2>2. /\ d.attempt = c.attempt /\ d.sent = c.sent /\ d.pages = c.pages
        /\ d.slept = c.slept /\ d.idle = c.idle
    BY <2>1
  <2>3. Shaped(d) /\ d.reauthed \in BOOLEAN
    BY <1>3, <1>8, <2>1, <2>2
  <2>4. Fields(d, attempt, sent, pages, slept, idle)
    BY <2>2, <2>3 DEF Fields
  <2> QED
    BY <2>4 DEF d
<1> QED
  BY <1>4, <1>5, <1>6, <1>7, <1>8

\* What a step of a process does to its call: nothing, the next call, one request
\* more, or one request and one attempt more after a delay.
StaysIn(p) ==
    /\ call'[p] = call[p]
    /\ auth[p].pc # "off"
    /\ auth[p].pc = "ready" => call[p].pages < MaxPages \/ auth'[p].pc = "off"

NextPage(p) ==
    /\ auth[p].pc = "granted"
    /\ auth'[p].pc = "ready"
    /\ Fields(call'[p], 0, 0, call[p].pages + 1, call[p].slept, 0)

OneMore(p) ==
    /\ auth[p].pc = "granted"
    /\ auth'[p].pc \in {"ready", "off"}
    /\ Fields(call'[p], call[p].attempt, call[p].sent + 1, call[p].pages,
              call[p].slept, call[p].idle)

Waits(p) ==
    /\ auth[p].pc = "granted"
    /\ auth'[p].pc \in {"ready", "off"}
    /\ call[p].attempt < Attempts
    /\ \E retry_after \in RetryAfters :
         LET delay == Delay(call[p].attempt, retry_after) IN
         \E idle \in {call[p].idle, call[p].idle + delay} :
            Fields(call'[p], call[p].attempt + 1, call[p].sent + 1, call[p].pages,
                   call[p].slept + delay, idle)

LEMMA StepOfCall ==
    ASSUME CallInv, IInv, NEW p \in Proc, Step(p)
    PROVE  /\ call' = [q \in Proc |-> call'[q]]
           /\ \A q \in Proc \ {p} : auth'[q] = auth[q] /\ call'[q] = call[q]
           /\ StaysIn(p) \/ NextPage(p) \/ OneMore(p) \/ Waits(p)
<1>1. auth \in [Proc -> AuthState] /\ env \in Nat /\ clock \in Nat
  BY BoundsAssumption DEF IInv, TypeOK
<1>2. call = [q \in Proc |-> call[q]]
  BY DEF CallInv
<1>3. ASSUME NEW c, Calls(p, c)
      PROVE  /\ call' = [q \in Proc |-> call'[q]]
             /\ call'[p] = c /\ \A q \in Proc \ {p} : call'[q] = call[q]
  BY <1>2, <1>3 DEF Calls
<1>4. ASSUME NEW a, Become(p, a)
      PROVE  \A q \in Proc \ {p} : auth'[q] = auth[q]
  BY <1>4 DEF Become
<1> DEFINE c == call[p]
<1>5. Fields(c, c.attempt, c.sent, c.pages, c.slept, c.idle)
  BY DEF CallInv, Fields
<1>6. Fields(Sent(p), c.attempt, c.sent + 1, c.pages, c.slept, c.idle)
  <2> DEFINE s == Sent(p)
             n == c.sent + 1
  <2>1. s = [c EXCEPT !.sent = n]
    BY DEF Sent
  <2> HIDE DEF c, s, n
  <2>2. Fields(s, c.attempt, n, c.pages, c.slept, c.idle)
    BY <1>5, <2>1, FieldChanges
  <2> QED
    BY <2>2 DEF s, n
<1>7. ASSUME NEW delay
      PROVE  /\ Fields([Sent(p) EXCEPT !.attempt = @ + 1, !.slept = @ + delay],
                       c.attempt + 1, c.sent + 1, c.pages, c.slept + delay, c.idle)
             /\ Fields([Sent(p) EXCEPT !.attempt = @ + 1, !.slept = @ + delay,
                                       !.idle = @ + delay],
                       c.attempt + 1, c.sent + 1, c.pages, c.slept + delay,
                       c.idle + delay)
  <2> DEFINE s == Sent(p)
             d1 == [s EXCEPT !.attempt = @ + 1]
             d2 == [d1 EXCEPT !.slept = @ + delay]
             d3 == [d2 EXCEPT !.idle = @ + delay]
  <2>1. /\ [Sent(p) EXCEPT !.attempt = @ + 1, !.slept = @ + delay] = d2
        /\ [Sent(p) EXCEPT !.attempt = @ + 1, !.slept = @ + delay,
                           !.idle = @ + delay] = d3
    OBVIOUS
  <2>2. s.attempt = c.attempt
    BY <1>6 DEF Fields
  <2>3. d1 = [s EXCEPT !.attempt = c.attempt + 1]
    BY <2>2
  <2>4. Fields(s, c.attempt, c.sent + 1, c.pages, c.slept, c.idle)
    BY <1>6
  <2> HIDE DEF c, s, d1
  <2>5. Fields(d1, c.attempt + 1, c.sent + 1, c.pages, c.slept, c.idle)
    BY <2>3, <2>4, FieldChanges
  <2>6. d1.slept = c.slept
    BY <2>5 DEF Fields
  <2>7. d2 = [d1 EXCEPT !.slept = c.slept + delay]
    BY <2>6
  <2> HIDE DEF d2
  <2>8. Fields(d2, c.attempt + 1, c.sent + 1, c.pages, c.slept + delay, c.idle)
    BY <2>5, <2>7, FieldChanges
  <2>9. d2.idle = c.idle
    BY <2>8 DEF Fields
  <2>10. d3 = [d2 EXCEPT !.idle = c.idle + delay]
    BY <2>9
  <2> HIDE DEF d3
  <2>11. Fields(d3, c.attempt + 1, c.sent + 1, c.pages, c.slept + delay,
                c.idle + delay)
    BY <2>8, <2>10, FieldChanges
  <2> QED
    BY <2>1, <2>8, <2>11
<1>8. CASE AskToken(p)
  <2>1. /\ call' = call /\ TokenCall(p)
        /\ auth[p].pc = "ready" => call[p].pages < MaxPages
    BY <1>8 DEF AskToken
  <2>2. auth[p].pc # "off" /\ \E a : Become(p, a)
    BY <2>1, TokenCallBecomes
  <2> QED
    BY <1>2, <1>4, <2>1, <2>2 DEF StaysIn
<1>9. CASE Answered(p)
  <2>1. /\ auth[p].pc = "granted" /\ \E a : Become(p, a)
        /\ Calls(p, NewCall(call[p].pages + 1, call[p].slept))
    BY <1>9 DEF Answered, Used
  <2>2. auth'[p].pc = "ready"
    BY <1>1, <1>9, LeavesAt DEF Answered
  <2>3. NextPage(p)
    BY <1>3, <2>1, <2>2, NewCallFields DEF NextPage
  <2> QED
    BY <1>3, <1>4, <2>1, <2>3
<1>10. CASE Reauthenticate(p)
  <2>1. /\ auth[p].pc = "granted" /\ \E a : Become(p, a)
        /\ Calls(p, [Sent(p) EXCEPT !.reauthed = TRUE])
    BY <1>10 DEF Reauthenticate, Invalidated
  <2>2. auth'[p].pc = "ready"
    BY <1>1, <1>10, LeavesAt DEF Reauthenticate
  <2>3. Fields([Sent(p) EXCEPT !.reauthed = TRUE],
               c.attempt, c.sent + 1, c.pages, c.slept, c.idle)
    BY <1>6, FieldChanges
  <2>4. OneMore(p)
    BY <1>3, <2>1, <2>2, <2>3 DEF OneMore
  <2> QED
    BY <1>3, <1>4, <2>1, <2>4
<1>11. CASE Refused(p)
  <2>1. auth[p].pc = "granted" /\ (\E a : Become(p, a)) /\ Calls(p, Sent(p))
    BY <1>11 DEF Refused, Exit
  <2>2. auth'[p].pc = "off"
    BY <1>1, <1>11, LeavesAt DEF Refused
  <2>3. OneMore(p)
    BY <1>3, <1>6, <2>1, <2>2 DEF OneMore
  <2> QED
    BY <1>3, <1>4, <2>1, <2>3
<1>12. ASSUME auth[p].pc = "granted"
       PROVE  call[p].attempt < Attempts
  BY <1>12 DEF CallInv, Counted
<1>13. CASE Retry(p)
  <2>1. auth[p].pc = "granted" /\ \E a : Become(p, a)
    BY <1>13 DEF Retry, Used
  <2>2. PICK retry_after \in RetryAfters :
          Calls(p, [Sent(p) EXCEPT
                      !.attempt = @ + 1,
                      !.slept = @ + Delay(call[p].attempt, retry_after)])
    BY <1>13 DEF Retry
  <2> DEFINE delay == Delay(call[p].attempt, retry_after)
  <2>3. auth'[p].pc = "ready"
    BY <1>1, <1>13, LeavesAt DEF Retry
  <2>4. Fields(call'[p], c.attempt + 1, c.sent + 1, c.pages, c.slept + delay, c.idle)
    BY <1>3, <1>7, <2>2
  <2>5. Waits(p)
    BY <1>12, <2>1, <2>3, <2>4 DEF Waits
  <2> QED
    BY <1>3, <1>4, <2>1, <2>2, <2>5
<1>14. CASE GiveUp(p)
  <2>1. auth[p].pc = "granted" /\ \E a : Become(p, a)
    BY <1>14 DEF GiveUp, Exit
  <2>2. PICK retry_after \in RetryAfters :
          Calls(p, [Sent(p) EXCEPT
                      !.attempt = @ + 1,
                      !.slept = @ + Delay(call[p].attempt, retry_after),
                      !.idle = @ + Delay(call[p].attempt, retry_after)])
    BY <1>14 DEF GiveUp
  <2> DEFINE delay == Delay(call[p].attempt, retry_after)
  <2>3. auth'[p].pc = "off"
    BY <1>1, <1>14, LeavesAt DEF GiveUp
  <2>4. Fields(call'[p], c.attempt + 1, c.sent + 1, c.pages, c.slept + delay,
               c.idle + delay)
    BY <1>3, <1>7, <2>2
  <2>5. Waits(p)
    BY <1>12, <2>1, <2>3, <2>4 DEF Waits
  <2> QED
    BY <1>3, <1>4, <2>1, <2>2, <2>5
<1>15. CASE StopProcess(p)
  <2>1. call' = call /\ auth[p].pc # "off" /\ \E a : Become(p, a)
    BY <1>15 DEF StopProcess, Exit
  <2>2. auth'[p].pc = "off"
    BY <1>1, <1>15, LeavesAt DEF StopProcess
  <2> QED
    BY <1>2, <1>4, <2>1, <2>2 DEF StaysIn
<1> QED
  BY <1>8, <1>9, <1>10, <1>11, <1>13, <1>14, <1>15 DEF Step

\* The pages and the sleep of a process, after one of these changes.
LEMMA ChangeKeeps ==
    ASSUME CallInv, IInv, NEW p \in Proc, call[p] \in Call,
           OnPage(call[p], auth[p].pc),
           StaysIn(p) \/ NextPage(p) \/ OneMore(p) \/ Waits(p)
    PROVE  /\ PowersAreNatural => call'[p] \in Call /\ OnPage(call'[p], auth'[p].pc)
           /\ BackoffClamped /\ Slept(call[p]) => Slept(call'[p])
<1> DEFINE c == call[p]
<1>1. /\ c.attempt \in Nat /\ c.sent \in Nat /\ c.pages \in 0..MaxPages
      /\ c.attempt + 1 \in Nat /\ c.sent + 1 \in Nat
      /\ c.slept \in Nat /\ c.idle \in Nat
      /\ MaxPages \in Nat \ {0} /\ MaxRetryAfter \in Nat
      /\ Attempts \in Nat /\ Attempts >= 1
  BY MaxPagesAssumption, MaxRetryAfterAssumption, AttemptsIs DEF Call
<1>2. CASE StaysIn(p)
  BY <1>2 DEF StaysIn, OnPage
<1>3. CASE NextPage(p)
  <2>1. Fields(call'[p], 0, 0, c.pages + 1, c.slept, 0) /\ auth'[p].pc = "ready"
    BY <1>3 DEF NextPage
  <2>2. c.pages + 1 \in 0..MaxPages
    BY <1>1, <1>3 DEF NextPage, OnPage
  <2>3. call'[p] \in Call
    BY <1>1, <2>1, <2>2, CallIs
  <2>4. OnPage(call'[p], auth'[p].pc)
    BY <1>1, <2>1 DEF Fields, OnPage
  <2>5. Slept(c) => Slept(call'[p])
    <3>1. /\ call'[p].slept = c.slept /\ call'[p].attempt = 0
          /\ call'[p].pages = c.pages + 1
      BY <2>1 DEF Fields
    <3>2. c.attempt <= Attempts
      BY DEF OnPage
    <3>3. (c.pages + 1) * Attempts = c.pages * Attempts + Attempts
      BY <1>1
    <3> DEFINE before == c.pages * Attempts
               after == (c.pages + 1) * Attempts
    <3>4. before \in Nat /\ after \in Nat /\ before + c.attempt <= after
      BY <1>1, <3>2, <3>3
    <3> HIDE DEF before, after
    <3>5. (before + c.attempt) * MaxRetryAfter <= (after + 0) * MaxRetryAfter
      BY <1>1, <3>4
    <3> QED
      BY <1>1, <3>1, <3>4, <3>5 DEF Slept, before, after
  <2> QED
    BY <2>3, <2>4, <2>5
<1>4. CASE OneMore(p)
  <2>1. Fields(call'[p], c.attempt, c.sent + 1, c.pages, c.slept, c.idle)
    BY <1>4 DEF OneMore
  <2>2. call'[p] \in Call
    BY <1>1, <2>1, CallIs
  <2>3. OnPage(call'[p], auth'[p].pc)
    BY <1>4, <2>1 DEF Fields, OnPage, OneMore
  <2>4. Slept(c) => Slept(call'[p])
    BY <2>1 DEF Fields, Slept
  <2> QED
    BY <2>2, <2>3, <2>4
<1>5. CASE Waits(p)
  <2>1. PICK retry_after \in RetryAfters :
          \E idle \in {c.idle, c.idle + Delay(c.attempt, retry_after)} :
             Fields(call'[p], c.attempt + 1, c.sent + 1, c.pages,
                    c.slept + Delay(c.attempt, retry_after), idle)
    BY <1>5 DEF Waits
  <2> DEFINE delay == Delay(c.attempt, retry_after)
  <2>2. c.attempt < Attempts /\ c.pages < MaxPages
    BY <1>5 DEF Waits, OnPage
  <2>3. /\ PowersAreNatural => delay \in Nat
        /\ BackoffClamped => delay \in 0..MaxRetryAfter
    BY <1>1, <2>2, DelayIs
  <2>4. PICK idle \in {c.idle, c.idle + delay} :
          Fields(call'[p], c.attempt + 1, c.sent + 1, c.pages, c.slept + delay, idle)
    BY <2>1
  <2> HIDE DEF delay
  <2>5. PowersAreNatural => call'[p] \in Call
    <3> SUFFICES ASSUME PowersAreNatural PROVE call'[p] \in Call
      OBVIOUS
    <3>1. delay \in Nat
      BY <2>3
    <3>2. c.slept + delay \in Nat /\ idle \in Nat
      BY <1>1, <2>4, <3>1
    <3> QED
      BY <1>1, <2>4, <3>2, CallIs
  <2>6. OnPage(call'[p], auth'[p].pc)
    <3>1. call'[p].pages = c.pages /\ call'[p].attempt = c.attempt + 1
      BY <2>4 DEF Fields
    <3> QED
      BY <1>1, <2>2, <3>1 DEF OnPage
  <2>7. ASSUME BackoffClamped, Slept(c)
        PROVE  Slept(call'[p])
    <3>1. /\ call'[p].slept = c.slept + delay /\ call'[p].attempt = c.attempt + 1
          /\ call'[p].pages = c.pages
      BY <2>4 DEF Fields
    <3>2. delay \in 0..MaxRetryAfter
      BY <2>3, <2>7
    <3> DEFINE n == c.pages * Attempts
    <3>3. n \in Nat
      BY <1>1
    <3>4. c.slept <= (n + c.attempt) * MaxRetryAfter
      BY <2>7 DEF Slept
    <3> HIDE DEF n
    <3>5. (n + (c.attempt + 1)) * MaxRetryAfter =
             (n + c.attempt) * MaxRetryAfter + MaxRetryAfter
      BY <1>1, <3>3
    <3>6. (n + c.attempt) * MaxRetryAfter \in Nat
      BY <1>1, <3>3
    <3>7. c.slept + delay <= (n + (c.attempt + 1)) * MaxRetryAfter
      BY <1>1, <3>2, <3>4, <3>5, <3>6
    <3> QED
      BY <3>1, <3>7 DEF Slept, n
  <2> QED
    BY <2>5, <2>6, <2>7
<1> QED
  BY <1>2, <1>3, <1>4, <1>5

LEMMA PagesStart ==
    ASSUME ClientInit
    PROVE  PageInv /\ SleepInv
<1>1. call = [p \in Proc |-> NewCall(0, 0)] /\ \A p \in Proc : auth[p].pc = "off"
  BY OffIs DEF ClientInit, Init
<1>2. Fields(NewCall(0, 0), 0, 0, 0, 0, 0) /\ 0 \in 0..MaxPages
  BY NewCallFields, MaxPagesAssumption
<1>3. NewCall(0, 0) \in Call
  BY <1>2, CallIs
<1>4. OnPage(NewCall(0, 0), "off")
  BY <1>2, AttemptsIs, MaxPagesAssumption DEF OnPage, Fields
<1>5. Slept(NewCall(0, 0))
  BY <1>2, AttemptsIs, MaxRetryAfterAssumption DEF Slept, Fields
<1> QED
  BY <1>1, <1>3, <1>4, <1>5 DEF PageInv, SleepInv

LEMMA PagesStep ==
    ASSUME PowersAreNatural, CallInv, IInv, PageInv, [ClientNext]_clientVars
    PROVE  PageInv' /\ (BackoffClamped /\ SleepInv => SleepInv')
<1>1. auth \in [Proc -> AuthState] /\ env \in Nat /\ clock \in Nat
  BY BoundsAssumption DEF IInv, TypeOK
<1>2. Attempts' = Attempts
  BY DEF Attempts
<1>3. CASE auth' = auth /\ call' = call
  BY <1>2, <1>3 DEF PageInv, SleepInv, OnPage, Slept
<1>4. CASE UNCHANGED clientVars
  BY <1>3, <1>4 DEF clientVars, vars
<1>5. CASE Environment /\ UNCHANGED call
  BY <1>3, <1>5 DEF Environment, Tick, Revoke, ExpireRefreshToken, Login, LoseVolume
\* One process changes, and its call fits afterwards.
<1>6. ASSUME NEW p \in Proc, call' = [q \in Proc |-> call'[q]],
             \A q \in Proc \ {p} : auth'[q] = auth[q] /\ call'[q] = call[q],
             call'[p] \in Call, OnPage(call'[p], auth'[p].pc),
             BackoffClamped /\ Slept(call[p]) => Slept(call'[p])
      PROVE  PageInv' /\ (BackoffClamped /\ SleepInv => SleepInv')
  <2>1. \A q \in Proc : call'[q] \in Call /\ OnPage(call'[q], auth'[q].pc)
    BY <1>6 DEF PageInv
  <2>2. BackoffClamped /\ SleepInv => \A q \in Proc : Slept(call'[q])
    BY <1>6 DEF SleepInv
  <2> QED
    BY <1>2, <1>6, <2>1, <2>2 DEF PageInv, SleepInv, OnPage, Slept
<1>7. ASSUME NEW p \in Proc, StartProcess(p)
      PROVE  PageInv' /\ (BackoffClamped /\ SleepInv => SleepInv')
  <2>1. Calls(p, NewCall(0, 0)) /\ \E a : Become(p, a)
    BY <1>7 DEF StartProcess, Begin
  <2>2. /\ call' = [q \in Proc |-> call'[q]] /\ call'[p] = NewCall(0, 0)
        /\ \A q \in Proc \ {p} : auth'[q] = auth[q] /\ call'[q] = call[q]
    BY <1>1, <2>1 DEF Calls, Become, CallInv
  <2>3. Fields(NewCall(0, 0), 0, 0, 0, 0, 0) /\ 0 \in 0..MaxPages
    BY NewCallFields, MaxPagesAssumption
  <2>4. NewCall(0, 0) \in Call
    BY <2>3, CallIs
  <2>5. OnPage(NewCall(0, 0), auth'[p].pc)
    BY <2>3, AttemptsIs, MaxPagesAssumption DEF OnPage, Fields
  <2>6. Slept(NewCall(0, 0))
    BY <2>3, AttemptsIs, MaxRetryAfterAssumption DEF Slept, Fields
  <2> QED
    BY <1>6, <2>2, <2>4, <2>5, <2>6
<1>8. ASSUME NEW p \in Proc, Step(p)
      PROVE  PageInv' /\ (BackoffClamped /\ SleepInv => SleepInv')
  <2>1. /\ call' = [q \in Proc |-> call'[q]]
        /\ \A q \in Proc \ {p} : auth'[q] = auth[q] /\ call'[q] = call[q]
        /\ StaysIn(p) \/ NextPage(p) \/ OneMore(p) \/ Waits(p)
    BY <1>8, StepOfCall
  <2>2. call[p] \in Call /\ OnPage(call[p], auth[p].pc)
    BY DEF PageInv
  <2>3. /\ call'[p] \in Call /\ OnPage(call'[p], auth'[p].pc)
        /\ BackoffClamped /\ Slept(call[p]) => Slept(call'[p])
    BY <2>1, <2>2, ChangeKeeps
  <2> QED
    BY <1>6, <2>1, <2>3
<1>9. ASSUME NEW p \in Proc, KillProcess(p)
      PROVE  PageInv' /\ (BackoffClamped /\ SleepInv => SleepInv')
  <2>1. call' = call /\ Become(p, Off)
    BY <1>9 DEF KillProcess, Crash
  <2>2. auth'[p].pc = "off" /\ \A q \in Proc \ {p} : auth'[q] = auth[q]
    BY <1>1, <2>1, OffIs DEF Become
  <2>3. call[p] \in Call /\ OnPage(call[p], auth'[p].pc)
    BY <2>2 DEF PageInv, OnPage
  <2> QED
    BY <1>6, <2>1, <2>2, <2>3 DEF CallInv
<1> QED
  BY <1>4, <1>5, <1>7, <1>8, <1>9 DEF ClientNext

\* Whatever headers the API sends, the locals of get_json keep their types: no
\* process asks for a page after the last one (sources.py:132), and no wait is
\* negative (client.py:107).
THEOREM ClientTypes == PowersAreNatural => (ClientSpec => []ClientTypeOK)
<1> SUFFICES ASSUME PowersAreNatural PROVE ClientSpec => []ClientTypeOK
  OBVIOUS
<1>1. ClientSpec => []IInv
  BY ClientImplementsAuth, Invariant, PTL
<1>2. ClientInit => PageInv
  BY PagesStart
<1>3. CallInv /\ IInv /\ PageInv /\ [ClientNext]_clientVars => PageInv'
  BY PagesStep
<1>4. PageInv /\ IInv => ClientTypeOK
  BY DEF PageInv, ClientTypeOK, IInv
<1> QED
  BY <1>1, <1>2, <1>3, <1>4, ClientStarts, ClientCounts, PTL DEF ClientSpec

\* However long the Retry-After headers and however many requests fail, a process
\* sleeps at most the clamp for each attempt of each page, as long as the backoff
\* without a header stays below the clamp (client.py:104-115).
THEOREM SleepIsBounded == BackoffClamped => (ClientSpec => []SleepBounded)
<1> SUFFICES ASSUME BackoffClamped PROVE ClientSpec => []SleepBounded
  OBVIOUS
<1>0. PowersAreNatural
  BY BackoffIsNatural
<1>1. ClientSpec => []IInv
  BY ClientImplementsAuth, Invariant, PTL
<1>2. ClientInit => PageInv /\ SleepInv
  BY PagesStart
<1>3. CallInv /\ IInv /\ PageInv /\ SleepInv /\ [ClientNext]_clientVars
        => PageInv' /\ SleepInv'
  BY <1>0, PagesStep
<1>4. PageInv /\ SleepInv => SleepBounded
  <2> SUFFICES ASSUME PageInv, SleepInv, NEW p \in Proc
               PROVE  call[p].slept <= MaxPages * Attempts * MaxRetryAfter
    BY DEF SleepBounded
  <2> DEFINE c == call[p]
             n == c.pages * Attempts + c.attempt
             all == MaxPages * Attempts
  <2>1. /\ c.pages \in 0..MaxPages /\ c.attempt \in Nat /\ c.slept \in Nat
        /\ MaxPages \in Nat /\ Attempts \in Nat /\ MaxRetryAfter \in Nat
    BY MaxPagesAssumption, MaxRetryAfterAssumption, AttemptsIs DEF PageInv, Call
  <2>2. c.attempt <= Attempts /\ (c.pages = MaxPages => c.attempt = 0)
    BY DEF PageInv, OnPage
  <2>3. n <= all /\ n \in Nat /\ all \in Nat
    <3>1. CASE c.pages = MaxPages
      BY <2>1, <2>2, <3>1
    <3>2. CASE c.pages # MaxPages
      <4>1. c.pages + 1 <= MaxPages
        BY <2>1, <3>2
      <4>2. (c.pages + 1) * Attempts <= MaxPages * Attempts
        BY <2>1, <4>1
      <4>3. (c.pages + 1) * Attempts = c.pages * Attempts + Attempts
        BY <2>1
      <4> QED
        BY <2>1, <2>2, <4>2, <4>3
    <3> QED
      BY <3>1, <3>2
  <2>4. c.slept <= n * MaxRetryAfter
    BY DEF SleepInv, Slept
  <2> HIDE DEF n, all
  <2>5. n * MaxRetryAfter <= all * MaxRetryAfter
    BY <2>1, <2>3
  <2>6. n * MaxRetryAfter \in Nat /\ all * MaxRetryAfter \in Nat
    BY <2>1, <2>3
  <2> HIDE DEF c
  <2>7. c.slept <= all * MaxRetryAfter
    BY <2>1, <2>4, <2>5, <2>6
  <2> QED
    BY <2>7 DEF c, all
<1> QED
  BY <1>1, <1>2, <1>3, <1>4, ClientStarts, ClientCounts, PTL DEF ClientSpec
=============================================================================
