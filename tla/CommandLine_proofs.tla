------------------------ MODULE CommandLine_proofs ------------------------
(***************************************************************************)
(* Theorems about CommandLine for every number of terminals, every set of  *)
(* commands, everything that may connect to the callback server, and every *)
(* way in which the deployment may break and be repaired.                  *)
(***************************************************************************)
EXTENDS CommandLine, TLAPS

\* A callback that carries a code is the redirect of the tab it was issued for.
OwnState(callback) ==
    callback.code # None =>
        callback.state = callback.code /\ callback.code \in consented

\* What is known of an attempt.
Flow(f) ==
    /\ OwnState(f.callback)
    /\ f.pc \in {"exchange", "token"} => f.code = f.attempt /\ f.code \in consented

FlowInv == LoginTypeOK /\ \A t \in Terminal : Flow(flow[t])

\* A run that started now would end in exit 2.
Broken == ~world.settings \/ world.token = "dead"

\* What is known of a process, as long as the world is as it was at the start.
Checked(s) ==
    /\ s.pc \in {"token", "api", "gateway"} => s.cmd = "doctor"
    /\ s.pc \in {"fetch", "notify"} => s.cmd \notin {"login", "doctor"}
    /\ s.pc = "store" => s.cmd # "login"
    /\ s.pc = "login" => s.cmd = "login"
    /\ s.pc = "off" => ~s.doomed
    /\ s.doomed => s.cmd \notin {"login", "doctor"}
    /\ s.steady /\ s.doomed => Broken
    /\ s.steady /\ s.pc \in {"store", "token", "api", "gateway", "fetch", "notify"}
         => world.settings
    /\ s.steady /\ s.pc \in {"api", "gateway", "notify"} => world.token = "valid"
    /\ s.steady /\ s.pc = "gateway" /\ ~s.failures => world.api \in {"ok", "garbled"}
    /\ s.steady /\ s.pc = "exit" /\ s.doomed => s.code # Fine
    /\ s.steady /\ s.pc = "exit" /\ s.cmd = "doctor" /\ s.code = Fine
         => world.token = "valid" /\ world.api \in {"ok", "garbled"}

ProcInv ==
    /\ world \in Worlds
    /\ proc \in [Terminal -> ProcState]
    /\ hopeless \in BOOLEAN
    /\ hopeless => Broken
    /\ \A t \in Terminal : Checked(proc[t])

-----------------------------------------------------------------------------
(***************************************************************************)
(* dawatch login.                                                          *)
(***************************************************************************)
\* One attempt goes on, no consent is taken back, and the others stay.
LEMMA FlowStep ==
    ASSUME FlowInv, NEW t \in Terminal, NEW f \in FlowState, Flows(t, f),
           f.pc \in {"listen", "read"} => Listening(t) \/ PortFree,
           Flow(f)', consented \subseteq consented'
    PROVE  /\ flow' \in [Terminal -> FlowState]
           /\ \A u, v \in Terminal : Listening(u)' /\ Listening(v)' => u = v
           /\ \A u \in Terminal : Flow(flow[u])'
<1>1. flow \in [Terminal -> FlowState]
  BY DEF FlowInv, LoginTypeOK
<1>2. /\ flow' \in [Terminal -> FlowState]
      /\ flow'[t] = f
      /\ \A u \in Terminal \ {t} : flow'[u] = flow[u]
  BY <1>1 DEF Flows
<1>3. \A u, v \in Terminal : Listening(u)' /\ Listening(v)' => u = v
  BY <1>2 DEF FlowInv, LoginTypeOK, Listening, PortFree
<1>4. \A u \in Terminal : Flow(flow[u])'
  <2>1. ASSUME NEW u \in Terminal \ {t} PROVE Flow(flow[u])'
    BY <1>2, <2>1 DEF FlowInv, Flow, OwnState
  <2>2. Flow(flow[t])'
    BY <1>2 DEF Flow, OwnState
  <2> QED
    BY <2>1, <2>2
<1> QED
  BY <1>2, <1>3, <1>4

\* Replacing what an attempt has keeps the type of the whole.
LEMMA FlowTypes ==
    ASSUME NEW f \in FlowState,
           NEW pc \in {"off", "listen", "read", "validate", "exchange", "token",
                       "config_error", "auth_error", "os_error"},
           NEW callback \in Callback, NEW n \in 0..MaxAttempts
    PROVE  /\ [f EXCEPT !.pc = pc] \in FlowState
           /\ [f EXCEPT !.pc = pc, !.callback = callback] \in FlowState
           /\ [f EXCEPT !.pc = pc, !.code = n] \in FlowState
           /\ [NoFlow EXCEPT !.pc = pc] \in FlowState
           /\ [NoFlow EXCEPT !.pc = pc, !.attempt = n] \in FlowState
           /\ NoFlow \in FlowState
<1>1. 0 \in 0..MaxAttempts
  BY MaxAttemptsAssumption
<1>2. Nothing \in Callback
  BY <1>1 DEF Nothing, Callback, None
<1>3. NoFlow \in FlowState
  BY <1>1, <1>2 DEF NoFlow, FlowState, None
<1> QED
  BY <1>3 DEF FlowState

\* A redirect, or the end of a connection or of the wait.
LEMMA Received ==
    ASSUME FlowInv, NEW t \in Terminal, NEW callback \in Callback,
           Receive(t, callback), OwnState(callback)', consented \subseteq consented'
    PROVE  /\ flow' \in [Terminal -> FlowState]
           /\ \A u, v \in Terminal : Listening(u)' /\ Listening(v)' => u = v
           /\ \A u \in Terminal : Flow(flow[u])'
<1> DEFINE f == [flow[t] EXCEPT !.pc = "validate", !.callback = callback]
<1>1. flow[t] \in FlowState
  BY DEF FlowInv, LoginTypeOK
<1>2. f \in FlowState /\ f.pc = "validate" /\ f.callback = callback
  BY <1>1 DEF FlowState
<1>3. PICK g \in FlowState : g = f
  BY <1>2
<1>4. Flow(g)'
  BY <1>2, <1>3 DEF Flow
<1> QED
  BY <1>2, <1>3, <1>4, FlowStep DEF Receive

LEMMA LoginStep ==
    ASSUME FlowInv,
           \/ Browser
           \/ \E t \in Terminal : Begin(t) \/ BindFails(t) \/ Serve(t)
    PROVE  FlowInv'
<1> USE DEF None
<1>1. /\ flow \in [Terminal -> FlowState] /\ attempts \in 0..MaxAttempts
      /\ attempts \in Nat
      /\ tabs \subseteq 1..attempts /\ codes \subseteq consented
      /\ consented \subseteq 1..attempts
      /\ \A t \in Terminal : flow[t] \in FlowState /\ Flow(flow[t])
                            /\ flow[t].callback \in Callback
                            /\ flow[t].code \in 0..MaxAttempts
  BY MaxAttemptsAssumption DEF FlowInv, LoginTypeOK, FlowState
<1>2. ASSUME NEW n \in tabs, codes' \subseteq consented', attempts' = attempts,
             tabs' \subseteq tabs, consented' \subseteq consented \cup {n},
             consented \subseteq consented',
             NEW callback \in Callback, OwnState(callback)', Redirect(callback)
      PROVE  FlowInv'
  <2>1. CASE \E t \in Terminal : Receive(t, callback)
    BY <1>1, <1>2, <2>1, Received DEF FlowInv, LoginTypeOK
  <2>2. CASE UNCHANGED flow
    <3>1. \A t \in Terminal : Flow(flow[t])'
      BY <1>1, <1>2, <2>2 DEF Flow, OwnState
    <3> QED
      BY <1>1, <1>2, <2>2, <3>1 DEF FlowInv, LoginTypeOK, Listening
  <2> QED
    BY <1>2, <2>1, <2>2 DEF Redirect
<1>3. ASSUME NEW n \in Attempt, Consent(n)
      PROVE  FlowInv'
  <2> DEFINE callback == [code |-> n, state |-> n, error |-> FALSE]
  <2>1. n \in 1..MaxAttempts /\ n \in 0..MaxAttempts
    BY MaxAttemptsAssumption DEF Attempt
  <2>2. callback \in Callback
    BY <2>1 DEF Callback
  <2>3. OwnState(callback)'
    BY <1>3 DEF Consent, OwnState
  <2> QED
    BY <1>1, <1>2, <1>3, <2>2, <2>3 DEF Consent
<1>4. ASSUME NEW n \in Attempt, Refuse(n)
      PROVE  FlowInv'
  <2> DEFINE callback == [code |-> 0, state |-> n, error |-> TRUE]
  <2>1. n \in 0..MaxAttempts /\ 0 \in 0..MaxAttempts
    BY MaxAttemptsAssumption DEF Attempt
  <2>2. callback \in Callback
    BY <2>1 DEF Callback
  <2>3. OwnState(callback)'
    BY DEF OwnState
  <2> QED
    BY <1>1, <1>2, <1>4, <2>2, <2>3 DEF Refuse
<1>5. ASSUME NEW t \in Terminal, NEW f \in FlowState, Flows(t, f),
             f.pc \in {"listen", "read"} => Listening(t) \/ PortFree,
             Flow(f), attempts' \in 0..MaxAttempts, attempts' >= attempts,
             tabs' \subseteq 1..attempts', codes' \subseteq codes,
             consented' = consented
      PROVE  FlowInv'
  <2>1. Flow(f)'
    BY <1>5 DEF Flow, OwnState
  <2>2. consented \subseteq 1..attempts'
    BY <1>1, <1>5
  <2> QED
    BY <1>1, <1>5, <2>1, <2>2, FlowStep DEF FlowInv, LoginTypeOK
<1>6. ASSUME NEW t \in Terminal, NEW callback \in Callback, Receive(t, callback),
             OwnState(callback), UNCHANGED <<attempts, tabs, codes, consented>>
      PROVE  FlowInv'
  <2>1. OwnState(callback)'
    BY <1>6 DEF OwnState
  <2> QED
    BY <1>1, <1>6, <2>1, Received DEF FlowInv, LoginTypeOK
<1>7. ASSUME NEW t \in Terminal, StrayRequest(t) \/ Disconnect(t) \/ Timeout(t)
      PROVE  FlowInv'
  <2>1. Nothing \in Callback /\ OwnState(Nothing)
    BY MaxAttemptsAssumption DEF Nothing, Callback, OwnState
  <2>2. OwnState(flow[t].callback)
    BY <1>1 DEF Flow
  <2> QED
    BY <1>1, <1>6, <1>7, <2>1, <2>2 DEF StrayRequest, Disconnect, Timeout
<1>8. ASSUME NEW t \in Terminal, Connect(t)
      PROVE  FlowInv'
  <2> DEFINE f == [flow[t] EXCEPT !.pc = "read"]
  <2>1. f \in FlowState /\ f.pc = "read" /\ f.callback = flow[t].callback
    BY <1>1 DEF FlowState
  <2>2. Flow(f) /\ Listening(t)
    BY <1>1, <1>8, <2>1 DEF Connect, Flow, Listening
  <2>3. /\ Flows(t, f) /\ attempts' = attempts /\ tabs' = tabs
        /\ codes' = codes /\ consented' = consented
    BY <1>8 DEF Connect
  <2> HIDE DEF f
  <2> QED
    BY <1>1, <1>5, <2>1, <2>2, <2>3
<1>9. ASSUME NEW t \in Terminal, Begin(t)
      PROVE  FlowInv'
  <2> DEFINE f == [NoFlow EXCEPT !.pc = "listen", !.attempt = attempts']
  <2>1. attempts' = attempts + 1 /\ attempts' \in 0..MaxAttempts
    BY <1>1, <1>9, MaxAttemptsAssumption DEF Begin
  <2>2. f \in FlowState
    BY <1>1, <2>1, FlowTypes, ZenonT(60) DEF Callback
  <2>3. f.pc = "listen" /\ f.callback = Nothing
    BY DEF NoFlow
  <2>4. Flow(f)
    BY <2>3 DEF Flow, OwnState, Nothing
  <2>5. tabs' \subseteq 1..attempts'
    BY <1>1, <1>9, <2>1 DEF Begin
  <2> QED
    BY <1>1, <1>5, <1>9, <2>1, <2>2, <2>3, <2>4, <2>5 DEF Begin
<1>10. ASSUME NEW t \in Terminal, BindFails(t)
       PROVE  FlowInv'
  <2> DEFINE f == [NoFlow EXCEPT !.pc = "os_error"]
  <2>1. f \in FlowState
    BY <1>1, FlowTypes
  <2>2. f.pc = "os_error" /\ f.callback = Nothing
    BY DEF NoFlow
  <2>3. Flow(f)
    BY <2>2 DEF Flow, OwnState, Nothing
  <2>4. /\ Flows(t, f) /\ attempts' = attempts /\ tabs' = tabs
        /\ codes' = codes /\ consented' = consented
    BY <1>10 DEF BindFails
  <2> HIDE DEF f
  <2> QED
    BY <1>1, <1>5, <2>1, <2>2, <2>3, <2>4
<1>11. ASSUME NEW t \in Terminal, NEW pc \in {"token", "config_error", "auth_error"},
              Stop(t, pc), flow[t].pc \in {"validate", "exchange"},
              pc = "token" => flow[t].pc = "exchange",
              codes' \subseteq codes, UNCHANGED <<attempts, tabs, consented>>
       PROVE  FlowInv'
  <2> DEFINE f == [flow[t] EXCEPT !.pc = pc]
  <2>1. /\ f \in FlowState /\ f.pc = pc /\ f.callback = flow[t].callback
        /\ f.code = flow[t].code /\ f.attempt = flow[t].attempt
    BY <1>1 DEF FlowState
  <2>2. Flow(f)
    BY <1>1, <1>11, <2>1 DEF Flow
  <2>3. /\ Flows(t, f) /\ attempts' = attempts /\ tabs' = tabs
        /\ consented' = consented
    BY <1>11 DEF Stop
  <2> HIDE DEF f
  <2> QED
    BY <1>1, <1>5, <1>11, <2>1, <2>2, <2>3
<1>12. ASSUME NEW t \in Terminal, Exchange(t) \/ ExchangeFails(t)
       PROVE  FlowInv'
  BY <1>11, <1>12 DEF Exchange, ExchangeFails
<1>13. ASSUME NEW t \in Terminal, Validate(t)
       PROVE  FlowInv'
  <2>1. CASE ~Valid(flow[t].callback, flow[t].attempt)
    BY <1>11, <1>13, <2>1 DEF Validate
  <2>2. CASE Valid(flow[t].callback, flow[t].attempt)
    <3> DEFINE f == [flow[t] EXCEPT !.pc = "exchange", !.code = flow[t].callback.code]
    <3>1. flow[t].callback.code \in 0..MaxAttempts
      BY <1>1 DEF Callback
    <3>2. /\ f \in FlowState /\ f.pc = "exchange" /\ f.callback = flow[t].callback
          /\ f.code = flow[t].callback.code /\ f.attempt = flow[t].attempt
      BY <1>1, <3>1 DEF FlowState
    <3>3. Flow(f)
      BY <1>1, <2>2, <3>2 DEF Flow, OwnState, Valid, Refused
    <3>4. /\ Flows(t, f) /\ attempts' = attempts /\ tabs' = tabs
          /\ codes' = codes /\ consented' = consented
      BY <1>13, <2>2 DEF Validate
    <3> HIDE DEF f
    <3> QED
      BY <1>1, <1>5, <3>2, <3>3, <3>4
  <2> QED
    BY <2>1, <2>2
<1> QED
  BY <1>3, <1>4, <1>7, <1>8, <1>9, <1>10, <1>12, <1>13 DEF Browser, Serve

-----------------------------------------------------------------------------
(***************************************************************************)
(* main.                                                                   *)
(***************************************************************************)
\* One process goes on, and the world stays as it is.
LEMMA ProcStep ==
    ASSUME ProcInv, NEW t \in Terminal, NEW s \in ProcState, Goes(t, s),
           Checked(s), world' = world, hopeless' \in BOOLEAN, hopeless' => Broken
    PROVE  ProcInv'
<1>1. /\ proc' \in [Terminal -> ProcState]
      /\ proc'[t] = s
      /\ \A u \in Terminal \ {t} : proc'[u] = proc[u]
  BY DEF ProcInv, Goes
<1>2. \A u \in Terminal : Checked(proc'[u])
  BY <1>1 DEF ProcInv
<1>3. \A u \in Terminal : Checked(proc[u])'
  BY <1>2 DEF Checked, Broken
<1> QED
  BY <1>1, <1>3 DEF ProcInv, Broken

LEMMA NoProcType == NoProc \in ProcState
BY DEF NoProc, ProcState, Command

\* A process exits: with 2 only where a run would find the world broken, and with
\* 0 only where it has looked.
LEMMA ExitStep ==
    ASSUME ProcInv, NEW t \in Terminal, NEW code \in {Fine, Failure, Config},
           Exits(t, code), world' = world,
           code = Config /\ proc[t].cmd # "login" => Broken,
           proc[t].steady /\ proc[t].doomed => code # Fine,
           proc[t].steady /\ proc[t].cmd = "doctor" /\ code = Fine
             => world.token = "valid" /\ world.api \in {"ok", "garbled"}
    PROVE  ProcInv'
<1> DEFINE s == [proc[t] EXCEPT !.pc = "exit", !.code = code]
<1>1. proc[t] \in ProcState /\ Checked(proc[t])
  BY DEF ProcInv
<1>2. /\ s \in ProcState /\ s.pc = "exit" /\ s.code = code
      /\ s.cmd = proc[t].cmd /\ s.steady = proc[t].steady
      /\ s.doomed = proc[t].doomed
  <2>1. s \in ProcState /\ s.pc = "exit" /\ s.code = code /\ s.cmd = proc[t].cmd
    BY <1>1 DEF ProcState
  <2>2. s.steady = proc[t].steady /\ s.doomed = proc[t].doomed
    BY <1>1, Zenon DEF ProcState
  <2> QED
    BY <2>1, <2>2
<1>3. Goes(t, s) /\ hopeless' \in BOOLEAN /\ (hopeless' => Broken)
  BY DEF Exits, ProcInv
<1> HIDE DEF s
<1>4. Checked(s)
  BY <1>1, <1>2 DEF Checked
<1> QED
  BY <1>2, <1>3, <1>4, ProcStep

\* A process goes on to something it has to do.
LEMMA GoStep ==
    ASSUME ProcInv, NEW t \in Terminal,
           NEW pc \in {"login", "store", "token", "api", "fetch", "notify"},
           GoesTo(t, pc), world' = world, hopeless' = hopeless,
           proc[t].pc \in {"settings", "store", "token", "fetch"},
           pc \in {"token", "api"} => proc[t].cmd = "doctor",
           pc \in {"fetch", "notify"} => proc[t].cmd \notin {"login", "doctor"},
           pc = "store" => proc[t].cmd # "login",
           pc = "login" => proc[t].cmd = "login",
           proc[t].pc = "settings" => world.settings,
           pc \in {"api", "notify"} => world.token = "valid"
    PROVE  ProcInv'
<1> DEFINE s == [proc[t] EXCEPT !.pc = pc]
<1>1. proc[t] \in ProcState /\ Checked(proc[t])
  BY DEF ProcInv
<1>2. /\ s \in ProcState /\ s.pc = pc
      /\ s.cmd = proc[t].cmd /\ s.steady = proc[t].steady
      /\ s.doomed = proc[t].doomed
  <2>1. s \in ProcState /\ s.pc = pc /\ s.cmd = proc[t].cmd
    BY <1>1 DEF ProcState
  <2>2. s.steady = proc[t].steady /\ s.doomed = proc[t].doomed
    BY <1>1, Zenon DEF ProcState
  <2> QED
    BY <2>1, <2>2
<1>3. Goes(t, s)
  BY DEF GoesTo
<1> HIDE DEF s
<1>4. Checked(s)
  BY <1>1, <1>2 DEF Checked
<1> QED
  BY <1>2, <1>3, <1>4, ProcStep DEF ProcInv

LEMMA MainStep ==
    ASSUME ProcInv, NEW t \in Terminal,
           \/ LoadSettings(t) \/ OpenStore(t) \/ CheckToken(t) \/ CheckApi(t)
           \/ CheckGateway(t) \/ Fetch(t) \/ Notify(t) \/ StoreFails(t)
           \/ Leave(t)
           \/ \E cmd \in Command : Invoke(t, cmd)
    PROVE  ProcInv'
<1> USE DEF At
<1>1. /\ proc[t] \in ProcState /\ Checked(proc[t]) /\ hopeless \in BOOLEAN
      /\ hopeless => Broken
      /\ world \in World
  BY WorldsAssumption DEF ProcInv
<1>2. {Fine, Failure, Config} = {0, 1, 2} /\ Failure # Config /\ Fine # Config
      /\ Failure # Fine
  BY DEF Fine, Failure, Config
<1>3. /\ proc[t].cmd # "doctor" \/ ~proc[t].doomed
      /\ proc[t].steady /\ proc[t].doomed => Broken
  BY <1>1 DEF Checked
<1>4. CASE LoadSettings(t)
  <2>1. CASE ~world.settings
    BY <1>2, <1>4, <2>1, ExitStep DEF LoadSettings, Broken
  <2>2. CASE world.settings
    BY <1>4, <2>2, GoStep DEF LoadSettings
  <2> QED
    BY <2>1, <2>2
<1>5. CASE OpenStore(t)
  <2>1. CASE ~world.database
    BY <1>2, <1>5, <2>1, ExitStep DEF OpenStore
  <2>2. CASE world.database
    <3>1. proc[t].cmd # "login"
      BY <1>1, <1>5 DEF OpenStore, Checked
    <3> QED
      BY <1>5, <2>2, <3>1, GoStep DEF OpenStore
  <2> QED
    BY <2>1, <2>2
<1>6. CASE CheckToken(t)
  <2>1. CASE world.token # "valid"
    BY <1>2, <1>6, <2>1, ExitStep DEF CheckToken
  <2>2. CASE world.token = "valid"
    BY <1>1, <1>6, <2>2, GoStep DEF CheckToken, Checked
  <2> QED
    BY <2>1, <2>2
<1>7. CASE CheckApi(t)
  <2> DEFINE ok == world.api \in {"ok", "garbled"}
             s == [proc[t] EXCEPT !.pc = "gateway", !.failures = @ \/ ~ok]
  <2>1. /\ s \in ProcState /\ s.pc = "gateway" /\ s.cmd = proc[t].cmd
    BY <1>1 DEF ProcState
  <2>2. /\ s.steady = proc[t].steady /\ s.doomed = proc[t].doomed
        /\ s.failures = (proc[t].failures \/ ~ok)
    BY <1>1, Zenon DEF ProcState
  <2>3. Goes(t, s)
    BY <1>7 DEF CheckApi, Reports
  <2>4. proc[t].pc = "api" /\ hopeless' = hopeless /\ world' = world
    BY <1>7 DEF CheckApi
  <2> HIDE DEF s
  <2>5. Checked(s)
    BY <1>1, <2>1, <2>2, <2>4 DEF Checked
  <2> QED
    BY <1>1, <2>1, <2>3, <2>4, <2>5, ProcStep
<1>8. CASE CheckGateway(t)
  <2> DEFINE code == IF proc[t].failures \/ world.gateway = "down" THEN Failure
                                                                  ELSE Fine
  <2>1. Exits(t, code) /\ proc[t].pc = "gateway" /\ world' = world
    BY <1>8 DEF CheckGateway
  <2>2. proc[t].cmd = "doctor" /\ ~proc[t].doomed
    BY <1>1, <1>3, <2>1 DEF Checked
  <2>3. code \in {Fine, Failure, Config} /\ code # Config
        /\ (code = Fine => ~proc[t].failures)
    BY <1>2
  <2>4. proc[t].steady /\ code = Fine
          => world.token = "valid" /\ world.api \in {"ok", "garbled"}
    BY <1>1, <2>1, <2>3 DEF Checked
  <2> HIDE DEF code
  <2> QED
    BY <2>1, <2>2, <2>3, <2>4, ExitStep
<1>9. CASE Fetch(t)
  <2>1. proc[t].pc = "fetch" /\ world' = world /\ proc[t].cmd \in Command
    BY <1>1, <1>9 DEF Fetch, ProcState
  <2>2. CASE world.token = "dead" /\ Exits(t, Config)
    BY <1>2, <2>1, <2>2, ExitStep DEF Broken
  <2>3. CASE world.token \in {"unreachable", "valid"} /\ Exits(t, Failure)
    BY <1>2, <2>1, <2>3, ExitStep
  <2>4. CASE world.token = "valid" /\ world.api = "ok" /\ Fetched(t)
    <3>1. proc[t].steady => ~Broken
      BY <1>1, <2>1, <2>4 DEF Checked, Broken
    <3>2. CASE proc[t].cmd = "run"
      BY <2>1, <2>4, <3>2, GoStep DEF Fetched
    <3>3. CASE proc[t].cmd # "run"
      BY <1>2, <1>3, <2>1, <2>4, <3>1, <3>3, ExitStep DEF Fetched
    <3> QED
      BY <3>2, <3>3
  <2> QED
    BY <1>9, <2>2, <2>3, <2>4 DEF Fetch
<1>10. CASE Notify(t)
  <2>1. proc[t].pc = "notify" /\ world' = world
    BY <1>10 DEF Notify
  <2>2. proc[t].steady => ~Broken
    BY <1>1, <2>1 DEF Checked, Broken
  <2>3. CASE Exits(t, Failure)
    BY <1>2, <2>1, <2>3, ExitStep
  <2>4. CASE Exits(t, Fine)
    <3>1. proc[t].cmd # "doctor"
      BY <1>1, <2>1 DEF Checked
    <3> QED
      BY <1>2, <1>3, <2>1, <2>2, <2>4, <3>1, ExitStep
  <2> QED
    BY <1>10, <2>3, <2>4 DEF Notify
<1>11. CASE Leave(t)
  <2>1. NoProc \in ProcState /\ Checked(NoProc)
    <3>1. NoProc \in ProcState
      BY NoProcType
    <3>2. NoProc.pc = "off" /\ NoProc.cmd = "run" /\ ~NoProc.doomed
      BY DEF NoProc
    <3> QED
      BY <3>1, <3>2 DEF Checked
  <2> QED
    BY <1>1, <1>11, <2>1, ProcStep DEF Leave
<1>12. ASSUME NEW cmd \in Command, Invoke(t, cmd)
       PROVE  ProcInv'
  <2> DEFINE s == [NoProc EXCEPT
                     !.pc = "settings", !.cmd = cmd,
                     !.doomed = hopeless /\ cmd \notin {"login", "doctor"}]
  <2>1. s \in ProcState /\ s.pc = "settings" /\ s.cmd = cmd
    BY <1>1, <1>12 DEF NoProc, ProcState
  <2>2. s.doomed => hopeless /\ cmd \notin {"login", "doctor"}
    BY DEF NoProc
  <2>3. Goes(t, s) /\ world' = world /\ hopeless' = hopeless
    BY <1>12 DEF Invoke
  <2> HIDE DEF s
  <2>4. Checked(s)
    BY <1>1, <2>1, <2>2 DEF Checked
  <2> QED
    BY <1>1, <2>1, <2>3, <2>4, ProcStep
<1>13. CASE StoreFails(t)
  BY <1>2, <1>13, ExitStep DEF StoreFails
<1> QED
  BY <1>4, <1>5, <1>6, <1>7, <1>8, <1>9, <1>10, <1>11, <1>12, <1>13

\* A world that changes takes the promises with it, and never heals what exit 2
\* stands for without a new setting or a new token.
LEMMA ChangeStep ==
    ASSUME ProcInv, Change
    PROVE  ProcInv'
<1>1. /\ proc \in [Terminal -> ProcState] /\ world \in World
      /\ \A t \in Terminal : proc[t] \in ProcState /\ Checked(proc[t])
      /\ hopeless \in BOOLEAN /\ (hopeless => Broken)
  BY WorldsAssumption DEF ProcInv
<1> DEFINE s(t) == [proc[t] EXCEPT
                      !.steady = At(t, "off") \/ proc[t].cmd = "login"]
<1>2. \A t \in Terminal : s(t) \in ProcState
  BY <1>1 DEF ProcState
<1>3. /\ proc' \in [Terminal -> ProcState]
      /\ \A t \in Terminal : proc'[t] = s(t)
  BY <1>2 DEF Change
<1>4. hopeless' \in BOOLEAN /\ (hopeless' => Broken') /\ world' \in Worlds
  BY <1>1 DEF Change, Broken
<1>5. ASSUME NEW t \in Terminal PROVE Checked(proc[t])'
  <2>1. /\ s(t).pc = proc[t].pc /\ s(t).cmd = proc[t].cmd
        /\ s(t).code = proc[t].code
    BY <1>1 DEF ProcState
  <2>2. s(t).doomed = proc[t].doomed
    BY <1>1, Zenon DEF ProcState
  <2>3. s(t).steady => proc[t].pc = "off" \/ proc[t].cmd = "login"
    BY <1>1 DEF ProcState, At
  <2> HIDE DEF s
  <2>4. Checked(proc[t])
    BY <1>1
  <2> QED
    BY <1>3, <2>1, <2>2, <2>3, <2>4 DEF Checked
<1> QED
  BY <1>3, <1>4, <1>5 DEF ProcInv

-----------------------------------------------------------------------------
IInv == FlowInv /\ ProcInv

LEMMA InitHolds == Init => IInv
<1> SUFFICES ASSUME Init PROVE IInv
  OBVIOUS
<1>1. /\ NoProc \in ProcState
      /\ NoProc.pc = "off" /\ ~NoProc.doomed
  BY NoProcType DEF NoProc
<1>2. Checked(NoProc)
  BY <1>1 DEF Checked
<1>3. ProcInv
  BY <1>1, <1>2 DEF Init, ProcInv
<1>4. 0 \in 0..MaxAttempts
  BY MaxAttemptsAssumption
<1>5. NoFlow \in FlowState /\ NoFlow.pc = "off" /\ NoFlow.callback = Nothing
  <2>1. Nothing \in Callback
    BY <1>4 DEF Nothing, Callback, None
  <2> QED
    BY <1>4, <2>1 DEF NoFlow, FlowState, None
<1>6. Flow(NoFlow)
  BY <1>5 DEF Flow, OwnState, Nothing, None
<1>7. FlowInv
  BY <1>4, <1>5, <1>6 DEF Init, LoginInit, FlowInv, LoginTypeOK, Listening
<1> QED
  BY <1>3, <1>7 DEF IInv

LEMMA StepHolds == IInv /\ [Next]_vars => IInv'
<1> SUFFICES ASSUME IInv, [Next]_vars PROVE IInv'
  OBVIOUS
<1>1. FlowInv /\ ProcInv
  BY DEF IInv
<1>2. ASSUME UNCHANGED loginVars PROVE FlowInv'
  BY <1>1, <1>2 DEF loginVars, FlowInv, LoginTypeOK, Listening, Flow, OwnState
<1>3. ASSUME UNCHANGED <<world, proc, hopeless>> PROVE ProcInv'
  BY <1>1, <1>3 DEF ProcInv, Checked, Broken
<1>4. CASE UNCHANGED vars
  BY <1>2, <1>3, <1>4 DEF vars, IInv
<1>5. CASE Change
  BY <1>1, <1>2, <1>5, ChangeStep DEF Change, IInv
<1>6. CASE LoginSteps
  BY <1>1, <1>3, <1>6, LoginStep DEF LoginSteps, IInv
<1>7. ASSUME NEW t \in Terminal, BeginLogin(t)
      PROVE  IInv'
  BY <1>1, <1>3, <1>7, LoginStep DEF BeginLogin, IInv
<1>8. ASSUME NEW t \in Terminal, EndLogin(t)
      PROVE  IInv'
  <2>1. ProcInv'
    <3>1. proc[t].pc = "login" /\ proc[t] \in ProcState /\ world' = world
      BY <1>1, <1>8 DEF EndLogin, At, ProcInv
    <3>2. proc[t].cmd = "login" /\ ~proc[t].doomed
      BY <1>1, <3>1 DEF ProcInv, Checked
    <3>3. PICK code \in {Fine, Failure, Config} : Exits(t, code)
      BY <1>8 DEF EndLogin
    <3> QED
      BY <1>1, <3>1, <3>2, <3>3, ExitStep
  <2>2. FlowInv'
    <3>1. NoFlow.pc = "off" /\ NoFlow.callback = Nothing
      BY DEF NoFlow
    <3>2. 0 \in 0..MaxAttempts
      BY MaxAttemptsAssumption
    <3>3. NoFlow \in FlowState
      <4>1. Nothing \in Callback
        BY <3>2 DEF Nothing, Callback, None
      <4> QED
        BY <3>2, <4>1 DEF NoFlow, FlowState, None
    <3>4. Flow(NoFlow)'
      BY <3>1 DEF Flow, OwnState, Nothing, None
    <3>5. /\ Flows(t, NoFlow) /\ attempts' = attempts /\ tabs' = tabs
          /\ codes' = codes /\ consented' = consented
      BY <1>8 DEF EndLogin
    <3> QED
      BY <1>1, <3>1, <3>3, <3>4, <3>5, FlowStep DEF FlowInv, LoginTypeOK
  <2> QED
    BY <2>1, <2>2 DEF IInv
<1>9. ASSUME NEW t \in Terminal,
             \/ LoadSettings(t) \/ OpenStore(t) \/ CheckToken(t) \/ CheckApi(t)
             \/ CheckGateway(t) \/ Fetch(t) \/ Notify(t) \/ StoreFails(t) \/ Leave(t)
             \/ \E cmd \in Commands[t] : Invoke(t, cmd)
      PROVE  IInv'
  <2>1. UNCHANGED loginVars
    BY <1>9 DEF LoadSettings, OpenStore, CheckToken, CheckApi, CheckGateway,
                Fetch, Notify, StoreFails, Leave, Invoke
  <2>2. ProcInv'
    <3>1. Commands[t] \subseteq Command
      BY CommandsAssumption
    <3> QED
      BY <1>1, <1>9, <3>1, MainStep
  <2> QED
    BY <1>2, <2>1, <2>2 DEF IInv
<1> QED
  BY <1>4, <1>5, <1>6, <1>7, <1>8, <1>9 DEF Next, Step

LEMMA Invariant == Spec => []IInv
BY InitHolds, StepHolds, PTL DEF Spec

\* Every attempt and every process has the type it should, and one terminal at
\* most has the port.
THEOREM CommandTypes == Spec => []TypeOK
<1>1. IInv => TypeOK
  BY DEF IInv, FlowInv, ProcInv, TypeOK
<1> QED
  BY <1>1, Invariant, PTL

\* However many terminals, tabs and stray requests there are, a code is exchanged
\* only by the attempt it was issued for, after the user has consented to it.
THEOREM OwnCodes == Spec => []OwnCodeOnly
<1>1. IInv => OwnCodeOnly
  BY DEF IInv, FlowInv, Flow, OwnCodeOnly
<1> QED
  BY <1>1, Invariant, PTL

\* Exit 2 is never given for something a retry may get past.
THEOREM Exit2Lasts == Spec => []ConfigErrorIsPermanent
<1>1. IInv => ConfigErrorIsPermanent
  BY DEF IInv, ProcInv, Checked, ConfigErrorIsPermanent, At
<1> QED
  BY <1>1, Invariant, PTL

\* A deployment that doctor calls healthy has a token with the scope.
THEOREM DoctorIsRight == Spec => []DoctorVouches
<1>1. IInv => DoctorVouches
  BY DEF IInv, ProcInv, Checked, DoctorVouches, At
<1> QED
  BY <1>1, Invariant, PTL
=============================================================================
