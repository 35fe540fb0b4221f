---------------------------- MODULE CommandLine ----------------------------
(***************************************************************************)
(* main() and its commands in several terminals, against a deployment      *)
(* whose parts break and are repaired meanwhile.  `dawatch login` is       *)
(* module Login; a run is only what decides its exit code.                 *)
(***************************************************************************)
EXTENDS Login, FiniteSets

CONSTANTS
    Commands,  \* what is invoked in each terminal: a subset of Command
    Worlds     \* states the deployment may be in: a subset of World

Command == {"login", "doctor", "run", "dry_run", "seed"}

World ==
    [settings : BOOLEAN,                          \* are all required ones set?
     database : BOOLEAN,                          \* can it be opened and written?
     token : {"valid", "dead", "unreachable"},    \* what token() comes to
     api : {"ok", "forbidden", "garbled", "down"},
     ntfy : BOOLEAN,
     gateway : {"up", "down", "unset"}]

ASSUME CommandsAssumption == Commands \in [Terminal -> SUBSET Command]
ASSUME WorldsAssumption == Worlds \subseteq World

VARIABLES
    world,
    proc,     \* the process in each terminal
    hopeless  \* history: a process has ended in exit 2, and neither settings
              \* nor refresh token have been replaced since

vars == <<loginVars, world, proc, hopeless>>

Fine == 0     \* EXIT_OK
Failure == 1  \* EXIT_FAILURE, and a traceback
Config == 2   \* EXIT_CONFIG

ProcState ==
    [pc : {"off", "settings", "login", "store",
           "token", "api", "gateway",  \* doctor
           "fetch", "notify",          \* run, dry run, seed
           "exit"},
     cmd : Command,
     failures : BOOLEAN,      \* doctor has reported a FAIL
     code : {Fine, Failure, Config},
     steady : BOOLEAN,        \* history: the world is as it was at the start
     doomed : BOOLEAN]        \* history: it started while `hopeless`, as a
                              \* command that needs what has failed

NoProc == [pc |-> "off", cmd |-> "run", failures |-> FALSE, code |-> Fine,
           steady |-> TRUE, doomed |-> FALSE]

TypeOK ==
    /\ LoginTypeOK
    /\ world \in Worlds
    /\ proc \in [Terminal -> ProcState]
    /\ hopeless \in BOOLEAN

Init ==
    /\ LoginInit
    /\ world \in Worlds
    /\ proc = [t \in Terminal |-> NoProc]
    /\ hopeless = FALSE

-----------------------------------------------------------------------------
At(t, pc) == proc[t].pc = pc
Goes(t, s) == proc' = [proc EXCEPT ![t] = s]
GoesTo(t, pc) == Goes(t, [proc[t] EXCEPT !.pc = pc])

\* main returns. Exit 2 of a login says nothing about the deployment.
Exits(t, code) ==
    /\ Goes(t, [proc[t] EXCEPT !.pc = "exit", !.code = code])
    /\ hopeless' = (hopeless \/ (code = Config /\ proc[t].cmd # "login"))

\* Bound: no more `dawatch login` than MaxAttempts have a number for.
Awaited == {t \in Terminal : /\ proc[t].cmd = "login"
                             /\ proc[t].pc \in {"settings", "login"}
                             /\ flow[t].pc = "off"}

Invoke(t, cmd) ==
    /\ At(t, "off")
    /\ cmd = "login" => attempts + Cardinality(Awaited) < MaxAttempts
    /\ Goes(t, [NoProc EXCEPT
                  !.pc = "settings", !.cmd = cmd,
                  !.doomed = hopeless /\ cmd \notin {"login", "doctor"}])
    /\ UNCHANGED <<loginVars, world, hopeless>>

LoadSettings(t) ==
    /\ At(t, "settings")
    /\ IF ~world.settings THEN Exits(t, Config)
       ELSE /\ GoesTo(t, IF proc[t].cmd = "login" THEN "login" ELSE "store")
            /\ UNCHANGED hopeless
    /\ UNCHANGED <<loginVars, world>>

\* _login
BeginLogin(t) ==
    /\ At(t, "login")
    /\ Begin(t) \/ BindFails(t)
    /\ UNCHANGED <<world, proc, hopeless>>

EndLogin(t) ==
    /\ At(t, "login")
    /\ flow[t].pc \in {"token", "config_error", "auth_error", "os_error"}
    /\ Exits(t, CASE flow[t].pc = "token" -> Fine
                  [] flow[t].pc = "config_error" -> Config
                  [] OTHER -> Failure)
    /\ Flows(t, NoFlow)
    /\ UNCHANGED <<attempts, tabs, codes, consented, world>>

OpenStore(t) ==
    /\ At(t, "store")
    /\ IF ~world.database THEN Exits(t, Failure)
       ELSE /\ GoesTo(t, IF proc[t].cmd = "doctor" THEN "token" ELSE "fetch")
            /\ UNCHANGED hopeless
    /\ UNCHANGED <<loginVars, world>>

-----------------------------------------------------------------------------
(***************************************************************************)
(* doctor                                                                  *)
(***************************************************************************)
Reports(t, ok, pc) ==
    Goes(t, [proc[t] EXCEPT !.pc = pc, !.failures = @ \/ ~ok])

\* Without a token it stops, with exit 1 even after a ConfigError.
CheckToken(t) ==
    /\ At(t, "token")
    /\ IF world.token = "valid" THEN GoesTo(t, "api") /\ UNCHANGED hopeless
                                ELSE Exits(t, Failure)
    /\ UNCHANGED <<loginVars, world>>

\* Mutant: it asks /placebo, which needs no scope.
CheckPlacebo(t) ==
    /\ At(t, "api")
    /\ Reports(t, world.api # "down", "gateway")
    /\ UNCHANGED <<loginVars, world, hopeless>>

\* Any 200 will do.
CheckApi(t) ==
    /\ At(t, "api")
    /\ Reports(t, world.api \in {"ok", "garbled"}, "gateway")
    /\ UNCHANGED <<loginVars, world, hopeless>>

CheckGateway(t) ==
    /\ At(t, "gateway")
    /\ Exits(t, IF proc[t].failures \/ world.gateway = "down" THEN Failure
                                                              ELSE Fine)
    /\ UNCHANGED <<loginVars, world>>

-----------------------------------------------------------------------------
(***************************************************************************)
(* run, run --dry-run, seed                                                *)
(***************************************************************************)
Fetched(t) ==
    IF proc[t].cmd = "run" THEN GoesTo(t, "notify") /\ UNCHANGED hopeless
                           ELSE Exits(t, Fine)

\* Mutant: every failure of token() is a ConfigError.
FetchOrConfig(t) ==
    /\ At(t, "fetch")
    /\ IF world.token # "valid" THEN Exits(t, Config)
       ELSE IF world.api # "ok" THEN Exits(t, Failure)
       ELSE Fetched(t)
    /\ UNCHANGED <<loginVars, world>>

\* ConfigError, AuthError, FetchError, or a list.
Fetch(t) ==
    /\ At(t, "fetch")
    /\ \/ world.token = "dead" /\ Exits(t, Config)
       \/ world.token = "unreachable" /\ Exits(t, Failure)
       \/ world.token = "valid" /\ world.api # "ok" /\ Exits(t, Failure)
       \/ world.token = "valid" /\ world.api = "ok" /\ Fetched(t)
    /\ UNCHANGED <<loginVars, world>>

\* There is something to send, or there is not.
Notify(t) ==
    /\ At(t, "notify")
    /\ \/ Exits(t, Fine)
       \/ ~world.ntfy /\ Exits(t, Failure)
    /\ UNCHANGED <<loginVars, world>>

\* A statement after the store was opened: loading or saving a token, has_seen,
\* the filter or mark_seen.
StoreFails(t) ==
    /\ proc[t].pc \in {"token", "fetch", "notify"}
    /\ ~world.database
    /\ Exits(t, Failure)
    /\ UNCHANGED <<loginVars, world>>

Leave(t) ==
    /\ At(t, "exit")
    /\ Goes(t, NoProc)
    /\ UNCHANGED <<loginVars, world, hopeless>>

-----------------------------------------------------------------------------
\* Something breaks, or somebody repairs it. A login looks at no more than the
\* settings.
Change ==
    /\ world' \in Worlds \ {world}
    /\ proc' = [t \in Terminal |->
                  [proc[t] EXCEPT
                     !.steady = At(t, "off") \/ proc[t].cmd = "login"]]
    /\ hopeless' = (hopeless /\ (world.settings \/ ~world'.settings)
                             /\ (world.token # "dead" \/ world'.token = "dead"))
    /\ UNCHANGED loginVars

LoginSteps ==
    /\ Browser \/ \E t \in Terminal : Serve(t)
    /\ UNCHANGED <<world, proc, hopeless>>

Step(t) ==
    \/ LoadSettings(t) \/ BeginLogin(t) \/ EndLogin(t) \/ OpenStore(t)
    \/ CheckToken(t) \/ CheckApi(t) \/ CheckGateway(t)
    \/ Fetch(t) \/ Notify(t) \/ StoreFails(t) \/ Leave(t)

Next ==
    \/ Change
    \/ LoginSteps
    \/ \E t \in Terminal : Step(t) \/ \E cmd \in Commands[t] : Invoke(t, cmd)

Spec == Init /\ [][Next]_vars

\* A process goes on: the HTTP clients have timeouts, and so has the callback
\* server; a browser closes a connection that it does not use.
Fairness ==
    \A t \in Terminal :
        /\ WF_vars(Step(t))
        /\ WF_vars(Serve(t) /\ UNCHANGED <<world, proc, hopeless>>)

FairSpec == Spec /\ Fairness

-----------------------------------------------------------------------------
(***************************************************************************)
(* Properties.                                                             *)
(***************************************************************************)
\* Exit 2 will never succeed on a retry: a process that starts after it exits
\* with 0 or with anything else only once settings or token were replaced.
\* doctor and login are left out: they do not depend on what has failed.
ConfigErrorIsPermanent ==
    \A t \in Terminal :
        /\ At(t, "exit")
        /\ proc[t].doomed
        /\ proc[t].steady
        => proc[t].code # Fine

\* What doctor calls healthy, and what has not changed since it was started, can
\* fetch: there is a token, and it has the scope.
DoctorVouches ==
    \A t \in Terminal :
        /\ At(t, "exit")
        /\ proc[t].cmd = "doctor"
        /\ proc[t].code = Fine
        /\ proc[t].steady
        => world.token = "valid" /\ world.api \notin {"forbidden", "down"}

\* Every command ends. `dawatch login` does because the server times out, and a
\* connection that it has accepted is used or closed by the browser.
EveryCommandEnds ==
    \A t \in Terminal : proc[t].pc # "off" ~> proc[t].pc = "off"

\* doctor checks every external dependency: when all is as it was, a run that
\* follows does what it should.
DoctorChecksEverything ==
    \A t \in Terminal :
        /\ At(t, "exit")
        /\ proc[t].cmd = "doctor"
        /\ proc[t].code = Fine
        /\ proc[t].steady
        => world.ntfy /\ world.api = "ok"
=============================================================================
