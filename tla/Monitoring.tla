----------------------------- MODULE Monitoring -----------------------------
(***************************************************************************)
(* What the alerts know of the runs: PushgatewaySink in each pod of        *)
(* CronJob, the group it pushes to the Pushgateway, and the two alert      *)
(* rules that Prometheus evaluates on what it scrapes there.               *)
(*                                                                         *)
(* Time stamps are kept as ages, up to Old.  A gauge that was never set is *)
(* the time stamp 0, and therefore Old.  A run of the loop over a batch is *)
(* one step here; WatchService has it in detail.                           *)
(***************************************************************************)
EXTENDS CronJob

CONSTANTS
    Threshold,    \* ticks in the expression of DawatchStale
    For,          \* ticks in its `for`
    Window,       \* ticks in the range of DawatchErrors
    Outcomes,     \* how runs end: a subset of Outcome
    Mishaps       \* what happens to pushes: a subset of Mishap

Outcome == {"clean",      \* every fetched deviation handled: success
            "one",        \* one or two sends refused: exit 1
            "two",
            "fetch",      \* FetchError or AuthError in fetch: exit 1
            "config",     \* ConfigError in fetch, from token(): exit 2
            "statement"}  \* StoreError outside of fetch: exit 1

Mishap == {"kill",    \* a pod dies before it has pushed
           "refused", \* the push fails
           "dry_run", \* somebody runs `dawatch run --dry-run` by hand
           "restart"} \* the gateway loses its emptyDir

ASSUME TimesAssumption == Threshold \in Nat /\ For \in Nat /\ Window \in Nat
ASSUME OutcomesAssumption == Outcomes \subseteq Outcome
ASSUME MishapsAssumption == Mishaps \subseteq Mishap

VARIABLES
    sink,      \* the registry of each pod
    gateway,   \* the registry that was pushed last
    present,   \* does the gateway have the group job="dawatch"?
    scraped,   \* last sample of dawatch_errors_total in the window, by stage
    rise,      \* ticks since increase() last saw that counter go up
    staleFor,  \* evaluations in a row that found the time stamp stale
    clean,     \* history: age of the last run that recorded success
    failed     \* history: age of the last run that recorded an error

seen == <<scraped, rise, staleFor>>
vars == <<cronVars, sink, gateway, present, seen, clean, failed>>

Stage == {"fetch", "notify"}

\* Ages above these make no difference to any rule or property.
Old == Threshold + 1
LongAgo == Window + ActiveDeadline + 1
Older(age, cap) == IF age < cap THEN age + 1 ELSE cap

\* 0 stands for a stage that has no series.
Errors == [Stage -> 0..2]
Registry == [success : 0..Old, errors : Errors]

\* CollectorRegistry(): the gauge is 0, and errors_total has no series before
\* labels() is called.
Fresh == [success |-> Old, errors |-> [s \in Stage |-> 0]]

TypeOK ==
    /\ CronTypeOK
    /\ sink \in [Job -> Registry]
    /\ gateway \in Registry
    /\ present \in BOOLEAN
    /\ scraped \in Errors
    /\ rise \in 0..Window
    /\ staleFor \in 0..(For + 1)
    /\ clean \in 0..Old
    /\ failed \in 0..LongAgo

Init ==
    /\ CronInit
    /\ sink = [j \in Job |-> Fresh]
    /\ gateway = Fresh
    /\ present = FALSE
    /\ scraped = Fresh.errors
    /\ rise = Window
    /\ staleFor = 0
    /\ clean = Old
    /\ failed = LongAgo

-----------------------------------------------------------------------------
(***************************************************************************)
(* A run, and what it leaves in its registry.                              *)
(***************************************************************************)
\* Mutant: record_error before the send instead of after NotifyError.
CountsEverySend(outcome) ==
    [s \in Stage |->
        CASE s = "notify" /\ outcome \in {"one", "clean"} -> 1
          [] s = "notify" /\ outcome = "two" -> 2
          [] s = "fetch" /\ outcome \in {"fetch", "config"} -> 1
          [] OTHER -> 0]

ErrorsOf(outcome) ==
    [s \in Stage |->
        CASE s = "notify" /\ outcome = "one" -> 1
          [] s = "notify" /\ outcome = "two" -> 2
          [] s = "fetch" /\ outcome \in {"fetch", "config"} -> 1
          [] OTHER -> 0]

\* Mutant: record_success whenever the run comes to _finish.
FinishedIsClean(outcome) == outcome \in {"clean", "one", "two"}

\* record_success: no errors.
Clean(outcome) == outcome = "clean"

Exit(outcome) ==
    CASE outcome = "clean" -> Fine
      [] outcome = "config" -> Config
      [] OTHER -> Failure

Failed(outcome) ==
    failed' = IF outcome \in {"clean", "statement"} THEN failed ELSE 0

Started(j) ==
    /\ StartPod(j)
    /\ UNCHANGED <<sink, gateway, present, seen, clean, failed>>

\* The process is gone, and its registry with it.
Gone(j) == sink' = [sink EXCEPT ![j] = Fresh]

\* The work is done and recorded; `finally` is about to push. The exit code is
\* kept for PodEnds in the state of the Job.
Worked(j, outcome) ==
    /\ job[j].pc = "running"
    /\ Becomes(j, [job[j] EXCEPT !.pc = "flushing", !.exit = Exit(outcome)])
    /\ sink' = [sink EXCEPT ![j] =
                  [success |-> IF Clean(outcome) THEN 0 ELSE Old,
                   errors |-> ErrorsOf(outcome)]]
    /\ clean' = IF outcome = "clean" THEN 0 ELSE clean
    /\ Failed(outcome)
    /\ UNCHANGED <<phase, due, gateway, present, seen>>

\* push_to_gateway is a PUT: it replaces every metric of the group.
Push(registry) ==
    /\ gateway' = registry
    /\ present' = TRUE

\* A failed push is logged, and does not change the exit code.
Flush(j) ==
    /\ job[j].pc = "flushing"
    /\ PodEnds(j, job[j].exit)
    /\ \/ Push(sink[j])
       \/ "refused" \in Mishaps /\ UNCHANGED <<gateway, present>>
    /\ Gone(j)
    /\ UNCHANGED <<seen, clean, failed>>

\* Killed, or ended before the service was built: no settings, no database.
Killed(j) ==
    /\ "kill" \in Mishaps
    /\ \E code \in {Failure, Config} : PodEnds(j, code)
    /\ Gone(j)
    /\ UNCHANGED <<gateway, present, seen, clean, failed>>

\* Mutant: a dry run without errors is a success.
DryRunSucceeds ==
    /\ "dry_run" \in Mishaps
    /\ Push([Fresh EXCEPT !.success = 0])
    /\ UNCHANGED <<cronVars, sink, seen, clean, failed>>

\* A dry run fetches or fails to, records no success, and pushes.
DryRun ==
    /\ "dry_run" \in Mishaps
    /\ \E outcome \in Outcomes \ {"one", "two"} :
        /\ Push([Fresh EXCEPT !.errors = ErrorsOf(outcome)])
        /\ Failed(outcome)
    /\ UNCHANGED <<cronVars, sink, seen, clean>>

-----------------------------------------------------------------------------
(***************************************************************************)
(* The controller, the gateway and Prometheus.                             *)
(***************************************************************************)
Ended(j) ==
    /\ DeadlineExceeded(j)
    /\ Gone(j)
    /\ UNCHANGED <<gateway, present, seen, clean, failed>>

Created ==
    /\ \/ Schedule /\ UNCHANGED sink
       \/ Trigger /\ Gone("manual")
    /\ UNCHANGED <<gateway, present, seen, clean, failed>>

Restart ==
    /\ "restart" \in Mishaps
    /\ gateway' = Fresh
    /\ present' = FALSE
    /\ UNCHANGED <<cronVars, sink, seen, clean, failed>>

Aged(registry) == [registry EXCEPT !.success = Older(@, Old)]

Stale(registry) == present /\ registry.success > Threshold

\* increase() compares samples of one series: the first is no increase, a lower
\* one is a restart of the counter.
Increased(s) ==
    gateway.errors[s] # 0 /\ scraped[s] \notin {0, gateway.errors[s]}

\* A tick, then a scrape and an evaluation of both rules. When a series is gone
\* its last sample is in the window for a while.
Tick ==
    /\ CronTick
    /\ sink' = [j \in Job |-> Aged(sink[j])]
    /\ gateway' = Aged(gateway)
    /\ clean' = Older(clean, Old)
    /\ failed' = Older(failed, LongAgo)
    /\ staleFor' = IF Stale(gateway') THEN Older(staleFor, For + 1) ELSE 0
    /\ rise' = IF \E s \in Stage : Increased(s) THEN 0 ELSE Older(rise, Window)
    /\ \E kept \in SUBSET Stage :
        scraped' = [s \in Stage |->
                      IF gateway.errors[s] # 0 THEN gateway.errors[s]
                      ELSE IF s \in kept THEN scraped[s] ELSE 0]
    /\ UNCHANGED present

-----------------------------------------------------------------------------
Run(j) ==
    \/ Started(j)
    \/ \E outcome \in Outcomes : Worked(j, outcome)
    \/ Flush(j)
    \/ Killed(j)
    \/ Ended(j)

Next == Tick \/ Created \/ DryRun \/ Restart \/ \E j \in Job : Run(j)

Spec == Init /\ [][Next]_vars

\* Time goes on; the controller creates the scheduled Job before the starting
\* deadline now and then, starts pods and enforces the deadline. Nothing is
\* assumed of the pods: each may hang.
Fairness ==
    /\ WF_vars(Tick)
    /\ SF_vars(Schedule /\ Created)
    /\ SF_vars(Started("scheduled"))
    /\ \A j \in Job : WF_vars(Ended(j))

FairSpec == Spec /\ Fairness

-----------------------------------------------------------------------------
(***************************************************************************)
(* Properties.                                                             *)
(***************************************************************************)
StaleFiring == staleFor > For
ErrorsPending == rise < Window

\* The gateway never shows a success that is younger than the last one: neither
\* a partial failure, a dry run, a slow push nor a second pod makes a job look
\* alive.
TruthfulTimestamp ==
    present => gateway.success >= clean

\* "A job that quietly stops running": once no run is clean any more, and as
\* long as the gateway holds the group, DawatchStale fires in the end.
DeadJobNoticed ==
    []<>(~present \/ clean <= Threshold \/ StaleFiring)

\* DawatchErrors does not cry wolf: a run has recorded an error not long ago.
ErrorAlertMeansError ==
    ErrorsPending => failed <= Window + ActiveDeadline

\* A wedged run blocks the ones after it no longer than its deadline: scheduled
\* runs are started again and again, and each of them ends.
RunsAgain ==
    /\ []<>(job["scheduled"].pc = "running")
    /\ []<>(job["scheduled"].pc = "none")

\* The gauge is the time stamp of the last fully successful run: a later push
\* may raise it, but never takes it back to an older one, let alone to 0.
LastSuccessKept ==
    [][present /\ present' =>
          gateway'.success <= Older(gateway.success, Old)]_vars

\* A failing run that has pushed shows in the error alert.
ErrorsNoticed == gateway.errors # Fresh.errors ~> ErrorsPending

\* However the dead job came about, the staleness alert fires.
DeadJobAlwaysNoticed == []<>(clean <= Threshold \/ StaleFiring)
=============================================================================
