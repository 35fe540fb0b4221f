------------------------------ MODULE CronJob ------------------------------
(***************************************************************************)
(* The Job that the CronJob creates at each scheduled time and the one     *)
(* that `make trigger` creates beside it, with their pods: deadlines,      *)
(* retries, and exit codes.  What Kubernetes does with the manifest is     *)
(* modelled from its documented behaviour.                                 *)
(***************************************************************************)
EXTENDS Integers

CONSTANTS
    Period,            \* ticks between two scheduled times
    StartingDeadline,  \* startingDeadlineSeconds, in ticks
    ActiveDeadline,    \* activeDeadlineSeconds, in ticks
    BackoffLimit       \* backoffLimit

ASSUME PeriodAssumption == Period \in Nat \ {0}
ASSUME DeadlinesAssumption == StartingDeadline \in Nat /\ ActiveDeadline \in Nat
ASSUME BackoffAssumption == BackoffLimit \in Nat

VARIABLES
    phase,  \* ticks since the last scheduled time
    due,    \* has that scheduled time not been acted on yet?
    job

cronVars == <<phase, due, job>>

Job == {"scheduled", "manual"}

Fine == 0     \* EXIT_OK
Failure == 1  \* EXIT_FAILURE, a traceback, or a killed pod
Config == 2   \* EXIT_CONFIG
ExitCode == {Fine, Failure, Config}

JobState ==
    [pc : {"none",      \* no such Job, or it is complete or failed
           "pending",   \* it wants a pod
           "running",   \* its pod runs
           "flushing"}, \* its pod has done its work and is about to push
     age : 0..ActiveDeadline,
     failures : 0..BackoffLimit,
     exit : ExitCode]   \* of its last pod

NoJob == [pc |-> "none", age |-> 0, failures |-> 0, exit |-> Fine]

CronTypeOK ==
    /\ phase \in 0..(Period - 1)
    /\ due \in BOOLEAN
    /\ job \in [Job -> JobState]

CronInit == phase = 0 /\ due = TRUE /\ job = [j \in Job |-> NoJob]

-----------------------------------------------------------------------------
Becomes(j, s) == job' = [job EXCEPT ![j] = s]

Active(j) == job[j].pc # "none"
HasPod(j) == job[j].pc \in {"running", "flushing"}

\* Mutant: no activeDeadlineSeconds.
NeverOverdue(j) == FALSE

Overdue(j) == Active(j) /\ job[j].age >= ActiveDeadline

\* A scheduled time that passes while an older one is still due replaces it.
\* A Job that is past its deadline is ended before the clock goes on.
CronTick ==
    /\ \A j \in Job : ~Overdue(j)
    /\ phase' = (phase + 1) % Period
    /\ due' = (due \/ phase' = 0)
    /\ job' = [j \in Job |-> IF Active(j) /\ job[j].age < ActiveDeadline
                             THEN [job[j] EXCEPT !.age = @ + 1]
                             ELSE job[j]]

\* concurrencyPolicy: Forbid, and a scheduled time that was missed by more than
\* the starting deadline is skipped.
Schedule ==
    /\ due
    /\ phase <= StartingDeadline
    /\ ~Active("scheduled")
    /\ due' = FALSE
    /\ Becomes("scheduled", [NoJob EXCEPT !.pc = "pending"])
    /\ UNCHANGED phase

\* `make trigger` deletes the Job of the same name, with its pod, and creates
\* another. Forbid does not look at it.
Trigger ==
    /\ Becomes("manual", [NoJob EXCEPT !.pc = "pending"])
    /\ UNCHANGED <<phase, due>>

StartPod(j) ==
    /\ job[j].pc = "pending"
    /\ ~Overdue(j)
    /\ Becomes(j, [job[j] EXCEPT !.pc = "running"])
    /\ UNCHANGED <<phase, due>>

\* Mutant: one retry too many.
OneRetryMore(j, code) ==
    /\ HasPod(j)
    /\ Becomes(j, IF code = Fine \/ job[j].failures > BackoffLimit
                  THEN NoJob
                  ELSE [job[j] EXCEPT !.pc = "pending",
                                      !.failures = @ + 1,
                                      !.exit = code])
    /\ UNCHANGED <<phase, due>>

\* The process has exited, or was killed. There is no podFailurePolicy, so every
\* exit code but 0 counts against backoffLimit.
PodEnds(j, code) ==
    /\ HasPod(j)
    /\ Becomes(j, IF code = Fine \/ job[j].failures = BackoffLimit
                  THEN NoJob
                  ELSE [job[j] EXCEPT !.pc = "pending",
                                      !.failures = @ + 1,
                                      !.exit = code])
    /\ UNCHANGED <<phase, due>>

\* activeDeadlineSeconds ends the Job and kills its pod, without a retry.
DeadlineExceeded(j) ==
    /\ Overdue(j)
    /\ Becomes(j, NoJob)
    /\ UNCHANGED <<phase, due>>

-----------------------------------------------------------------------------
\* A Job is retried as long as that can help: exit 2 never succeeds on a retry.
NoRetryAfterConfigError ==
    \A j \in Job : job[j].pc = "pending" => job[j].exit # Config
=============================================================================
