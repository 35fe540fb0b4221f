------------------------- MODULE Monitoring_proofs -------------------------
(***************************************************************************)
(* Theorems about Monitoring for every schedule, every threshold and       *)
(* window of the alert rules, and every set of outcomes and mishaps.       *)
(***************************************************************************)
EXTENDS Monitoring, TLAPS

\* No registry shows a success younger than the last one.
NoneTooYoung ==
    /\ \A j \in Job : sink[j].success >= clean
    /\ present => gateway.success >= clean

\* Errors in the registry of a pod are as old as its Job at most; those that the
\* scrape has not seen were pushed by such a pod; and those that it has seen go
\* up were pushed since the scrape before.
ErrorsAreRecent ==
    /\ \A j \in Job, s \in Stage : sink[j].errors[s] # 0 =>
          job[j].pc = "flushing" /\ failed <= job[j].age
    /\ \A s \in Stage : gateway.errors[s] \notin {0, scraped[s]} =>
          failed <= ActiveDeadline
    /\ rise < Window => failed <= rise + ActiveDeadline + 1

IInv == TypeOK /\ NoneTooYoung /\ ErrorsAreRecent

-----------------------------------------------------------------------------
LEMMA Constants ==
    /\ Old \in Nat /\ Old = Threshold + 1
    /\ LongAgo \in Nat /\ LongAgo = Window + ActiveDeadline + 1
    /\ For + 1 \in Nat /\ Window \in Nat
    /\ ActiveDeadline \in Nat /\ BackoffLimit \in Nat /\ Period \in Nat \ {0}
BY PeriodAssumption, DeadlinesAssumption, BackoffAssumption, TimesAssumption
   DEF Old, LongAgo

LEMMA Ageing ==
    ASSUME NEW cap \in Nat, NEW n \in 0..cap
    PROVE  /\ Older(n, cap) \in 0..cap
           /\ Older(n, cap) <= n + 1
           /\ \A m \in 0..cap : m >= n => Older(m, cap) >= Older(n, cap)
           /\ n < cap => Older(n, cap) = n + 1
BY DEF Older

\* What a run counts.
LEMMA ErrorsOfOutcome ==
    ASSUME NEW outcome \in Outcome
    PROVE  /\ ErrorsOf(outcome) \in Errors
           /\ outcome \in {"clean", "statement"} =>
                \A s \in Stage : ErrorsOf(outcome)[s] = 0
BY DEF ErrorsOf, Errors, Stage, Outcome

LEMMA FreshRegistry ==
    /\ Fresh \in Registry /\ Fresh.success = Old
    /\ \A s \in Stage : Fresh.errors[s] = 0
BY Constants DEF Fresh, Registry, Errors

LEMMA JobTypes ==
    /\ NoJob \in JobState /\ [NoJob EXCEPT !.pc = "pending"] \in JobState
    /\ \A s \in JobState, pc \in {"none", "pending", "running", "flushing"} :
         [s EXCEPT !.pc = pc] \in JobState
    /\ \A s \in JobState, code \in ExitCode :
         [s EXCEPT !.pc = "flushing", !.exit = code] \in JobState
    /\ \A s \in JobState, code \in ExitCode, n \in 0..BackoffLimit :
         [s EXCEPT !.pc = "pending", !.failures = n, !.exit = code] \in JobState
<1>1. NoJob \in JobState
  BY Constants DEF NoJob, JobState, ExitCode
<1> QED
  BY <1>1 DEF JobState

\* One Job changes, and the other does not.
LEMMA JobStep ==
    ASSUME CronTypeOK, NEW j \in Job, NEW s \in JobState, Becomes(j, s)
    PROVE  /\ job' \in [Job -> JobState]
           /\ job'[j] = s
           /\ \A i \in Job \ {j} : job'[i] = job[i]
BY DEF CronTypeOK, Becomes

LEMMA PodEndsTypes ==
    ASSUME CronTypeOK, NEW j \in Job, NEW code \in ExitCode, PodEnds(j, code)
    PROVE  CronTypeOK' /\ \A i \in Job \ {j} : job'[i] = job[i]
<1>1. job[j] \in JobState /\ job[j].failures \in 0..BackoffLimit
  BY DEF CronTypeOK, JobState
<1>2. CASE code = Fine \/ job[j].failures = BackoffLimit
  <2>1. Becomes(j, NoJob)
    BY <1>2 DEF PodEnds
  <2> QED
    BY <2>1, JobTypes, JobStep DEF PodEnds, CronTypeOK
<1>3. CASE ~(code = Fine \/ job[j].failures = BackoffLimit)
  <2> DEFINE s == [job[j] EXCEPT !.pc = "pending", !.failures = @ + 1, !.exit = code]
  <2>1. Becomes(j, s)
    BY <1>3 DEF PodEnds
  <2>2. job[j].failures + 1 \in 0..BackoffLimit
    BY <1>1, <1>3, Constants
  <2>3. s \in JobState
    BY <1>1, <2>2, JobTypes
  <2> QED
    BY <2>1, <2>3, JobStep DEF PodEnds, CronTypeOK
<1> QED
  BY <1>2, <1>3

-----------------------------------------------------------------------------
LEMMA InitHolds == Init => IInv
<1> SUFFICES ASSUME Init PROVE IInv
  OBVIOUS
<1>1. CronTypeOK
  <2>1. phase = 0 /\ due = TRUE /\ job = [j \in Job |-> NoJob]
    BY DEF Init, CronInit
  <2>2. 0 \in 0..(Period - 1)
    BY Constants
  <2>3. job \in [Job -> JobState]
    BY <2>1, JobTypes
  <2> QED
    BY <2>1, <2>2, <2>3 DEF CronTypeOK
<1>2. TypeOK
  <2>1. sink \in [Job -> Registry] /\ gateway \in Registry
    BY FreshRegistry DEF Init
  <2>2. scraped \in Errors
    BY FreshRegistry DEF Init, Registry
  <2>3. /\ present = FALSE /\ rise = Window /\ staleFor = 0
        /\ clean = Old /\ failed = LongAgo
    BY DEF Init
  <2>4. /\ rise \in 0..Window /\ staleFor \in 0..(For + 1)
        /\ clean \in 0..Old /\ failed \in 0..LongAgo
    BY <2>3, Constants
  <2> QED
    BY <1>1, <2>1, <2>2, <2>3, <2>4 DEF TypeOK
<1>3. NoneTooYoung
  BY Constants, FreshRegistry DEF Init, NoneTooYoung
<1>4. ErrorsAreRecent
  <2>1. /\ sink = [j \in Job |-> Fresh] /\ gateway = Fresh
        /\ rise = Window
    BY DEF Init
  <2>2. \A j \in Job, s \in Stage : sink[j].errors[s] = 0
    BY <2>1, FreshRegistry
  <2>3. \A s \in Stage : gateway.errors[s] = 0
    BY <2>1, FreshRegistry
  <2>4. ~(rise < Window)
    BY <2>1, Constants
  <2> QED
    BY <2>2, <2>3, <2>4 DEF ErrorsAreRecent
<1> QED
  BY <1>2, <1>3, <1>4 DEF IInv

\* Time: every age grows by one at most, and the age of an active Job by one.
LEMMA TickKeeps == IInv /\ Tick => IInv'
<1> SUFFICES ASSUME IInv, Tick PROVE IInv'
  OBVIOUS
<1>1. /\ CronTypeOK
      /\ \A j \in Job : /\ job[j] \in JobState /\ sink[j] \in Registry
                        /\ job[j].age \in 0..ActiveDeadline
                        /\ sink[j].success \in 0..Old
                        /\ sink[j].errors \in Errors
      /\ gateway \in Registry /\ gateway.success \in 0..Old
      /\ gateway.errors \in Errors /\ scraped \in Errors
      /\ rise \in 0..Window /\ staleFor \in 0..(For + 1)
      /\ clean \in 0..Old /\ failed \in 0..LongAgo /\ present \in BOOLEAN
  BY DEF IInv, TypeOK, CronTypeOK, Registry, JobState
<1>2. /\ \A j \in Job : ~Overdue(j)
      /\ phase' = (phase + 1) % Period
      /\ due' = (due \/ phase' = 0)
      /\ job' = [j \in Job |-> IF Active(j) /\ job[j].age < ActiveDeadline
                               THEN [job[j] EXCEPT !.age = @ + 1]
                               ELSE job[j]]
  BY DEF Tick, CronTick
<1>3. /\ sink' = [j \in Job |-> Aged(sink[j])] /\ gateway' = Aged(gateway)
      /\ clean' = Older(clean, Old) /\ failed' = Older(failed, LongAgo)
      /\ present' = present
  BY DEF Tick
<1>4. CronTypeOK'
  <2>1. phase' \in 0..(Period - 1)
    BY <1>1, <1>2, Constants DEF CronTypeOK
  <2>2. job' \in [Job -> JobState]
    BY <1>1, <1>2, Constants DEF JobState
  <2>3. due' \in BOOLEAN
    BY <1>2
  <2> QED
    BY <2>1, <2>2, <2>3 DEF CronTypeOK
<1>5. \A r \in Registry : /\ Aged(r) \in Registry /\ Aged(r).errors = r.errors
                          /\ Aged(r).success = Older(r.success, Old)
  BY Constants, Ageing DEF Aged, Registry
<1>6. TypeOK'
  <2>1. sink' \in [Job -> Registry] /\ gateway' \in Registry
    BY <1>1, <1>3, <1>5
  <2>2. clean' \in 0..Old /\ failed' \in 0..LongAgo
    BY <1>1, <1>3, Constants, Ageing
  <2>3. staleFor' \in 0..(For + 1) /\ rise' \in 0..Window
    <3>1. Older(staleFor, For + 1) \in 0..(For + 1)
      BY <1>1, Constants DEF Older
    <3>2. Older(rise, Window) \in 0..Window
      BY <1>1, Constants DEF Older
    <3>3. staleFor' \in {0, Older(staleFor, For + 1)}
      BY DEF Tick
    <3>4. rise' \in {0, Older(rise, Window)}
      BY DEF Tick
    <3> QED
      BY <3>1, <3>2, <3>3, <3>4, Constants
  <2>4. scraped' \in Errors
    BY <1>1 DEF Tick, Errors
  <2> QED
    BY <1>1, <1>3, <1>4, <2>1, <2>2, <2>3, <2>4 DEF TypeOK
<1>7. NoneTooYoung'
  <2>1. \A n \in 0..Old : n >= clean => Older(n, Old) >= Older(clean, Old)
    BY <1>1, Constants DEF Older
  <2>2. ASSUME NEW j \in Job
        PROVE  sink'[j].success >= clean'
    <3>1. sink[j].success >= clean
      BY DEF IInv, NoneTooYoung
    <3>2. sink'[j].success = Older(sink[j].success, Old)
      BY <1>1, <1>3, <1>5
    <3> QED
      BY <1>1, <1>3, <2>1, <3>1, <3>2
  <2>3. present' => gateway'.success >= clean'
    <3>1. present => gateway.success >= clean
      BY DEF IInv, NoneTooYoung
    <3>2. gateway'.success = Older(gateway.success, Old)
      BY <1>1, <1>3, <1>5
    <3> QED
      BY <1>1, <1>3, <2>1, <3>1, <3>2
  <2> QED
    BY <2>2, <2>3 DEF NoneTooYoung
<1>8. failed' <= failed + 1 /\ failed' \in Nat /\ failed \in Nat
  BY <1>1, <1>3, Constants, Ageing
<1>9. ErrorsAreRecent'
  <2>1. ASSUME NEW j \in Job, NEW s \in Stage, sink'[j].errors[s] # 0
        PROVE  job'[j].pc = "flushing" /\ failed' <= job'[j].age
    <3>1. job[j].pc = "flushing" /\ failed <= job[j].age
      BY <1>1, <1>3, <1>5, <2>1 DEF IInv, ErrorsAreRecent
    <3>2. job[j].age < ActiveDeadline
      BY <1>1, <1>2, <3>1, Constants DEF Overdue, Active
    <3>3. job'[j] = [job[j] EXCEPT !.age = @ + 1]
      BY <1>2, <3>1, <3>2 DEF Active
    <3>4. job'[j].pc = "flushing" /\ job'[j].age = job[j].age + 1
      BY <1>1, <3>1, <3>3 DEF JobState
    <3> QED
      BY <1>1, <1>8, <3>1, <3>4, Constants
  <2>2. \A s \in Stage : gateway'.errors[s] \in {0, scraped'[s]}
    BY <1>1, <1>3, <1>5 DEF Tick
  <2>3. rise' < Window => failed' <= rise' + ActiveDeadline + 1
    <3>1. CASE \E s \in Stage : Increased(s)
      <4>1. rise' = 0
        BY <3>1 DEF Tick
      <4>2. failed <= ActiveDeadline
        BY <3>1 DEF Increased, IInv, ErrorsAreRecent
      <4> QED
        BY <1>8, <4>1, <4>2, Constants
    <3>2. CASE ~\E s \in Stage : Increased(s)
      <4>1. rise' = Older(rise, Window)
        BY <3>2 DEF Tick
      <4>2. CASE rise < Window
        BY <1>1, <1>8, <4>1, <4>2, Constants, Ageing DEF IInv, ErrorsAreRecent
      <4>3. CASE ~(rise < Window)
        BY <1>1, <4>1, <4>3, Constants DEF Older
      <4> QED
        BY <4>2, <4>3
    <3> QED
      BY <3>1, <3>2
  <2> QED
    BY <2>1, <2>2, <2>3 DEF ErrorsAreRecent
<1> QED
  BY <1>6, <1>7, <1>9 DEF IInv

-----------------------------------------------------------------------------
LEMMA TypeFacts ==
    ASSUME IInv
    PROVE  /\ CronTypeOK
           /\ \A j \in Job : /\ job[j] \in JobState /\ sink[j] \in Registry
                             /\ job[j].age \in 0..ActiveDeadline
                             /\ sink[j].success \in 0..Old
                             /\ sink[j].errors \in Errors
           /\ sink \in [Job -> Registry] /\ gateway \in Registry
           /\ gateway.success \in 0..Old /\ gateway.errors \in Errors
           /\ scraped \in Errors /\ rise \in 0..Window
           /\ staleFor \in 0..(For + 1) /\ present \in BOOLEAN
           /\ clean \in 0..Old /\ failed \in 0..LongAgo
BY DEF IInv, TypeOK, CronTypeOK, Registry, JobState

\* A step of one Job, in which its registry stays or is lost, and in which the
\* group may be replaced by one that fits what is recorded.
LEMMA PodStep ==
    ASSUME IInv, CronTypeOK', NEW j \in Job,
           \A i \in Job \ {j} : job'[i] = job[i],
           \/ Gone(j)
           \/ sink' = sink /\ job[j].pc # "flushing",
           UNCHANGED <<seen, clean, failed>>,
           gateway' \in Registry, present' \in BOOLEAN,
           present' => gateway'.success >= clean,
           \A s \in Stage : gateway'.errors[s] \notin {0, scraped[s]} =>
              failed <= ActiveDeadline
    PROVE  IInv'
<1>1. /\ scraped' = scraped /\ rise' = rise /\ staleFor' = staleFor
      /\ clean' = clean /\ failed' = failed
  BY DEF seen
<1>2. sink' \in [Job -> Registry] /\ \A i \in Job : sink'[i] \in {sink[i], Fresh}
  BY TypeFacts, FreshRegistry DEF Gone
<1>3. TypeOK'
  BY <1>1, <1>2, TypeFacts DEF TypeOK
<1>4. NoneTooYoung'
  <2>1. \A i \in Job : sink[i].success >= clean
    BY DEF IInv, NoneTooYoung
  <2>2. Fresh.success >= clean
    BY TypeFacts, FreshRegistry, Constants
  <2>3. \A i \in Job : sink'[i].success >= clean'
    BY <1>1, <1>2, <2>1, <2>2
  <2> QED
    BY <1>1, <2>3 DEF NoneTooYoung
<1>5. ErrorsAreRecent'
  <2>1. ASSUME NEW i \in Job, NEW s \in Stage, sink'[i].errors[s] # 0
        PROVE  job'[i].pc = "flushing" /\ failed' <= job'[i].age
    <3>1. sink'[i] # Fresh
      BY <2>1, FreshRegistry
    <3>2. sink'[i] = sink[i]
      BY <1>2, <3>1
    <3>3. job[i].pc = "flushing" /\ failed <= job[i].age
      BY <2>1, <3>2 DEF IInv, ErrorsAreRecent
    <3>4. i # j
      BY <3>1, <3>3, TypeFacts DEF Gone
    <3> QED
      BY <1>1, <3>3, <3>4
  <2>2. rise' < Window => failed' <= rise' + ActiveDeadline + 1
    BY <1>1 DEF IInv, ErrorsAreRecent
  <2>3. \A s \in Stage : gateway'.errors[s] \notin {0, scraped'[s]} =>
          failed' <= ActiveDeadline
    BY <1>1
  <2> QED
    BY <2>1, <2>2, <2>3 DEF ErrorsAreRecent
<1> QED
  BY <1>3, <1>4, <1>5 DEF IInv

\* The same, when the group is left alone.
LEMMA PodStepAlone ==
    ASSUME IInv, CronTypeOK', NEW j \in Job,
           \A i \in Job \ {j} : job'[i] = job[i],
           \/ Gone(j)
           \/ sink' = sink /\ job[j].pc # "flushing",
           UNCHANGED <<gateway, present, seen, clean, failed>>
    PROVE  IInv'
<1>1. gateway' = gateway /\ present' = present
  OBVIOUS
<1>2. UNCHANGED <<seen, clean, failed>>
  OBVIOUS
<1>3. gateway' \in Registry /\ present' \in BOOLEAN
  BY <1>1, TypeFacts
<1>4. present' => gateway'.success >= clean
  BY <1>1 DEF IInv, NoneTooYoung
<1>5. \A s \in Stage : gateway'.errors[s] \notin {0, scraped[s]} =>
        failed <= ActiveDeadline
  BY <1>1 DEF IInv, ErrorsAreRecent
<1> QED
  BY <1>2, <1>3, <1>4, <1>5, PodStep

LEMMA StartedKeeps ==
    ASSUME IInv, NEW j \in Job, Started(j)
    PROVE  IInv'
<1>1. job[j].pc = "pending" /\ Becomes(j, [job[j] EXCEPT !.pc = "running"])
  BY DEF Started, StartPod
<1>2. [job[j] EXCEPT !.pc = "running"] \in JobState
  BY TypeFacts, JobTypes
<1>3. CronTypeOK' /\ \A i \in Job \ {j} : job'[i] = job[i]
  BY <1>1, <1>2, TypeFacts, JobStep DEF Started, StartPod, CronTypeOK
<1> QED
  BY <1>1, <1>3, PodStepAlone DEF Started

LEMMA KilledKeeps ==
    ASSUME IInv, NEW j \in Job, Killed(j)
    PROVE  IInv'
<1>1. PICK code \in {Failure, Config} : PodEnds(j, code)
  BY DEF Killed
<1>2. code \in ExitCode
  BY DEF ExitCode
<1>3. CronTypeOK' /\ \A i \in Job \ {j} : job'[i] = job[i]
  BY <1>1, <1>2, TypeFacts, PodEndsTypes
<1> QED
  BY <1>3, PodStepAlone DEF Killed

LEMMA EndedKeeps ==
    ASSUME IInv, NEW j \in Job, Ended(j)
    PROVE  IInv'
<1>1. Becomes(j, NoJob) /\ UNCHANGED <<phase, due>>
  BY DEF Ended, DeadlineExceeded
<1>2. CronTypeOK' /\ \A i \in Job \ {j} : job'[i] = job[i]
  BY <1>1, TypeFacts, JobTypes, JobStep DEF CronTypeOK
<1> QED
  BY <1>2, PodStepAlone DEF Ended

LEMMA CreatedKeeps == IInv /\ Created => IInv'
<1> SUFFICES ASSUME IInv, Created PROVE IInv'
  OBVIOUS
<1> DEFINE s == [NoJob EXCEPT !.pc = "pending"]
<1>1. s \in JobState
  BY JobTypes
<1>2. CASE Schedule /\ sink' = sink
  <2>1. "scheduled" \in Job /\ job["scheduled"].pc # "flushing"
    BY <1>2 DEF Schedule, Active, Job
  <2>2. Becomes("scheduled", s) /\ due' = FALSE /\ phase' = phase
    BY <1>2 DEF Schedule
  <2>3. CronTypeOK' /\ \A i \in Job \ {"scheduled"} : job'[i] = job[i]
    BY <1>1, <2>1, <2>2, TypeFacts, JobStep DEF CronTypeOK
  <2> QED
    BY <1>2, <2>1, <2>3, PodStepAlone DEF Created
<1>3. CASE Trigger /\ Gone("manual")
  <2>1. "manual" \in Job
    BY DEF Job
  <2>2. Becomes("manual", s) /\ due' = due /\ phase' = phase
    BY <1>3 DEF Trigger
  <2>3. CronTypeOK' /\ \A i \in Job \ {"manual"} : job'[i] = job[i]
    BY <1>1, <2>1, <2>2, TypeFacts, JobStep DEF CronTypeOK
  <2> QED
    BY <1>3, <2>1, <2>3, PodStepAlone DEF Created
<1> QED
  BY <1>2, <1>3 DEF Created

\* What is pushed is what the pod has recorded.
LEMMA FlushKeeps ==
    ASSUME IInv, NEW j \in Job, Flush(j)
    PROVE  IInv'
<1>1. job[j].exit \in ExitCode
  BY TypeFacts DEF JobState
<1>2. CronTypeOK' /\ \A i \in Job \ {j} : job'[i] = job[i]
  BY <1>1, TypeFacts, PodEndsTypes DEF Flush
<1>3. Gone(j) /\ UNCHANGED <<seen, clean, failed>>
  BY DEF Flush
<1>4. CASE Push(sink[j])
  <2>1. gateway' = sink[j] /\ present' = TRUE
    BY <1>4 DEF Push
  <2>2. gateway'.success >= clean
    BY <2>1 DEF IInv, NoneTooYoung
  <2>3. ASSUME NEW s \in Stage, gateway'.errors[s] \notin {0, scraped[s]}
        PROVE  failed <= ActiveDeadline
    <3>1. failed <= job[j].age
      BY <2>1, <2>3 DEF IInv, ErrorsAreRecent
    <3> QED
      BY <3>1, TypeFacts, Constants
  <2>4. gateway' \in Registry /\ present' \in BOOLEAN
    BY <2>1, TypeFacts
  <2> QED
    BY <1>2, <1>3, <2>2, <2>3, <2>4, PodStep
<1>5. CASE UNCHANGED <<gateway, present>>
  BY <1>2, <1>3, <1>5, PodStepAlone
<1> QED
  BY <1>4, <1>5 DEF Flush

-----------------------------------------------------------------------------
\* An error that is counted is recorded.
LEMMA FailedFits ==
    ASSUME IInv, NEW outcome \in Outcomes, Failed(outcome)
    PROVE  /\ failed' \in 0..LongAgo /\ failed' <= failed
           /\ \A s \in Stage : ErrorsOf(outcome)[s] # 0 => failed' = 0
           /\ ErrorsOf(outcome) \in Errors
<1>1. outcome \in Outcome
  BY OutcomesAssumption
<1>2. failed' \in 0..LongAgo /\ failed' <= failed
  BY TypeFacts, Constants DEF Failed
<1>3. ASSUME NEW s \in Stage, ErrorsOf(outcome)[s] # 0
      PROVE  failed' = 0
  BY <1>1, <1>3, ErrorsOfOutcome DEF Failed
<1> QED
  BY <1>1, <1>2, <1>3, ErrorsOfOutcome

LEMMA WorkedKeeps ==
    ASSUME IInv, NEW j \in Job, NEW outcome \in Outcomes, Worked(j, outcome)
    PROVE  IInv'
<1> DEFINE s == [job[j] EXCEPT !.pc = "flushing", !.exit = Exit(outcome)]
           r == [success |-> IF Clean(outcome) THEN 0 ELSE Old,
                 errors |-> ErrorsOf(outcome)]
<1>1. /\ Becomes(j, s) /\ sink' = [sink EXCEPT ![j] = r]
      /\ clean' = IF outcome = "clean" THEN 0 ELSE clean
      /\ Failed(outcome)
      /\ UNCHANGED <<phase, due, gateway, present>>
      /\ scraped' = scraped /\ rise' = rise /\ staleFor' = staleFor
  BY DEF Worked, seen
<1>2. s \in JobState /\ s.pc = "flushing" /\ s.age = job[j].age
  <2>1. Exit(outcome) \in ExitCode
    BY DEF Exit, ExitCode
  <2>2. s \in JobState
    BY <2>1, TypeFacts, JobTypes
  <2> QED
    BY <2>2, TypeFacts DEF JobState
<1>3. CronTypeOK' /\ job'[j] = s /\ \A i \in Job \ {j} : job'[i] = job[i]
  <2> HIDE DEF s
  <2> QED
    BY <1>1, <1>2, TypeFacts, JobStep DEF CronTypeOK
<1>4. r \in Registry /\ r.errors = ErrorsOf(outcome)
  BY <1>1, FailedFits, Constants DEF Registry
<1>5. r.success >= clean' /\ clean' \in 0..Old /\ clean' <= clean
  BY <1>1, TypeFacts, Constants DEF Clean
<1> HIDE DEF s, r
<1>6. /\ sink' \in [Job -> Registry] /\ sink'[j] = r
      /\ \A i \in Job \ {j} : sink'[i] = sink[i]
  BY <1>1, <1>4, TypeFacts
<1>7. failed' \in 0..LongAgo /\ failed' <= failed
  BY <1>1, FailedFits
<1>8. TypeOK'
  BY <1>1, <1>3, <1>5, <1>6, <1>7, TypeFacts DEF TypeOK
<1>9. NoneTooYoung'
  <2>1. \A i \in Job \ {j} : sink'[i].success >= clean'
    <3>1. \A i \in Job : sink[i].success >= clean
      BY DEF IInv, NoneTooYoung
    <3> QED
      BY <1>5, <1>6, <3>1, TypeFacts, Constants
  <2>2. present' => gateway'.success >= clean'
    <3>1. present => gateway.success >= clean
      BY DEF IInv, NoneTooYoung
    <3> QED
      BY <1>1, <1>5, <3>1, TypeFacts, Constants
  <2> QED
    BY <1>5, <1>6, <2>1, <2>2 DEF NoneTooYoung
<1>10. ErrorsAreRecent'
  <2>1. ASSUME NEW i \in Job, NEW t \in Stage, sink'[i].errors[t] # 0
        PROVE  job'[i].pc = "flushing" /\ failed' <= job'[i].age
    <3>1. CASE i = j
      <4>1. failed' = 0
        BY <1>1, <1>4, <1>6, <2>1, <3>1, FailedFits
      <4> QED
        BY <1>2, <1>3, <3>1, <4>1, TypeFacts, Constants
    <3>2. CASE i # j
      <4>1. job[i].pc = "flushing" /\ failed <= job[i].age
        BY <1>6, <2>1, <3>2 DEF IInv, ErrorsAreRecent
      <4> QED
        BY <1>3, <1>7, <3>2, <4>1, TypeFacts, Constants
    <3> QED
      BY <3>1, <3>2
  <2>2. ASSUME NEW t \in Stage, gateway'.errors[t] \notin {0, scraped'[t]}
        PROVE  failed' <= ActiveDeadline
    <3>1. failed <= ActiveDeadline
      BY <1>1, <2>2 DEF IInv, ErrorsAreRecent
    <3> QED
      BY <1>7, <3>1, TypeFacts, Constants
  <2>3. rise' < Window => failed' <= rise' + ActiveDeadline + 1
    <3>1. rise < Window => failed <= rise + ActiveDeadline + 1
      BY DEF IInv, ErrorsAreRecent
    <3> QED
      BY <1>1, <1>7, <3>1, TypeFacts, Constants
  <2> QED
    BY <2>1, <2>2, <2>3 DEF ErrorsAreRecent
<1> QED
  BY <1>8, <1>9, <1>10 DEF IInv

LEMMA GatewayStep ==
    ASSUME IInv, UNCHANGED <<cronVars, sink, seen, clean>>,
           NEW r \in Registry, gateway' = r, r.success = Old, present' \in BOOLEAN,
           failed' \in 0..LongAgo, failed' <= failed,
           \A s \in Stage : r.errors[s] # 0 => failed' = 0
    PROVE  IInv'
<1>1. /\ job' = job /\ phase' = phase /\ due' = due /\ sink' = sink
      /\ scraped' = scraped /\ rise' = rise /\ staleFor' = staleFor
      /\ clean' = clean
  BY DEF cronVars, seen
<1>2. TypeOK'
  BY <1>1, TypeFacts DEF TypeOK, CronTypeOK
<1>3. NoneTooYoung'
  BY <1>1, TypeFacts, Constants DEF IInv, NoneTooYoung
<1>4. ErrorsAreRecent'
  <2>1. ASSUME NEW i \in Job, NEW t \in Stage, sink'[i].errors[t] # 0
        PROVE  job'[i].pc = "flushing" /\ failed' <= job'[i].age
    <3>1. job[i].pc = "flushing" /\ failed <= job[i].age
      BY <1>1, <2>1 DEF IInv, ErrorsAreRecent
    <3> QED
      BY <1>1, <3>1, TypeFacts, Constants
  <2>2. \A t \in Stage : gateway'.errors[t] \notin {0, scraped'[t]} =>
          failed' <= ActiveDeadline
    BY Constants
  <2>3. rise' < Window => failed' <= rise' + ActiveDeadline + 1
    <3>1. rise < Window => failed <= rise + ActiveDeadline + 1
      BY DEF IInv, ErrorsAreRecent
    <3> QED
      BY <1>1, <3>1, TypeFacts, Constants
  <2> QED
    BY <2>1, <2>2, <2>3 DEF ErrorsAreRecent
<1> QED
  BY <1>2, <1>3, <1>4 DEF IInv

LEMMA DryRunKeeps == IInv /\ DryRun => IInv'
<1> SUFFICES ASSUME IInv, DryRun PROVE IInv'
  OBVIOUS
<1>1. PICK outcome \in Outcomes :
        Push([Fresh EXCEPT !.errors = ErrorsOf(outcome)]) /\ Failed(outcome)
  BY DEF DryRun
<1> DEFINE r == [Fresh EXCEPT !.errors = ErrorsOf(outcome)]
<1>2. r \in Registry /\ r.success = Old /\ r.errors = ErrorsOf(outcome)
  BY <1>1, FailedFits, Constants DEF Fresh, Registry
<1>3. gateway' = r /\ present' = TRUE
  BY <1>1 DEF Push
<1>4. UNCHANGED <<cronVars, sink, seen, clean>>
  BY DEF DryRun
<1>5. /\ failed' \in 0..LongAgo /\ failed' <= failed
      /\ \A s \in Stage : ErrorsOf(outcome)[s] # 0 => failed' = 0
  BY <1>1, FailedFits
<1> HIDE DEF r
<1> QED
  BY <1>2, <1>3, <1>4, <1>5, GatewayStep

LEMMA RestartKeeps == IInv /\ Restart => IInv'
<1> SUFFICES ASSUME IInv, Restart PROVE IInv'
  OBVIOUS
<1>1. /\ gateway' = Fresh /\ present' = FALSE /\ failed' = failed
      /\ UNCHANGED <<cronVars, sink, seen, clean>>
  BY DEF Restart
<1>2. failed' \in 0..LongAgo /\ failed' <= failed
  BY <1>1, TypeFacts, Constants
<1> QED
  BY <1>1, <1>2, FreshRegistry, GatewayStep

LEMMA StepHolds == IInv /\ [Next]_vars => IInv'
<1> SUFFICES ASSUME IInv, [Next]_vars PROVE IInv'
  OBVIOUS
<1>1. CASE Tick
  BY <1>1, TickKeeps
<1>2. CASE Created
  BY <1>2, CreatedKeeps
<1>3. CASE DryRun
  BY <1>3, DryRunKeeps
<1>4. CASE Restart
  BY <1>4, RestartKeeps
<1>5. ASSUME NEW j \in Job, Run(j)
      PROVE  IInv'
  <2>1. CASE Started(j)
    BY <2>1, StartedKeeps
  <2>2. CASE \E outcome \in Outcomes : Worked(j, outcome)
    BY <2>2, WorkedKeeps
  <2>3. CASE Flush(j)
    BY <2>3, FlushKeeps
  <2>4. CASE Killed(j)
    BY <2>4, KilledKeeps
  <2>5. CASE Ended(j)
    BY <2>5, EndedKeeps
  <2> QED
    BY <1>5, <2>1, <2>2, <2>3, <2>4, <2>5 DEF Run
<1>6. CASE UNCHANGED vars
  BY <1>6 DEF vars, cronVars, seen, IInv, TypeOK, CronTypeOK, NoneTooYoung,
              ErrorsAreRecent
<1> QED
  BY <1>1, <1>2, <1>3, <1>4, <1>5, <1>6 DEF Next

LEMMA Invariant == Spec => []IInv
BY InitHolds, StepHolds, PTL DEF Spec

-----------------------------------------------------------------------------
\* The state keeps its shape: no retry count passes backoffLimit and no Job
\* outgrows its deadline (cronjob.yaml).
THEOREM MonitoringTypes == Spec => []TypeOK
<1>1. IInv => TypeOK
  BY DEF IInv
<1> QED
  BY <1>1, Invariant, PTL

\* The time stamp that DawatchStale looks at is never younger than the last
\* clean run (metrics.py, record_success and flush).
THEOREM TimestampIsTruthful == Spec => []TruthfulTimestamp
<1>1. IInv => TruthfulTimestamp
  BY DEF IInv, NoneTooYoung, TruthfulTimestamp
<1> QED
  BY <1>1, Invariant, PTL

\* DawatchErrors is pending only when a run has recorded an error not long ago,
\* whatever the pods, the pushes and the gateway went through.
THEOREM ErrorAlertIsEarned == Spec => []ErrorAlertMeansError
<1>1. IInv => ErrorAlertMeansError
  BY TypeFacts, Constants DEF IInv, ErrorsAreRecent, ErrorAlertMeansError, ErrorsPending
<1> QED
  BY <1>1, Invariant, PTL
=============================================================================
