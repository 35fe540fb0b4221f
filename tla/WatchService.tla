---------------------------- MODULE WatchService ----------------------------
(***************************************************************************)
(* One `dawatch run` or `dawatch seed` as it goes through                  *)
(* WatchedDeviationsSource.fetch, WatchService.run and the table           *)
(* seen_deviations, while artists keep posting.                            *)
(*                                                                         *)
(* Deviations are numbered in the order they are posted, so the watch feed *)
(* is  posted, posted - 1, ..., 1  (newest first) and the row at offset o  *)
(* is  posted - o.  A new post shifts every offset by one.                 *)
(***************************************************************************)
EXTENDS Integers, Sequences

CONSTANTS
    Proc,       \* processes that may hold the database at the same time
    Commands,   \* what is invoked: a subset of Command
    Faults,     \* what may go wrong: a subset of Fault
    MaxPosts,   \* bound: deviations ever posted
    Backlogs,   \* how many deviations the feed may hold before the first run
    Malformed,  \* deviations whose row fails validation
    PageSize,   \* PAGE_SIZE
    MaxPages    \* MAX_PAGES

Command == {"run", "no_seed", "dry_run", "seed"}

Fault == {"fetch",   \* a page request ends in FetchError, AuthError, ConfigError
          "notify",  \* ntfy refuses a message or cannot be reached: NotifyError
          "ack",     \* ntfy delivers the message, its answer is lost: NotifyError
          "store",   \* a statement fails: StoreError
          "crash"}   \* the process is killed (activeDeadlineSeconds, eviction)

ASSUME CommandsAssumption == Commands \subseteq Command
ASSUME FaultsAssumption == Faults \subseteq Fault
ASSUME MaxPostsAssumption == MaxPosts \in Nat
ASSUME BacklogsAssumption == Backlogs \subseteq 0..MaxPosts
ASSUME PageSizeAssumption == PageSize \in Nat \ {0}
ASSUME MaxPagesAssumption == MaxPages \in Nat \ {0}

Deviation == 1..MaxPosts

VARIABLES
    posted,       \* how many deviations the watched artists have posted
    row,          \* seen_deviations: no row, a row with notified_at NULL, or set
    run,          \* the locals of each process
    \* What the rest of the world observes.
    backlog,      \* how many were posted before the deployment
    delivered,    \* deviations pushed to the phone
    redelivered,  \* deviations pushed more than once
    baseline,     \* posts before a run recorded success for the first time, or
                  \* Never
    covered       \* posts before the start of the last run that recorded
                  \* success, or Never

shared == <<posted, row, backlog, delivered, redelivered, baseline, covered>>
vars == <<posted, row, run, backlog, delivered, redelivered, baseline, covered>>

Never == -1

PC == {"idle",
       "page",     \* about to request the page at offset
       "rows",     \* in the loop over raw_results
       "fetched",  \* fetch() has returned
       "filter",   \* in the comprehension that builds `new`
       "seed",     \* in a loop of mark_seen(notified=False)
       "report",   \* dry run: in the loop that logs run.would_notify
       "notify",   \* in _notify_all, about to send new[i]
       "mark"}     \* new[i] is sent, about to be marked

RunState ==
    [pc : PC, cmd : Command, started : 0..MaxPosts,
     offset : Nat, pages_read : 0..MaxPages, has_more : BOOLEAN,
     raw_results : Seq(Deviation), collected : Seq(Deviation),
     new : Seq(Deviation), i : Nat \ {0}, seeding : BOOLEAN, errors : BOOLEAN]

NoRun ==
    [pc |-> "idle", cmd |-> "run", started |-> 0,
     offset |-> 0, pages_read |-> 0, has_more |-> FALSE,
     raw_results |-> <<>>, collected |-> <<>>,
     new |-> <<>>, i |-> 1, seeding |-> FALSE, errors |-> FALSE]

\* The types, and the page cap: however fast artists post and whatever has_more
\* says, a fetch requests no page after the last one.
TypeOK ==
    /\ posted \in 0..MaxPosts
    /\ row \in [Deviation -> {"none", "seeded", "notified"}]
    /\ run \in [Proc -> RunState]
    /\ \A p \in Proc : run[p].pc = "page" => run[p].pages_read < MaxPages
    /\ backlog \in 0..posted
    /\ delivered \in SUBSET Deviation
    /\ redelivered \in SUBSET Deviation
    /\ baseline \in {Never} \cup 0..MaxPosts
    /\ covered \in {Never} \cup 0..MaxPosts

Init ==
    /\ backlog \in Backlogs
    /\ posted = backlog
    /\ row = [d \in Deviation |-> "none"]
    /\ run = [p \in Proc |-> NoRun]
    /\ delivered = {}
    /\ redelivered = {}
    /\ baseline = Never
    /\ covered = Never

-----------------------------------------------------------------------------
(***************************************************************************)
(* The seen store.                                                         *)
(***************************************************************************)
HasSeen(d) == row[d] # "none"

\* Mutant: the store is empty as long as nothing was notified.
NothingNotified == \A d \in Deviation : row[d] # "notified"

IsEmpty == \A d \in Deviation : ~HasSeen(d)

\* Mutant: UPDATE where the code has INSERT ... ON CONFLICT DO UPDATE.
UpdateSeen(d, notified) ==
    row' = IF ~HasSeen(d) THEN row
           ELSE [row EXCEPT ![d] = IF notified THEN "notified" ELSE "seeded"]

\* The upsert overwrites notified_at whatever it was.
MarkSeen(d, notified) ==
    row' = [row EXCEPT ![d] = IF notified THEN "notified" ELSE "seeded"]

-----------------------------------------------------------------------------
(***************************************************************************)
(* The feed.                                                               *)
(***************************************************************************)
\* An artist posts. Nothing in the code is told.
Post ==
    /\ posted < MaxPosts
    /\ posted' = posted + 1
    /\ UNCHANGED <<row, run, backlog, delivered, redelivered, baseline, covered>>

PageLength(offset) ==
    IF posted - offset < PageSize THEN posted - offset ELSE PageSize

Page(offset) ==
    [k \in 1..PageLength(offset) |-> posted - offset - k + 1]

-----------------------------------------------------------------------------
(***************************************************************************)
(* One run.                                                                *)
(***************************************************************************)
Become(p, r) == run' = [run EXCEPT ![p] = r]

Start(p, c) ==
    /\ run[p].pc = "idle"
    /\ Become(p, [NoRun EXCEPT !.pc = "page", !.cmd = c, !.started = posted])
    /\ UNCHANGED shared

\* get_json answers with the page as the feed is now.
RequestPage(p) ==
    /\ run[p].pc = "page"
    /\ Become(p, [run[p] EXCEPT
                    !.pc = "rows",
                    !.pages_read = @ + 1,
                    !.raw_results = Page(run[p].offset),
                    !.has_more = run[p].offset + PageSize < posted,
                    !.i = 1])
    /\ UNCHANGED shared

MoreRows(p) == run[p].i <= Len(run[p].raw_results)

FetchReturns(r) ==
    [r EXCEPT !.pc = "fetched", !.offset = 0, !.pages_read = 0,
              !.has_more = FALSE, !.raw_results = <<>>, !.i = 1]

\* Mutant: an unusable row ends the loop.
BreakAtMalformed(p) ==
    /\ run[p].pc = "rows"
    /\ MoreRows(p)
    /\ LET d == run[p].raw_results[run[p].i] IN
       IF d \in Malformed \/ HasSeen(d)
       THEN Become(p, FetchReturns(run[p]))
       ELSE Become(p, [run[p] EXCEPT !.i = @ + 1, !.collected = Append(@, d)])
    /\ UNCHANGED shared

ExamineRow(p) ==
    /\ run[p].pc = "rows"
    /\ MoreRows(p)
    /\ LET d == run[p].raw_results[run[p].i] IN
       \/ /\ d \in Malformed
          /\ Become(p, [run[p] EXCEPT !.i = @ + 1])
       \/ /\ d \notin Malformed
          /\ HasSeen(d)
          /\ Become(p, FetchReturns(run[p]))
       \/ /\ d \notin Malformed
          /\ ~HasSeen(d)
          /\ Become(p, [run[p] EXCEPT !.i = @ + 1,
                                      !.collected = Append(@, d)])
    /\ UNCHANGED shared

\* Mutant: the cap lets one page more through.
LastPageOffByOne(r) == ~r.has_more \/ r.pages_read > MaxPages

LastPage(r) == ~r.has_more \/ r.pages_read >= MaxPages

\* Mutant: the next offset skips one row.
EndOfPageOffByOne(p) ==
    /\ run[p].pc = "rows"
    /\ ~MoreRows(p)
    /\ Become(p, IF LastPage(run[p])
                 THEN FetchReturns(run[p])
                 ELSE [run[p] EXCEPT
                         !.pc = "page",
                         !.offset = @ + Len(run[p].raw_results) + 1])
    /\ UNCHANGED shared

EndOfPage(p) ==
    /\ run[p].pc = "rows"
    /\ ~MoreRows(p)
    /\ Become(p, IF LastPage(run[p])
                 THEN FetchReturns(run[p])
                 ELSE [run[p] EXCEPT
                         !.pc = "page",
                         !.offset = @ + Len(run[p].raw_results)])
    /\ UNCHANGED shared

\* `dawatch seed` marks what it fetched; a run decides whether it is seeding.
UseFetched(p) ==
    /\ run[p].pc = "fetched"
    /\ IF run[p].cmd = "seed"
       THEN Become(p, [run[p] EXCEPT !.pc = "seed", !.new = run[p].collected])
       ELSE Become(p, [run[p] EXCEPT !.pc = "filter",
                                     !.seeding = run[p].cmd = "run" /\ IsEmpty])
    /\ UNCHANGED shared

Filter(p) ==
    /\ run[p].pc = "filter"
    /\ run[p].i <= Len(run[p].collected)
    /\ LET d == run[p].collected[run[p].i] IN
       Become(p, [run[p] EXCEPT
                    !.i = @ + 1,
                    !.new = IF HasSeen(d) THEN @ ELSE Append(@, d)])
    /\ UNCHANGED shared

Dispatch(p) ==
    /\ run[p].pc = "filter"
    /\ run[p].i > Len(run[p].collected)
    /\ Become(p, [run[p] EXCEPT
                    !.pc = IF run[p].seeding THEN "seed"
                           ELSE IF run[p].cmd = "dry_run" THEN "report"
                           ELSE "notify",
                    !.i = 1])
    /\ UNCHANGED shared

MoreNew(p) == run[p].i <= Len(run[p].new)

\* Mutant: the oldest deviation is seeded first.
SeedOldestFirst(p) ==
    /\ run[p].pc = "seed"
    /\ MoreNew(p)
    /\ MarkSeen(run[p].new[Len(run[p].new) + 1 - run[p].i], FALSE)
    /\ Become(p, [run[p] EXCEPT !.i = @ + 1])
    /\ UNCHANGED <<posted, backlog, delivered, redelivered, baseline, covered>>

SeedOne(p) ==
    /\ run[p].pc = "seed"
    /\ MoreNew(p)
    /\ MarkSeen(run[p].new[run[p].i], FALSE)
    /\ Become(p, [run[p] EXCEPT !.i = @ + 1])
    /\ UNCHANGED <<posted, backlog, delivered, redelivered, baseline, covered>>

Deliver(d) ==
    /\ delivered' = delivered \cup {d}
    /\ redelivered' = IF d \in delivered THEN redelivered \cup {d}
                                         ELSE redelivered

Send(p) ==
    /\ run[p].pc = "notify"
    /\ MoreNew(p)
    /\ Deliver(run[p].new[run[p].i])
    /\ Become(p, [run[p] EXCEPT !.pc = "mark"])
    /\ UNCHANGED <<posted, row, backlog, baseline, covered>>

\* Mutant: NotifyError is logged, and the loop body goes on to mark_seen.
SendFailsThenMarks(p) ==
    /\ run[p].pc = "notify"
    /\ MoreNew(p)
    /\ "notify" \in Faults
    /\ Become(p, [run[p] EXCEPT !.pc = "mark", !.errors = TRUE])
    /\ UNCHANGED shared

\* Mutant: NotifyError is not counted.
SendFailsUncounted(p) ==
    /\ run[p].pc = "notify"
    /\ MoreNew(p)
    /\ "notify" \in Faults
    /\ Become(p, [run[p] EXCEPT !.i = @ + 1])
    /\ UNCHANGED shared

\* NotifyError is counted and the loop goes on. A lost answer is a NotifyError
\* too, and the message has arrived.
SendFails(p) ==
    /\ run[p].pc = "notify"
    /\ MoreNew(p)
    /\ Become(p, [run[p] EXCEPT !.i = @ + 1, !.errors = TRUE])
    /\ \/ /\ "notify" \in Faults
          /\ UNCHANGED <<delivered, redelivered>>
       \/ /\ "ack" \in Faults
          /\ Deliver(run[p].new[run[p].i])
    /\ UNCHANGED <<posted, row, backlog, baseline, covered>>

Mark(p) ==
    /\ run[p].pc = "mark"
    /\ MarkSeen(run[p].new[run[p].i], TRUE)
    /\ Become(p, [run[p] EXCEPT !.pc = "notify", !.i = @ + 1])
    /\ UNCHANGED <<posted, backlog, delivered, redelivered, baseline, covered>>

LoopDone(p) ==
    \/ run[p].pc \in {"seed", "notify"} /\ ~MoreNew(p)
    \/ run[p].pc = "report"

\* Mutant: record_success does not look at the error count.
RecordsAnyRun(p) == LoopDone(p) /\ run[p].cmd \in {"run", "no_seed"}

\* Only a clean run that is not dry resets the staleness clock; `dawatch seed`
\* never touches the metrics.
RecordsSuccess(p) ==
    /\ LoopDone(p)
    /\ run[p].cmd \in {"run", "no_seed"}
    /\ ~run[p].errors

Finish(p) ==
    /\ LoopDone(p)
    /\ IF RecordsSuccess(p)
       THEN /\ covered' = run[p].started
            /\ baseline' = IF baseline = Never THEN posted ELSE baseline
       ELSE UNCHANGED <<baseline, covered>>
    /\ Become(p, NoRun)
    /\ UNCHANGED <<posted, row, backlog, delivered, redelivered>>

-----------------------------------------------------------------------------
(***************************************************************************)
(* What ends a run early. The locals are gone; the table stays.            *)
(***************************************************************************)
Abort(p) == Become(p, NoRun) /\ UNCHANGED shared

\* Mutant: a failed page request ends the fetch with what there is so far.
FetchFailsPartially(p) ==
    /\ "fetch" \in Faults
    /\ run[p].pc = "page"
    /\ Become(p, FetchReturns(run[p]))
    /\ UNCHANGED shared

FetchFails(p) ==
    /\ "fetch" \in Faults
    /\ run[p].pc = "page"
    /\ Abort(p)

\* The next thing process p does is a statement on the database.
AtStatement(p) ==
    \/ run[p].pc = "rows" /\ MoreRows(p)
                          /\ run[p].raw_results[run[p].i] \notin Malformed
    \/ run[p].pc = "fetched" /\ run[p].cmd = "run"
    \/ run[p].pc = "filter" /\ run[p].i <= Len(run[p].collected)
    \/ run[p].pc = "seed" /\ MoreNew(p)
    \/ run[p].pc = "mark"

StoreFails(p) ==
    /\ "store" \in Faults
    /\ AtStatement(p)
    /\ Abort(p)

Crash(p) ==
    /\ "crash" \in Faults
    /\ run[p].pc # "idle"
    /\ Abort(p)

-----------------------------------------------------------------------------
Fetch(p) == RequestPage(p) \/ ExamineRow(p) \/ EndOfPage(p)

Handle(p) ==
    \/ UseFetched(p) \/ Filter(p) \/ Dispatch(p)
    \/ SeedOne(p) \/ Send(p) \/ Mark(p) \/ Finish(p)

Fail(p) == FetchFails(p) \/ SendFails(p) \/ StoreFails(p) \/ Crash(p)

Next ==
    \/ Post
    \/ \E p \in Proc :
        \/ \E c \in Commands : Start(p, c)
        \/ Fetch(p)
        \/ Handle(p)
        \/ Fail(p)

Spec == Init /\ [][Next]_vars

\* The schedule keeps starting runs, and a run that is not killed goes on. A
\* page may fail again and again, and a failure throws away the pages before
\* it, but no page fails for ever.
Fairness ==
    \A p \in Proc :
        /\ WF_vars(\E c \in Commands : Start(p, c))
        /\ \A o \in 0..MaxPosts : SF_vars(RequestPage(p) /\ run[p].offset = o)
        /\ WF_vars(ExamineRow(p) \/ EndOfPage(p) \/ Handle(p))

FairSpec == Spec /\ Fairness

-----------------------------------------------------------------------------
(***************************************************************************)
(* Properties.                                                             *)
(***************************************************************************)
Usable(d) == d \in Deviation /\ d \notin Malformed

InSeq(d, s) == \E k \in 1..Len(s) : s[k] = d

\* A deviation is recorded as notified only after it has reached the phone:
\* _notify_all marks after the send, whoever else writes the table meanwhile.
NotifiedMeansDelivered ==
    \A d \in Deviation : row[d] = "notified" => d \in delivered

\* The deviations that were in the feed before the deployment are never pushed,
\* however often the seeding run is killed half way: it marks the newest first,
\* and the next fetch stops there.
FirstDeploymentQuiet == \A d \in 1..backlog : d \notin delivered

\* When a run records success, everything it fetched has a row: notified by it,
\* seeded by it, or handled before by somebody else.
SuccessMeansHandled ==
    \A p \in Proc : RecordsSuccess(p) =>
        \A k \in 1..Len(run[p].collected) : HasSeen(run[p].collected[k])

\* Posts that arrive between two page requests shift the offsets, so a page may
\* repeat rows of the one before, but a fetch never skips a row: what is newer
\* than something collected, and was there when the run started, is collected.
NoGapInFetch ==
    \A p \in Proc, d \in 1..MaxPosts :
        /\ Usable(d)
        /\ d <= run[p].started
        /\ \E k \in 1..Len(run[p].collected) : run[p].collected[k] < d
        => InSeq(d, run[p].collected)

\* Once there is a baseline, every deviation posted since has a row as soon as a
\* run that started after the post records success: the timestamp that silences
\* the staleness alert never covers up a deviation that nobody will be told of.
NothingDropped ==
    \A d \in 1..MaxPosts :
        Usable(d) /\ baseline < d /\ d <= covered => HasSeen(d)

\* No deviation is pushed twice.
AtMostOnce == redelivered = {}

\* Once a run has recorded success the baseline exists, and no scheduled run
\* ever records a deviation silently again, provided that the artists had posted
\* something usable before the deployment: an empty first feed records success
\* and leaves the store empty.
NoSilentSeedAfterSuccess ==
    [][\A d \in Deviation :
        row[d] = "none" /\ row'[d] = "seeded" => covered = Never]_vars

\* Every deviation the artists post is recorded in the end.
EventuallyRecorded ==
    \A d \in 1..MaxPosts : Usable(d) /\ posted >= d ~> HasSeen(d)

\* Every deviation posted since a run first recorded success is pushed in the
\* end: failed fetches and shifted pages delay it, and do not turn it into one of
\* those that are recorded silently.
EventuallyPushed ==
    \A d \in 1..MaxPosts :
        /\ Usable(d)
        /\ posted >= d
        /\ baseline \in 0..(d - 1)
        ~> d \in delivered

\* The runs of one process, whatever fails, implement the ledger: a
\* notification is recorded after a delivery, and never taken back.
Ledger == INSTANCE DeliveryLedger WITH announced <- posted, ledger <- row
ImplementsLedger == Ledger!Spec
=============================================================================
