--------------------- MODULE WatchService_alone_proofs ---------------------
(***************************************************************************)
(* What concurrencyPolicy: Forbid is for: theorems about one process at a  *)
(* time, for every feed, cap, page size and fault.                         *)
(***************************************************************************)
EXTENDS WatchService_proofs

\* `make trigger` and `dawatch seed` by hand do not keep to it.
OneAtATime == \A p, q \in Proc : p = q

-----------------------------------------------------------------------------
(***************************************************************************)
(* The table of a process that is alone with it.                           *)
(***************************************************************************)
Unseen(s) == \A k \in 1..Len(s) : ~HasSeen(s[k])

Reading(r) == r.pc \in {"page", "rows", "fetched", "filter"}

\* What was fetched has no row until r writes one itself.
Alone(r) ==
    /\ FromFeed(r.new)
    /\ Reading(r) => Unseen(r.collected) /\ Unseen(r.new)
    /\ r.pc = "seed" => \A k \in 1..Len(r.new) : row[r.new[k]] # "notified"

AloneInv ==
    /\ OneAtATime
    /\ IInv
    /\ FetchInv
    /\ \A p \in Proc : Alone(run[p])

\* The step the process takes, action by action.
LEMMA AloneOwn ==
    ASSUME AloneInv, TypeOK', NEW p \in Proc, Own(p)
    PROVE  Alone(run[p])'
<1>0. PICK r \in RunState : r = run[p]
  BY DEF AloneInv, FetchInv, TypeOK
<1>1. /\ TypeOK /\ Alone(r) /\ run \in [Proc -> RunState] /\ r = run[p]
      /\ Fetching(r) /\ Marks(r) /\ posted' = posted
  BY <1>0, OwnPosted DEF AloneInv, FetchInv, IInv, TypeOK
<1>2. /\ r.i \in Nat \ {0} /\ r.raw_results \in Seq(Deviation)
      /\ r.collected \in Seq(Deviation) /\ r.new \in Seq(Deviation)
      /\ \A d \in Deviation : d \in Nat
  BY <1>1, RunType, MaxPostsAssumption DEF Deviation
<1>3. ASSUME run'[p].new = r.new,
             run'[p].pc \in {"report", "notify", "mark"}
      PROVE  Alone(run[p])'
  BY <1>1, <1>3 DEF Alone, FromFeed, Reading
<1>4. ASSUME run'[p].new = r.new, run'[p].collected = r.collected, row' = row,
             Reading(r)
      PROVE  Alone(run[p])'
  BY <1>1, <1>4 DEF Alone, FromFeed, Reading, Unseen, HasSeen
<1>5. CASE (\E c \in Commands : Start(p, c)) \/ Finish(p) \/ FetchFails(p)
           \/ StoreFails(p) \/ Crash(p)
  <2>1. CASE \E c \in Commands : Start(p, c)
    <3>1. /\ run'[p].new = <<>> /\ run'[p].collected = <<>>
          /\ run'[p].pc = "page"
      BY <1>1, <2>1 DEF Start, Become, NoRun
    <3> QED
      BY <3>1 DEF Alone, FromFeed, Unseen
  <2>2. CASE Finish(p) \/ FetchFails(p) \/ StoreFails(p) \/ Crash(p)
    <3>1. run'[p] = NoRun
      BY <1>1, <2>2 DEF Finish, FetchFails, StoreFails, Crash, Abort, Become
    <3> QED
      BY <3>1 DEF NoRun, Alone, FromFeed, Unseen
  <2> QED
    BY <1>5, <2>1, <2>2
<1>6. CASE RequestPage(p)
  <2>1. run'[p].new = r.new /\ run'[p].collected = r.collected
    BY <1>1, <1>6 DEF RequestPage, Become, RunState
  <2> QED
    BY <1>1, <1>4, <1>6, <2>1 DEF RequestPage, Reading, shared
<1>7. CASE ExamineRow(p)
  <2> DEFINE d == r.raw_results[r.i]
             c == Append(r.collected, d)
  <2>1. r.pc = "rows" /\ d \in Deviation /\ row' = row
    BY <1>1, <1>7, RunType, EntryType DEF ExamineRow, MoreRows, shared
  <2>2. CASE Become(p, [r EXCEPT !.i = @ + 1]) \/ Become(p, FetchReturns(r))
    <3>1. run'[p].new = r.new /\ run'[p].collected = r.collected
      BY <1>1, <2>2, ZenonT(60) DEF Become, FetchReturns, RunState
    <3> QED
      BY <1>4, <2>1, <3>1 DEF Reading
  <2>3. CASE /\ ~HasSeen(d)
             /\ Become(p, [r EXCEPT !.i = @ + 1, !.collected = c])
    <3>1. /\ Len(c) = Len(r.collected) + 1 /\ c[Len(r.collected) + 1] = d
          /\ \A k \in 1..Len(r.collected) : c[k] = r.collected[k]
          /\ Len(r.collected) \in Nat
      BY <1>2, <2>1, Appended
    <3> HIDE DEF c
    <3>2. run'[p].new = r.new /\ run'[p].collected = c /\ run'[p].pc = "rows"
      BY <1>1, <2>1, <2>3 DEF Become, RunState
    <3>3. Unseen(c) /\ Unseen(r.new)
      BY <1>1, <2>1, <2>3, <3>1 DEF Alone, Reading, Unseen
    <3> QED
      BY <1>1, <2>1, <3>2, <3>3 DEF Alone, FromFeed, Unseen, HasSeen
  <2> QED
    BY <1>1, <1>7, <2>2, <2>3 DEF ExamineRow
<1>8. CASE EndOfPage(p)
  <2>1. run'[p].new = r.new /\ run'[p].collected = r.collected
    BY <1>1, <1>8 DEF EndOfPage, Become, FetchReturns, RunState
  <2> QED
    BY <1>1, <1>4, <1>8, <2>1 DEF EndOfPage, Reading, shared
<1>9. CASE UseFetched(p)
  <2>1. r.pc = "fetched" /\ row' = row
    BY <1>1, <1>9 DEF UseFetched, shared
  <2>2. CASE r.cmd = "seed"
    <3>1. run'[p].new = r.collected /\ run'[p].pc = "seed"
      BY <1>1, <1>9, <2>2 DEF UseFetched, Become, RunState
    <3>2. \A k \in 1..Len(r.collected) : row[r.collected[k]] # "notified"
      BY <1>1, <2>1 DEF Alone, Reading, Unseen, HasSeen
    <3> QED
      BY <1>1, <2>1, <3>1, <3>2 DEF Alone, Reading, FromFeed, Fetching
  <2>3. CASE r.cmd # "seed"
    <3> DEFINE seeding == r.cmd = "run" /\ IsEmpty
    <3>1. Become(p, [r EXCEPT !.pc = "filter", !.seeding = seeding])
      BY <1>1, <1>9, <2>3 DEF UseFetched
    <3> HIDE DEF seeding
    <3>2. run'[p].new = r.new /\ run'[p].collected = r.collected
      BY <1>1, <3>1 DEF Become, RunState
    <3> QED
      BY <1>4, <2>1, <3>2 DEF Reading
  <2> QED
    BY <2>2, <2>3
<1>10. CASE Filter(p)
  <2> DEFINE d == r.collected[r.i]
             new == Append(r.new, d)
  <2>1. /\ r.pc = "filter" /\ row' = row /\ r.i <= Len(r.collected)
        /\ d \in Deviation
    BY <1>1, <1>10, RunType, EntryType DEF Filter, shared
  <2>2. ~HasSeen(d) /\ Usable(d) /\ d <= posted
    BY <1>1, <1>2, <2>1 DEF Alone, Reading, Unseen, Fetching, FromFeed
  <2>3. /\ Len(new) = Len(r.new) + 1 /\ new[Len(r.new) + 1] = d
        /\ \A k \in 1..Len(r.new) : new[k] = r.new[k]
        /\ Len(r.new) \in Nat
    BY <1>2, <2>1, Appended
  <2>4. Become(p, [r EXCEPT !.i = @ + 1, !.new = new])
    BY <1>1, <1>10, <2>2 DEF Filter
  <2> HIDE DEF new
  <2>5. /\ run'[p].new = new /\ run'[p].collected = r.collected
        /\ run'[p].pc = "filter"
    BY <1>1, <2>1, <2>4 DEF Become, RunState
  <2>6. FromFeed(new)' /\ Unseen(new)
    BY <1>1, <2>1, <2>2, <2>3 DEF Alone, Reading, FromFeed, Unseen
  <2>7. Unseen(r.collected)
    BY <1>1, <2>1 DEF Alone, Reading
  <2> QED
    BY <2>1, <2>5, <2>6, <2>7 DEF Alone, Unseen, HasSeen
<1>11. CASE Dispatch(p)
  <2>1. r.pc = "filter" /\ row' = row
    BY <1>1, <1>11 DEF Dispatch, shared
  <2>2. run'[p].new = r.new /\ run'[p].pc \in {"seed", "report", "notify"}
    BY <1>1, <1>11 DEF Dispatch, Become, RunState
  <2>3. \A k \in 1..Len(r.new) : row[r.new[k]] # "notified"
    BY <1>1, <2>1 DEF Alone, Reading, Unseen, HasSeen
  <2> QED
    BY <1>1, <2>1, <2>2, <2>3 DEF Alone, Reading, FromFeed
<1>12. CASE SeedOne(p)
  <2>1. /\ r.pc = "seed" /\ r.new[r.i] \in Deviation
    BY <1>1, <1>12, RunType, EntryType DEF SeedOne, MoreNew
  <2>2. run'[p].new = r.new /\ run'[p].pc = "seed"
    BY <1>1, <1>12, <2>1 DEF SeedOne, Become, RunState
  <2>3. row' = [row EXCEPT ![r.new[r.i]] = "seeded"]
    BY <1>1, <1>12 DEF SeedOne, MarkSeen
  <2>4. \A k \in 1..Len(r.new) : r.new[k] \in Deviation
    BY <1>2
  <2>5. \A k \in 1..Len(r.new) : row'[r.new[k]] # "notified"
    BY <1>1, <2>1, <2>3, <2>4 DEF Alone, TypeOK
  <2> QED
    BY <1>1, <2>2, <2>5 DEF Alone, FromFeed, Reading
<1>13. CASE Send(p)
  <2>1. run'[p].new = r.new /\ run'[p].pc = "mark"
    BY <1>1, <1>13 DEF Send, Become, RunState
  <2> QED
    BY <1>3, <2>1
<1>14. CASE SendFails(p)
  <2>1. run'[p].new = r.new /\ run'[p].pc = "notify"
    BY <1>1, <1>14 DEF SendFails, Become, RunState
  <2> QED
    BY <1>3, <2>1
<1>15. CASE Mark(p)
  <2>1. run'[p].new = r.new /\ run'[p].pc = "notify"
    BY <1>1, <1>15 DEF Mark, Become, RunState
  <2> QED
    BY <1>3, <2>1
<1> QED
  BY <1>5, <1>6, <1>7, <1>8, <1>9, <1>10, <1>11, <1>12, <1>13, <1>14, <1>15
  DEF Own, Fetch, Handle, Fail

\* A post changes the feed, and nothing that the process has.
LEMMA AloneStep == AloneInv /\ [Next]_vars => AloneInv'
<1> SUFFICES ASSUME AloneInv, [Next]_vars PROVE AloneInv'
  OBVIOUS
<1>1. IInv' /\ FetchInv' /\ TypeOK'
  BY Inductive, FetchStep DEF AloneInv, IInv
<1>2. ASSUME NEW q \in Proc PROVE Alone(run[q])'
  <2>1. CASE Post \/ UNCHANGED vars
    <3>1. /\ run' = run /\ row' = row /\ posted <= posted'
          /\ posted \in Nat /\ posted' \in Nat
          /\ \A d \in Deviation : d \in Nat
      BY <1>1, <2>1, MaxPostsAssumption
      DEF Post, vars, AloneInv, IInv, TypeOK, Deviation
    <3>2. FromFeed(run[q].new) => FromFeed(run[q].new)'
      BY <3>1 DEF FromFeed, Usable
    <3> QED
      BY <3>1, <3>2 DEF AloneInv, Alone, Reading, Unseen, HasSeen
  <2>2. CASE \E p \in Proc : Own(p)
    <3>1. Own(q)
      BY <2>2 DEF AloneInv, OneAtATime
    <3> QED
      BY <1>1, <3>1, AloneOwn
  <2> QED
    BY <2>1, <2>2 DEF Next, Own
<1> QED
  BY <1>1, <1>2 DEF AloneInv

LEMMA AloneInit == OneAtATime /\ Init => AloneInv
<1> SUFFICES ASSUME OneAtATime, Init PROVE AloneInv
  OBVIOUS
<1>1. \A p \in Proc : run[p].pc = "idle" /\ run[p].new = <<>>
  BY DEF Init, NoRun
<1>2. FromFeed(<<>>)
  BY DEF FromFeed
<1>3. \A p \in Proc : Alone(run[p])
  BY <1>1, <1>2 DEF Alone, Reading
<1> QED
  BY <1>3, Initial, FetchInit DEF AloneInv

-----------------------------------------------------------------------------
(***************************************************************************)
(* The ledger.                                                             *)
(***************************************************************************)
\* A step that touches what the ledger shows is one of the ledger's steps.
LEMMA LedgerStep ==
    AloneInv /\ [Next]_vars => [Ledger!Next]_(Ledger!ledgerVars)
<1> SUFFICES ASSUME AloneInv, [Next]_vars
             PROVE  Ledger!Next \/ UNCHANGED <<posted, delivered, row>>
  BY DEF Ledger!ledgerVars
<1>1. TypeOK /\ IInv
  BY DEF AloneInv, IInv
<1>2. CASE UNCHANGED vars
  BY <1>2 DEF vars
<1>3. CASE Post
  <2>1. Ledger!Announce
    BY <1>3 DEF Post, Ledger!Announce
  <2> QED
    BY <2>1 DEF Ledger!Next
<1>4. ASSUME NEW p \in Proc, MoreNew(p)
      PROVE  /\ run[p].new[run[p].i] \in 1..posted
             /\ run[p].new[run[p].i] \in Deviation
             /\ run[p].i \in 1..Len(run[p].new)
  <2>1. run[p].i \in 1..Len(run[p].new)
    BY <1>1, <1>4, RunType DEF MoreNew
  <2> QED
    BY <1>1, <2>1, MaxPostsAssumption
    DEF AloneInv, Alone, FromFeed, Usable, Deviation, TypeOK
<1>5. ASSUME NEW p \in Proc, SeedOne(p)
      PROVE  Ledger!Next
  <2> DEFINE d == run[p].new[run[p].i]
  <2>1. d \in 1..posted /\ row[d] # "notified"
    BY <1>4, <1>5 DEF SeedOne, AloneInv, Alone
  <2>2. Ledger!RecordBaseline(d)
    BY <1>5, <2>1 DEF SeedOne, MarkSeen, Ledger!RecordBaseline
  <2> QED
    BY <2>1, <2>2 DEF Ledger!Next
<1>6. ASSUME NEW p \in Proc, Send(p) \/ SendFails(p)
      PROVE  Ledger!Next \/ UNCHANGED <<posted, delivered, row>>
  <2> DEFINE d == run[p].new[run[p].i]
  <2>1. d \in 1..posted
    BY <1>4, <1>6 DEF Send, SendFails
  <2>2. Ledger!Deliver(d) \/ UNCHANGED <<posted, delivered, row>>
    BY <1>6 DEF Send, SendFails, Deliver, Ledger!Deliver
  <2> QED
    BY <2>1, <2>2 DEF Ledger!Next
<1>7. ASSUME NEW p \in Proc, Mark(p)
      PROVE  Ledger!Next
  <2> DEFINE d == run[p].new[run[p].i]
  <2>1. MoreNew(p) /\ d \in delivered
    BY <1>1, <1>7 DEF Mark, IInv, Marks, MoreNew
  <2>2. d \in 1..posted
    BY <1>4, <2>1
  <2>3. Ledger!RecordNotified(d)
    BY <1>7, <2>1 DEF Mark, MarkSeen, Ledger!RecordNotified
  <2> QED
    BY <2>2, <2>3 DEF Ledger!Next
<1>8. ASSUME NEW p \in Proc, Own(p),
             ~SeedOne(p), ~Send(p), ~SendFails(p), ~Mark(p)
      PROVE  UNCHANGED <<posted, delivered, row>>
  <2>1. CASE \E c \in Commands : Start(p, c)
    BY <2>1 DEF Start, shared
  <2>2. CASE Fetch(p)
    BY <2>2 DEF Fetch, RequestPage, ExamineRow, EndOfPage, shared
  <2>3. CASE Handle(p)
    BY <1>8, <2>3 DEF Handle, UseFetched, Filter, Dispatch, Finish, shared
  <2>4. CASE Fail(p)
    BY <1>8, <2>4 DEF Fail, FetchFails, StoreFails, Crash, Abort, shared
  <2> QED
    BY <1>8, <2>1, <2>2, <2>3, <2>4 DEF Own
<1> QED
  BY <1>2, <1>3, <1>5, <1>6, <1>7, <1>8 DEF Next, Own

LEMMA LedgerInit == Init => Ledger!Init
BY TypeInit DEF Init, TypeOK, Ledger!Init, Deviation

\* As long as no two processes share the table, the program implements the
\* ledger, whatever fails: a deviation is announced before it is delivered,
\* delivered before it is recorded as notified, and such a record is never
\* turned back into one of the baseline.
THEOREM LedgerImplemented == OneAtATime => (Spec => ImplementsLedger)
BY AloneInit, AloneStep, LedgerInit, LedgerStep, PTL
DEF Spec, ImplementsLedger, Ledger!Spec

-----------------------------------------------------------------------------
(***************************************************************************)
(* The first deployment.                                                   *)
(***************************************************************************)
\* Nothing usable in the backlog is newer than n.
Tops(n) == \A d \in Deviation : Usable(d) /\ d <= backlog => d <= n

\* A recorded deviation, posted among the first n, at which fetches stop before
\* they come to the backlog.
Stops(e, n) == HasSeen(e) /\ Usable(e) /\ e <= n /\ Tops(e)

Stopped(n) == IsEmpty \/ \E e \in Deviation : Stops(e, n)

Above(s) == \A k \in 1..Len(s) : s[k] > backlog

\* The list starts above the backlog if the table is empty, and is all above it
\* if it is not.
Headed(s) == IF IsEmpty THEN Len(s) > 0 => Tops(s[1]) ELSE Above(s)

\* In the comprehension, `new` has the first entry of `collected`.
SameHead(r) ==
    IF r.i = 1 THEN r.new = <<>>
               ELSE Len(r.collected) > 0 /\ Len(r.new) > 0
                                         /\ r.new[1] = r.collected[1]

Quiet(r) ==
    /\ r.pc # "idle" => backlog <= r.started /\ r.cmd \in Commands
    /\ r.pc \in {"page", "rows"} => Stopped(r.started)
    /\ r.pc \in {"page", "rows", "fetched"} => r.new = <<>>
    /\ Reading(r) => Headed(r.collected)
    /\ r.pc = "filter" =>
        /\ SameHead(r)
        /\ r.seeding => IsEmpty
        /\ r.cmd = "run" => r.seeding \/ ~IsEmpty
        /\ r.cmd # "seed"
        /\ ~IsEmpty => Above(r.new)
    /\ r.pc = "seed" /\ IsEmpty => r.i = 1 /\ (Len(r.new) > 0 => Tops(r.new[1]))
    /\ r.pc \in {"notify", "mark"} => Above(r.new) /\ ~IsEmpty

QuietInv ==
    /\ "no_seed" \notin Commands
    /\ AloneInv
    /\ FirstDeploymentQuiet
    /\ Stopped(posted)
    /\ \A p \in Proc : Quiet(run[p])

\* As long as the table is not written and nothing is posted before the
\* deployment any more, the predicates above stay as they are.
LEMMA Unwritten ==
    ASSUME row' = row, backlog' = backlog
    PROVE  /\ IsEmpty' <=> IsEmpty
           /\ \A n : Tops(n)' <=> Tops(n)
           /\ \A n : Stopped(n)' <=> Stopped(n)
           /\ \A s : Headed(s)' <=> Headed(s)
           /\ \A s : Above(s)' <=> Above(s)
BY DEF IsEmpty, HasSeen, Tops, Stops, Stopped, Headed, Above, Usable

\* Examining the next row below everything that was there and is collected.
LEMMA NextIsHeaded ==
    ASSUME QuietInv, NEW r \in RunState, Quiet(r), Alone(r), Fetching(r),
           r.pc = "rows", NEW d \in Deviation, Usable(d), ~HasSeen(d),
           ReadAbove(r, d)
    PROVE  Headed(Append(r.collected, d))
<1> DEFINE c == Append(r.collected, d)
<1>1. /\ Len(c) = Len(r.collected) + 1 /\ c[Len(r.collected) + 1] = d
      /\ \A k \in 1..Len(r.collected) : c[k] = r.collected[k]
      /\ Len(r.collected) \in Nat
  BY Appended DEF RunState
<1>2. /\ backlog \in Nat /\ r.started \in Nat /\ d \in Nat
      /\ \A e \in Deviation : e \in Nat
      /\ backlog <= r.started
  BY MaxPostsAssumption
  DEF QuietInv, AloneInv, FetchInv, TypeOK, Quiet, RunState, Deviation
<1>3. Headed(r.collected) /\ Unseen(r.collected) /\ Stopped(r.started)
  BY DEF Quiet, Alone, Reading
<1> HIDE DEF c
<1>4. CASE IsEmpty
  <2>1. CASE Len(r.collected) = 0
    <3>1. c[1] = d
      BY <1>1, <2>1
    <3>2. \A e \in Deviation : ~InSeq(e, r.collected)
      BY <2>1 DEF InSeq
    <3>3. Tops(d)
      BY <1>2, <3>2 DEF Tops, ReadAbove
    <3> QED
      BY <1>4, <3>1, <3>3 DEF Headed, c
  <2>2. CASE Len(r.collected) > 0
    <3>1. c[1] = r.collected[1]
      BY <1>1, <2>2
    <3> QED
      BY <1>3, <1>4, <2>2, <3>1 DEF Headed, c
  <2> QED
    BY <1>1, <2>1, <2>2
<1>5. CASE ~IsEmpty
  <2>1. PICK e \in Deviation : Stops(e, r.started)
    BY <1>3, <1>5 DEF Stopped
  <2>2. ~InSeq(e, r.collected)
    BY <1>3, <2>1 DEF Stops, Unseen, InSeq
  <2>3. ~(e > d)
    BY <2>1, <2>2 DEF Stops, ReadAbove
  <2>4. e # d
    BY <2>1 DEF Stops
  <2>5. d > e
    BY <1>2, <2>3, <2>4
  <2>6. d > backlog
    <3>1. d <= backlog => d <= e
      BY <2>1 DEF Stops, Tops
    <3> QED
      BY <1>2, <2>5, <3>1
  <2>7. Above(c)
    BY <1>1, <1>3, <1>5, <2>6 DEF Headed, Above
  <2> QED
    BY <1>5, <2>7 DEF Headed, c
<1> QED
  BY <1>4, <1>5

\* The steps that neither write the table nor push.
LEMMA QuietLocal ==
    ASSUME QuietInv, TypeOK', NEW p \in Proc, Own(p),
           ~SeedOne(p), ~Send(p), ~SendFails(p), ~Mark(p)
    PROVE  Quiet(run[p])' /\ UNCHANGED <<row, delivered, posted, backlog>>
<1>0. PICK r \in RunState : r = run[p]
  BY DEF QuietInv, AloneInv, FetchInv, TypeOK
<1>1. /\ TypeOK /\ run \in [Proc -> RunState] /\ r = run[p]
      /\ Quiet(r) /\ Alone(r) /\ Fetching(r) /\ Accounts(r)
  BY <1>0 DEF QuietInv, AloneInv, FetchInv, IInv, TypeOK
<1>2. /\ r.i \in Nat \ {0} /\ r.raw_results \in Seq(Deviation)
      /\ r.collected \in Seq(Deviation) /\ r.new \in Seq(Deviation)
  BY <1>1, RunType
<1>3. UNCHANGED <<row, delivered, posted, backlog>>
  <2>1. CASE \E c \in Commands : Start(p, c)
    BY <2>1 DEF Start, shared
  <2>2. CASE Fetch(p)
    BY <2>2 DEF Fetch, RequestPage, ExamineRow, EndOfPage, shared
  <2>3. CASE Handle(p)
    BY <2>3 DEF Handle, UseFetched, Filter, Dispatch, Finish, shared
  <2>4. CASE Fail(p)
    BY <2>4 DEF Fail, FetchFails, StoreFails, Crash, Abort, shared
  <2> QED
    BY <2>1, <2>2, <2>3, <2>4 DEF Own
<1>4. /\ IsEmpty' <=> IsEmpty
      /\ \A n : Tops(n)' <=> Tops(n)
      /\ \A n : Stopped(n)' <=> Stopped(n)
      /\ \A s : Headed(s)' <=> Headed(s)
      /\ \A s : Above(s)' <=> Above(s)
  BY <1>3, Unwritten
<1>5. ASSUME run'[p].started = r.started, run'[p].cmd = r.cmd,
             run'[p].new = r.new, run'[p].collected = r.collected,
             r.pc \in {"page", "rows"},
             run'[p].pc \in {"page", "rows", "fetched"}
      PROVE  Quiet(run[p])'
  BY <1>1, <1>3, <1>4, <1>5 DEF Quiet, Reading
<1>6. CASE \E c \in Commands : Start(p, c)
  <2>1. PICK c \in Commands : Start(p, c)
    BY <1>6
  <2>2. /\ run'[p].pc = "page" /\ run'[p].cmd = c /\ run'[p].started = posted
        /\ run'[p].new = <<>> /\ run'[p].collected = <<>>
    BY <1>1, <2>1 DEF Start, Become, NoRun
  <2>3. Headed(<<>>)
    BY DEF Headed, Above
  <2>4. backlog <= posted /\ Stopped(posted)
    BY MaxPostsAssumption DEF QuietInv, AloneInv, FetchInv, TypeOK
  <2> QED
    BY <1>3, <1>4, <2>2, <2>3, <2>4 DEF Quiet, Reading
<1>7. CASE RequestPage(p)
  <2>1. /\ run'[p].started = r.started /\ run'[p].cmd = r.cmd
        /\ run'[p].new = r.new /\ run'[p].collected = r.collected
        /\ run'[p].pc = "rows"
    BY <1>1, <1>7 DEF RequestPage, Become, RunState
  <2> QED
    BY <1>3, <1>1, <1>5, <1>7, <2>1 DEF RequestPage
<1>8. CASE ExamineRow(p)
  <2> DEFINE d == r.raw_results[r.i]
             c == Append(r.collected, d)
  <2>1. r.pc = "rows" /\ d \in Deviation /\ r.i <= Len(r.raw_results)
    BY <1>1, <1>8, RunType, EntryType DEF ExamineRow, MoreRows
  <2>2. CASE Become(p, [r EXCEPT !.i = @ + 1]) \/ Become(p, FetchReturns(r))
    <3>1. run'[p] = [r EXCEPT !.i = @ + 1] \/ run'[p] = FetchReturns(r)
      BY <1>1, <2>2 DEF Become
    <3>2. /\ run'[p].started = r.started /\ run'[p].cmd = r.cmd
          /\ run'[p].new = r.new /\ run'[p].collected = r.collected
          /\ run'[p].pc \in {"rows", "fetched"}
      BY <2>1, <3>1 DEF FetchReturns, RunState
    <3> QED
      BY <1>3, <1>5, <2>1, <3>2
  <2>3. CASE /\ d \notin Malformed /\ ~HasSeen(d)
             /\ Become(p, [r EXCEPT !.i = @ + 1, !.collected = c])
    <3>1. PICK top \in Int : PageFrom(r, top)
      BY <1>1, <2>1 DEF Fetching
    <3>2. ReadAbove(r, d)
      BY <1>2, <2>1, <3>1, ReadToAbove DEF PageFrom
    <3>3. Headed(c)
      BY <1>1, <2>1, <2>3, <3>2, NextIsHeaded DEF Usable
    <3> HIDE DEF c
    <3>4. /\ run'[p].started = r.started /\ run'[p].cmd = r.cmd
          /\ run'[p].new = r.new /\ run'[p].collected = c
          /\ run'[p].pc = "rows"
      BY <1>1, <2>1, <2>3 DEF Become, RunState
    <3> QED
      BY <1>1, <1>3, <1>4, <2>1, <3>3, <3>4 DEF Quiet, Reading
  <2> QED
    BY <1>1, <1>8, <2>2, <2>3 DEF ExamineRow
<1>9. CASE EndOfPage(p)
  <2>1. /\ run'[p].started = r.started /\ run'[p].cmd = r.cmd
        /\ run'[p].new = r.new /\ run'[p].collected = r.collected
        /\ run'[p].pc \in {"page", "fetched"} /\ r.pc = "rows"
    BY <1>1, <1>9 DEF EndOfPage, Become, FetchReturns, RunState
  <2> QED
    BY <1>3, <1>5, <2>1
<1>10. CASE UseFetched(p)
  <2>1. /\ r.pc = "fetched" /\ r.i = 1 /\ r.new = <<>>
        /\ Headed(r.collected) /\ r.cmd \in Commands /\ backlog <= r.started
    BY <1>1, <1>10 DEF UseFetched, Accounts, Quiet, Reading
  <2>2. CASE r.cmd = "seed"
    <3>1. run'[p] = [r EXCEPT !.pc = "seed", !.new = r.collected]
      BY <1>1, <1>10, <2>2 DEF UseFetched, Become
    <3>2. /\ run'[p].new = r.collected /\ run'[p].pc = "seed" /\ run'[p].i = 1
          /\ run'[p].cmd = r.cmd /\ run'[p].started = r.started
      BY <2>1, <3>1 DEF RunState
    <3> QED
      BY <1>3, <1>4, <2>1, <3>2 DEF Quiet, Reading, Headed
  <2>3. CASE r.cmd # "seed"
    <3> DEFINE seeding == r.cmd = "run" /\ IsEmpty
    <3>1. Become(p, [r EXCEPT !.pc = "filter", !.seeding = seeding])
      BY <1>1, <1>10, <2>3 DEF UseFetched
    <3>2. seeding \in BOOLEAN
      OBVIOUS
    <3>3. seeding => IsEmpty
      OBVIOUS
    <3>4. r.cmd = "run" => seeding \/ ~IsEmpty
      OBVIOUS
    <3> HIDE DEF seeding
    <3>5. run'[p] = [r EXCEPT !.pc = "filter", !.seeding = seeding]
      BY <1>1, <3>1 DEF Become
    <3>6. /\ run'[p].new = <<>> /\ run'[p].collected = r.collected
          /\ run'[p].pc = "filter" /\ run'[p].i = 1 /\ run'[p].cmd = r.cmd
          /\ run'[p].started = r.started
      BY <2>1, <3>5 DEF RunState
    <3>7. run'[p].seeding = seeding
      BY <3>5 DEF RunState
    <3>8. SameHead(run[p])' /\ Above(<<>>)
      BY <3>6 DEF SameHead, Above
    <3>9. Headed(run[p].collected)'
      BY <1>4, <2>1, <3>6
    <3> QED
      BY <1>3, <1>4, <2>1, <2>3, <3>3, <3>4, <3>6, <3>7, <3>8, <3>9
      DEF Quiet, Reading
  <2> QED
    BY <2>2, <2>3
<1>11. CASE Filter(p)
  <2> DEFINE d == r.collected[r.i]
             new == Append(r.new, d)
  <2>1. /\ r.pc = "filter" /\ r.i <= Len(r.collected)
        /\ Len(r.collected) \in Nat /\ d \in Deviation
    BY <1>1, <1>11, RunType, EntryType DEF Filter
  <2>2. ~HasSeen(d)
    BY <1>1, <1>2, <2>1 DEF Alone, Reading, Unseen
  <2>3. /\ Len(new) = Len(r.new) + 1 /\ new[Len(r.new) + 1] = d
        /\ \A k \in 1..Len(r.new) : new[k] = r.new[k]
        /\ Len(r.new) \in Nat
    BY <1>2, <2>1, Appended
  <2>4. Become(p, [r EXCEPT !.i = @ + 1, !.new = new])
    BY <1>1, <1>11, <2>2 DEF Filter
  <2> HIDE DEF new
  <2>5. /\ run'[p].new = new /\ run'[p].collected = r.collected
        /\ run'[p].pc = "filter" /\ run'[p].i = r.i + 1 /\ run'[p].cmd = r.cmd
        /\ run'[p].started = r.started /\ run'[p].seeding = r.seeding
    BY <1>1, <2>1, <2>4 DEF Become, RunState
  <2>6. SameHead(r) /\ Headed(r.collected) /\ (~IsEmpty => Above(r.new))
    BY <1>1, <2>1 DEF Quiet, Reading
  <2>7. new[1] = r.collected[1] /\ Len(new) > 0 /\ r.i + 1 # 1
    <3>1. CASE r.i = 1
      <4>1. Len(r.new) = 0
        BY <2>6, <3>1 DEF SameHead
      <4> QED
        BY <2>3, <3>1, <4>1
    <3>2. CASE r.i # 1
      BY <1>2, <2>3, <2>6, <3>2 DEF SameHead
    <3> QED
      BY <3>1, <3>2
  <2>8. ~IsEmpty => Above(new)
    BY <1>2, <2>1, <2>3, <2>6 DEF Headed, Above
  <2>9. SameHead(run[p])'
    BY <1>2, <2>1, <2>5, <2>7 DEF SameHead
  <2>10. /\ r.seeding => IsEmpty
         /\ r.cmd = "run" => r.seeding \/ ~IsEmpty
         /\ r.cmd # "seed" /\ r.cmd \in Commands /\ backlog <= r.started
    BY <1>1, <2>1 DEF Quiet
  <2> QED
    BY <1>3, <1>4, <2>5, <2>6, <2>8, <2>9, <2>10 DEF Quiet, Reading
<1>12. CASE Dispatch(p)
  <2>1. /\ r.pc = "filter" /\ SameHead(r) /\ Headed(r.collected)
        /\ ~IsEmpty => Above(r.new)
        /\ r.seeding => IsEmpty
        /\ r.cmd = "run" => r.seeding \/ ~IsEmpty
        /\ r.cmd # "seed" /\ r.cmd \in Commands /\ backlog <= r.started
    BY <1>1, <1>12 DEF Dispatch, Quiet, Reading
  <2>2. /\ run'[p].new = r.new /\ run'[p].i = 1 /\ run'[p].cmd = r.cmd
        /\ run'[p].started = r.started
        /\ run'[p].pc = IF r.seeding THEN "seed"
                        ELSE IF r.cmd = "dry_run" THEN "report" ELSE "notify"
    BY <1>1, <1>12 DEF Dispatch, Become, RunState
  <2>3. IsEmpty => (Len(r.new) > 0 => Tops(r.new[1]))
    BY <2>1 DEF SameHead, Headed
  <2>4. run'[p].pc = "notify" => r.cmd = "run" /\ ~r.seeding
    BY <2>1, <2>2, CommandsAssumption DEF QuietInv, Command
  <2> QED
    BY <1>3, <1>4, <2>1, <2>2, <2>3, <2>4 DEF Quiet, Reading
<1>13. CASE Finish(p) \/ FetchFails(p) \/ StoreFails(p) \/ Crash(p)
  <2>1. run'[p].pc = "idle"
    BY <1>1, <1>13 DEF Finish, FetchFails, StoreFails, Crash, Abort, Become, NoRun
  <2> QED
    BY <1>3, <2>1 DEF Quiet, Reading
<1> QED
  BY <1>3, <1>6, <1>7, <1>8, <1>9, <1>10, <1>11, <1>12, <1>13
  DEF Own, Fetch, Handle, Fail

\* Once something is recorded that is newer than the backlog, it stays.
LEMMA StoppedForGood ==
    ASSUME TypeOK, [Next]_vars, posted <= posted', posted' \in Nat,
           backlog' = backlog, ~IsEmpty, Stopped(posted)
    PROVE  ~IsEmpty' /\ Stopped(posted)'
<1>1. PICK e \in Deviation : Stops(e, posted)
  BY DEF Stopped
<1>2. HasSeen(e)'
  BY <1>1, Monotone DEF Stops
<1>3. e \in Nat /\ posted \in Nat
  BY MaxPostsAssumption DEF Deviation, TypeOK
<1>4. Stops(e, posted)'
  BY <1>1, <1>2, <1>3 DEF Stops, Tops, Usable
<1> QED
  BY <1>2, <1>4 DEF Stopped, IsEmpty

\* The steps that write the table or push.
LEMMA QuietWrites ==
    ASSUME QuietInv, TypeOK', NEW p \in Proc, [Next]_vars,
           SeedOne(p) \/ Send(p) \/ SendFails(p) \/ Mark(p)
    PROVE  Quiet(run[p])' /\ FirstDeploymentQuiet' /\ Stopped(posted)'
<1>0. PICK r \in RunState : r = run[p]
  BY DEF QuietInv, AloneInv, FetchInv, TypeOK
<1>1. /\ TypeOK /\ run \in [Proc -> RunState] /\ r = run[p]
      /\ Quiet(r) /\ Alone(r) /\ Marks(r) /\ posted \in Nat /\ backlog \in Nat
  BY <1>0, MaxPostsAssumption DEF QuietInv, AloneInv, FetchInv, IInv, TypeOK
<1>2. posted' = posted /\ backlog' = backlog
  BY DEF SeedOne, Send, SendFails, Mark
<1>3. ~IsEmpty => ~IsEmpty' /\ Stopped(posted)'
  BY <1>1, <1>2, StoppedForGood DEF QuietInv
<1>4. r.new \in Seq(Deviation) /\ r.i \in Nat \ {0}
  BY <1>1, RunType
<1> DEFINE d == r.new[r.i]
<1>5. CASE SeedOne(p)
  <2>1. /\ r.pc = "seed" /\ d \in Deviation /\ r.i \in 1..Len(r.new)
    BY <1>1, <1>4, <1>5, RunType, EntryType DEF SeedOne, MoreNew
  <2>2. /\ run'[p].new = r.new /\ run'[p].pc = "seed" /\ run'[p].cmd = r.cmd
        /\ run'[p].started = r.started
    BY <1>1, <1>5, <2>1 DEF SeedOne, Become, RunState
  <2>3. HasSeen(d)'
    BY <1>1, <1>5, <2>1 DEF SeedOne, MarkSeen, HasSeen, TypeOK
  <2>4. ~IsEmpty'
    BY <2>1, <2>3 DEF IsEmpty
  <2>5. Quiet(run[p])'
    BY <1>1, <1>2, <2>1, <2>2, <2>4 DEF Quiet, Reading
  <2>6. ASSUME IsEmpty PROVE Stopped(posted)'
    <3>1. Tops(d)
      BY <1>1, <2>1, <2>6 DEF Quiet
    <3>2. Usable(d) /\ d <= posted
      BY <1>1, <2>1 DEF Alone, FromFeed
    <3>3. Stops(d, posted)'
      BY <1>2, <2>3, <3>1, <3>2 DEF Stops, Tops, Usable
    <3> QED
      BY <2>1, <3>3 DEF Stopped
  <2>7. FirstDeploymentQuiet'
    BY <1>2, <1>5 DEF SeedOne, QuietInv, FirstDeploymentQuiet
  <2> QED
    BY <1>3, <2>5, <2>6, <2>7
<1>6. CASE Send(p) \/ SendFails(p)
  <2>1. /\ r.pc = "notify" /\ r.i \in 1..Len(r.new) /\ row' = row
        /\ delivered' \subseteq delivered \cup {d}
    BY <1>1, <1>4, <1>6 DEF Send, SendFails, MoreNew, Deliver
  <2>2. /\ run'[p].new = r.new /\ run'[p].pc \in {"notify", "mark"}
        /\ run'[p].cmd = r.cmd /\ run'[p].started = r.started
    <3>1. CASE Send(p)
      BY <1>1, <3>1 DEF Send, Become, RunState
    <3>2. CASE SendFails(p)
      BY <1>1, <3>2 DEF SendFails, Become, RunState
    <3> QED
      BY <1>6, <3>1, <3>2
  <2>3. Above(r.new) /\ ~IsEmpty /\ d > backlog
    BY <1>1, <2>1 DEF Quiet, Above
  <2>4. Quiet(run[p])'
    BY <1>1, <1>2, <1>3, <2>1, <2>2, <2>3 DEF Quiet, Reading, Above
  <2>5. FirstDeploymentQuiet'
    BY <1>1, <1>2, <2>1, <2>3 DEF QuietInv, FirstDeploymentQuiet
  <2> QED
    BY <1>3, <2>3, <2>4, <2>5
<1>7. CASE Mark(p)
  <2>1. r.pc = "mark" /\ Above(r.new) /\ ~IsEmpty
    BY <1>1, <1>7 DEF Mark, Quiet
  <2>2. /\ run'[p].new = r.new /\ run'[p].pc = "notify"
        /\ run'[p].cmd = r.cmd /\ run'[p].started = r.started
    BY <1>1, <1>7 DEF Mark, Become, RunState
  <2>3. Quiet(run[p])'
    BY <1>1, <1>2, <1>3, <2>1, <2>2 DEF Quiet, Reading, Above
  <2>4. FirstDeploymentQuiet'
    BY <1>2, <1>7 DEF Mark, QuietInv, FirstDeploymentQuiet
  <2> QED
    BY <1>3, <2>1, <2>3, <2>4
<1> QED
  BY <1>5, <1>6, <1>7

LEMMA QuietStep == QuietInv /\ [Next]_vars => QuietInv'
<1> SUFFICES ASSUME QuietInv, [Next]_vars PROVE QuietInv'
  OBVIOUS
<1>1. /\ AloneInv' /\ TypeOK /\ TypeOK'
      /\ posted \in Nat /\ posted' \in Nat
  BY AloneStep, TypeStep, MaxPostsAssumption
  DEF QuietInv, AloneInv, FetchInv, TypeOK
<1>2. CASE Post \/ UNCHANGED vars
  <2>1. /\ UNCHANGED <<run, row, delivered, backlog>> /\ posted <= posted'
    BY <1>1, <1>2 DEF Post, vars
  <2>2. /\ IsEmpty' <=> IsEmpty
        /\ \A n : Tops(n)' <=> Tops(n)
        /\ \A n : Stopped(n)' <=> Stopped(n)
        /\ \A s : Headed(s)' <=> Headed(s)
        /\ \A s : Above(s)' <=> Above(s)
    BY <2>1, Unwritten
  <2>3. FirstDeploymentQuiet'
    BY <2>1 DEF QuietInv, FirstDeploymentQuiet
  <2>4. Stopped(posted)'
    <3>1. CASE IsEmpty
      BY <2>2, <3>1 DEF Stopped
    <3>2. CASE ~IsEmpty
      BY <1>1, <2>1, <3>2, StoppedForGood DEF QuietInv
    <3> QED
      BY <3>1, <3>2
  <2>5. \A q \in Proc : Quiet(run[q])'
    BY <2>1, <2>2 DEF QuietInv, Quiet, Reading, SameHead
  <2> QED
    BY <1>1, <2>3, <2>4, <2>5 DEF QuietInv
<1>3. CASE \E p \in Proc : Own(p)
  <2>1. PICK p \in Proc : Own(p)
    BY <1>3
  <2>2. Quiet(run[p])' /\ FirstDeploymentQuiet' /\ Stopped(posted)'
    <3>1. CASE SeedOne(p) \/ Send(p) \/ SendFails(p) \/ Mark(p)
      BY <1>1, <3>1, QuietWrites
    <3>2. CASE ~(SeedOne(p) \/ Send(p) \/ SendFails(p) \/ Mark(p))
      <4>1. Quiet(run[p])' /\ UNCHANGED <<row, delivered, posted, backlog>>
        BY <1>1, <2>1, <3>2, QuietLocal
      <4>2. FirstDeploymentQuiet'
        BY <4>1 DEF QuietInv, FirstDeploymentQuiet
      <4>3. Stopped(posted)'
        BY <4>1, Unwritten DEF QuietInv
      <4> QED
        BY <4>1, <4>2, <4>3
    <3> QED
      BY <3>1, <3>2
  <2>3. \A q \in Proc : q = p
    BY DEF QuietInv, AloneInv, OneAtATime
  <2> QED
    BY <1>1, <2>2, <2>3 DEF QuietInv
<1> QED
  BY <1>2, <1>3 DEF Next, Own

LEMMA QuietInit ==
    OneAtATime /\ "no_seed" \notin Commands /\ Init => QuietInv
<1> SUFFICES ASSUME OneAtATime, "no_seed" \notin Commands, Init PROVE QuietInv
  OBVIOUS
<1>1. AloneInv
  BY AloneInit
<1>2. FirstDeploymentQuiet
  BY DEF Init, FirstDeploymentQuiet
<1>3. Stopped(posted)
  BY DEF Init, Stopped, IsEmpty, HasSeen
<1>4. \A p \in Proc : run[p].pc = "idle"
  BY DEF Init, NoRun
<1>5. \A p \in Proc : Quiet(run[p])
  BY <1>4 DEF Quiet, Reading
<1> QED
  BY <1>1, <1>2, <1>3, <1>5 DEF QuietInv

\* As long as no two processes share the table and nobody asks for no seeding,
\* nothing that was in the feed before the deployment is ever pushed: whatever
\* fails, wherever the first run is killed, however often `dawatch seed` is run
\* in between, and however far the backlog exceeds the page cap.
THEOREM QuietDeployment ==
    OneAtATime /\ "no_seed" \notin Commands => (Spec => []FirstDeploymentQuiet)
<1>1. QuietInv => FirstDeploymentQuiet
  BY DEF QuietInv
<1> QED
  BY <1>1, QuietInit, QuietStep, PTL DEF Spec
=============================================================================
