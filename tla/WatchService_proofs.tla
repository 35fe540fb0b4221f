------------------------ MODULE WatchService_proofs ------------------------
(***************************************************************************)
(* Theorems about WatchService for every set of processes, commands and    *)
(* faults, every feed and every page size: types, what a process still     *)
(* owes, and what a fetch has collected.                                   *)
(***************************************************************************)
EXTENDS WatchService, SequenceTheorems, TLAPS

-----------------------------------------------------------------------------
(***************************************************************************)
(* Types.                                                                  *)
(***************************************************************************)
\* A page is a sequence of deviations, at any offset.
LEMMA PageType ==
    ASSUME TypeOK, NEW offset \in Nat
    PROVE  Page(offset) \in Seq(Deviation)
<1> DEFINE n == IF PageLength(offset) > 0 THEN PageLength(offset) ELSE 0
<1>1. posted \in Nat /\ posted <= MaxPosts
  BY MaxPostsAssumption DEF TypeOK
<1>2. PageLength(offset) \in Int /\ PageLength(offset) <= posted - offset
  BY <1>1, PageSizeAssumption DEF PageLength
<1>3. n \in Nat /\ 1..PageLength(offset) = 1..n
  BY <1>2
<1>4. \A k \in 1..n : posted - offset - k + 1 \in Deviation
  BY <1>1, <1>2, MaxPostsAssumption DEF Deviation
<1>5. Page(offset) \in [1..n -> Deviation]
  BY <1>3, <1>4 DEF Page
<1> QED
  BY <1>3, <1>5, SeqDef

\* A fetch that asks for a page has one left.
WithinCap(r) == r.pc = "page" => r.pages_read < MaxPages

\* Replacing the locals of one process keeps the types of all.
LEMMA BecomeType ==
    ASSUME TypeOK, NEW p \in Proc, NEW r \in RunState, Become(p, r), WithinCap(r)
    PROVE  /\ run' \in [Proc -> RunState]
           /\ \A q \in Proc : run'[q].pc = "page" => run'[q].pages_read < MaxPages
BY DEF TypeOK, Become, WithinCap

LEMMA NoRunType == NoRun \in RunState
BY MaxPostsAssumption, MaxPagesAssumption DEF NoRun, RunState, PC, Command

\* Assigning one local a value of its type keeps the type of the whole.
LEMMA Update ==
    ASSUME NEW r \in RunState
    PROVE  /\ \A x \in PC : [r EXCEPT !.pc = x] \in RunState
           /\ \A x \in Command : [r EXCEPT !.cmd = x] \in RunState
           /\ \A x \in 0..MaxPosts : [r EXCEPT !.started = x] \in RunState
           /\ \A x \in Nat : [r EXCEPT !.offset = x] \in RunState
           /\ \A x \in 0..MaxPages : [r EXCEPT !.pages_read = x] \in RunState
           /\ \A x \in BOOLEAN : [r EXCEPT !.has_more = x] \in RunState
           /\ \A x \in Seq(Deviation) : [r EXCEPT !.raw_results = x] \in RunState
           /\ \A x \in Seq(Deviation) : [r EXCEPT !.collected = x] \in RunState
           /\ \A x \in Seq(Deviation) : [r EXCEPT !.new = x] \in RunState
           /\ \A x \in Nat \ {0} : [r EXCEPT !.i = x] \in RunState
           /\ \A x \in BOOLEAN : [r EXCEPT !.seeding = x] \in RunState
           /\ \A x \in BOOLEAN : [r EXCEPT !.errors = x] \in RunState
BY DEF RunState

\* Values that the code assigns to them.
LEMMA Values ==
    /\ {"idle", "page", "rows", "fetched", "filter", "seed", "report",
        "notify", "mark"} = PC
    /\ 0 \in Nat /\ 0 \in 0..MaxPages /\ 1 \in Nat \ {0} /\ \A j \in Nat \ {0} : j + 1 \in Nat \ {0}
    /\ TRUE \in BOOLEAN /\ FALSE \in BOOLEAN
    /\ <<>> \in Seq(Deviation)
BY MaxPagesAssumption DEF PC

LEMMA FetchReturnsType ==
    ASSUME NEW r \in RunState
    PROVE  FetchReturns(r) \in RunState
BY Update, Values DEF FetchReturns

\* The row, the page entry or the list entry that a process is looking at.
LEMMA EntryType ==
    ASSUME NEW s \in Seq(Deviation), NEW i \in Nat \ {0}, i <= Len(s)
    PROVE  s[i] \in Deviation
OBVIOUS

LEMMA RunType ==
    ASSUME TypeOK, NEW p \in Proc
    PROVE  /\ run[p] \in RunState
           /\ run[p].pc \in PC /\ run[p].cmd \in Command
           /\ run[p].started \in 0..MaxPosts
           /\ run[p].offset \in Nat /\ run[p].pages_read \in Nat
           /\ run[p].pages_read \in 0..MaxPages
           /\ run[p].pc = "page" => run[p].pages_read < MaxPages
           /\ run[p].raw_results \in Seq(Deviation)
           /\ run[p].collected \in Seq(Deviation)
           /\ run[p].new \in Seq(Deviation)
           /\ run[p].i \in Nat \ {0}
           /\ run[p].errors \in BOOLEAN /\ run[p].seeding \in BOOLEAN
           /\ run[p].has_more \in BOOLEAN
<1>1. run[p] \in RunState /\ (run[p].pc = "page" => run[p].pages_read < MaxPages)
  BY DEF TypeOK
<1> QED
  BY <1>1, MaxPagesAssumption DEF RunState

\* Every step of the system keeps the types.
LEMMA TypeStep == TypeOK /\ [Next]_vars => TypeOK'
<1> SUFFICES ASSUME TypeOK, [Next]_vars PROVE TypeOK'
  OBVIOUS
<1>1. CASE UNCHANGED vars
  BY <1>1 DEF TypeOK, vars
<1>2. CASE Post
  BY <1>2, MaxPostsAssumption DEF TypeOK, Post
<1>3. ASSUME NEW p \in Proc, NEW r \in RunState, Become(p, r), WithinCap(r),
             UNCHANGED shared
      PROVE  TypeOK'
  <2>1. /\ run' \in [Proc -> RunState]
        /\ \A q \in Proc : run'[q].pc = "page" => run'[q].pages_read < MaxPages
    BY <1>3, BecomeType
  <2> QED
    BY <1>3, <2>1 DEF TypeOK, shared
<1>4. ASSUME NEW p \in Proc, NEW c \in Commands, Start(p, c)
      PROVE  TypeOK'
  <2>1. [NoRun EXCEPT !.pc = "page", !.cmd = c, !.started = posted] \in RunState
    <3>1. c \in Command /\ posted \in 0..MaxPosts
      BY <1>4, CommandsAssumption DEF TypeOK
    <3> QED
      BY <3>1, NoRunType, Update, Values
  <2>2. WithinCap([NoRun EXCEPT !.pc = "page", !.cmd = c, !.started = posted])
    BY MaxPagesAssumption DEF WithinCap, NoRun
  <2> QED
    BY <1>3, <1>4, <2>1, <2>2 DEF Start
<1>5. ASSUME NEW p \in Proc, RequestPage(p)
      PROVE  TypeOK'
  <2>1. Page(run[p].offset) \in Seq(Deviation)
    BY PageType, RunType
  <2>2. (run[p].offset + PageSize < posted) \in BOOLEAN
    OBVIOUS
  <2>3. [run[p] EXCEPT !.pc = "rows",
                       !.pages_read = @ + 1,
                       !.raw_results = Page(run[p].offset),
                       !.has_more = run[p].offset + PageSize < posted,
                       !.i = 1] \in RunState
    <3>1. run[p].pages_read + 1 \in 0..MaxPages
      BY <1>5, RunType, MaxPagesAssumption DEF RequestPage
    <3> DEFINE more == run[p].offset + PageSize < posted
               page == Page(run[p].offset)
    <3> HIDE DEF more, page
    <3>2. more \in BOOLEAN /\ page \in Seq(Deviation)
      BY <2>1, <2>2 DEF more, page
    <3>3. [run[p] EXCEPT !.pc = "rows", !.pages_read = @ + 1,
                         !.raw_results = page, !.has_more = more, !.i = 1]
            \in RunState
      BY <3>1, <3>2, RunType, Update, Values
    <3> QED
      BY <3>3 DEF more, page
  <2>4. WithinCap([run[p] EXCEPT !.pc = "rows",
                                 !.pages_read = @ + 1,
                                 !.raw_results = Page(run[p].offset),
                                 !.has_more = run[p].offset + PageSize < posted,
                                 !.i = 1])
    BY RunType DEF WithinCap, RunState
  <2> QED
    BY <1>3, <1>5, <2>3, <2>4 DEF RequestPage
<1>6. ASSUME NEW p \in Proc, ExamineRow(p)
      PROVE  TypeOK'
  <2> DEFINE d == run[p].raw_results[run[p].i]
  <2>1. d \in Deviation
    BY <1>6, RunType, EntryType DEF ExamineRow, MoreRows
  <2>2. [run[p] EXCEPT !.i = @ + 1] \in RunState
    BY RunType, Update, Values
  <2>3. FetchReturns(run[p]) \in RunState
    BY RunType, FetchReturnsType
  <2>4. [run[p] EXCEPT !.i = @ + 1, !.collected = Append(@, d)] \in RunState
    <3>1. Append(run[p].collected, d) \in Seq(Deviation)
      BY <2>1, RunType
    <3> QED
      BY <3>1, RunType, Update, Values
  <2>5. /\ WithinCap([run[p] EXCEPT !.i = @ + 1])
        /\ WithinCap(FetchReturns(run[p]))
        /\ WithinCap([run[p] EXCEPT !.i = @ + 1, !.collected = Append(@, d)])
    BY <1>6, RunType DEF ExamineRow, WithinCap, RunState, FetchReturns
  <2> QED
    BY <1>3, <1>6, <2>2, <2>3, <2>4, <2>5 DEF ExamineRow
<1>7. ASSUME NEW p \in Proc, EndOfPage(p)
      PROVE  TypeOK'
  <2>1. [run[p] EXCEPT !.pc = "page", !.offset = @ + Len(run[p].raw_results)]
          \in RunState
    <3>1. run[p].offset + Len(run[p].raw_results) \in Nat
      BY RunType
    <3> QED
      BY <3>1, RunType, Update, Values
  <2>2. FetchReturns(run[p]) \in RunState
    BY RunType, FetchReturnsType
  <2>3. WithinCap(FetchReturns(run[p]))
    BY RunType DEF WithinCap, RunState, FetchReturns
  <2>4. ~LastPage(run[p]) =>
          WithinCap([run[p] EXCEPT !.pc = "page",
                                   !.offset = @ + Len(run[p].raw_results)])
    BY RunType, MaxPagesAssumption DEF WithinCap, RunState, LastPage
  <2> QED
    BY <1>3, <1>7, <2>1, <2>2, <2>3, <2>4 DEF EndOfPage
<1>8. ASSUME NEW p \in Proc, UseFetched(p)
      PROVE  TypeOK'
  <2>1. [run[p] EXCEPT !.pc = "seed", !.new = run[p].collected] \in RunState
    BY RunType, Update, Values
  <2>2. (run[p].cmd = "run" /\ IsEmpty) \in BOOLEAN
    OBVIOUS
  <2>3. [run[p] EXCEPT !.pc = "filter", !.seeding = run[p].cmd = "run" /\ IsEmpty]
          \in RunState
    BY <2>2, RunType, Update, Values
  <2>4. /\ WithinCap([run[p] EXCEPT !.pc = "seed", !.new = run[p].collected])
        /\ WithinCap([run[p] EXCEPT !.pc = "filter",
                                    !.seeding = run[p].cmd = "run" /\ IsEmpty])
    BY RunType DEF WithinCap, RunState
  <2> QED
    BY <1>3, <1>8, <2>1, <2>3, <2>4 DEF UseFetched
<1>9. ASSUME NEW p \in Proc, Filter(p)
      PROVE  TypeOK'
  <2> DEFINE d == run[p].collected[run[p].i]
  <2>1. d \in Deviation
    BY <1>9, RunType, EntryType DEF Filter
  <2>2. [run[p] EXCEPT !.i = @ + 1,
                       !.new = IF HasSeen(d) THEN @ ELSE Append(@, d)] \in RunState
    <3>1. (IF HasSeen(d) THEN run[p].new ELSE Append(run[p].new, d))
            \in Seq(Deviation)
      BY <2>1, RunType
    <3> QED
      BY <3>1, RunType, Update, Values
  <2>3. WithinCap([run[p] EXCEPT !.i = @ + 1,
                       !.new = IF HasSeen(d) THEN @ ELSE Append(@, d)])
    BY <1>9, RunType DEF Filter, WithinCap, RunState
  <2> QED
    BY <1>3, <1>9, <2>2, <2>3 DEF Filter
<1>10. ASSUME NEW p \in Proc, Dispatch(p)
       PROVE  TypeOK'
  <2>1. [run[p] EXCEPT !.pc = IF run[p].seeding THEN "seed"
                              ELSE IF run[p].cmd = "dry_run" THEN "report"
                              ELSE "notify",
                       !.i = 1] \in RunState
    BY RunType, Update, Values
  <2>2. WithinCap([run[p] EXCEPT !.pc = IF run[p].seeding THEN "seed"
                                        ELSE IF run[p].cmd = "dry_run" THEN "report"
                                        ELSE "notify",
                                 !.i = 1])
    BY RunType DEF WithinCap, RunState
  <2> QED
    BY <1>3, <1>10, <2>1, <2>2 DEF Dispatch
<1>11. ASSUME NEW p \in Proc, SeedOne(p)
       PROVE  TypeOK'
  <2>1. [run[p] EXCEPT !.i = @ + 1] \in RunState
    BY RunType, Update, Values
  <2>2. /\ run' \in [Proc -> RunState]
        /\ \A q \in Proc : run'[q].pc = "page" => run'[q].pages_read < MaxPages
    <3>1. WithinCap([run[p] EXCEPT !.i = @ + 1])
      BY <1>11, RunType DEF SeedOne, WithinCap, RunState
    <3> QED
      BY <1>11, <2>1, <3>1, BecomeType DEF SeedOne
  <2>3. row' \in [Deviation -> {"none", "seeded", "notified"}]
    BY <1>11 DEF SeedOne, MarkSeen, TypeOK
  <2> QED
    BY <1>11, <2>2, <2>3 DEF SeedOne, TypeOK
<1>12. ASSUME NEW p \in Proc, Send(p)
       PROVE  TypeOK'
  <2>1. run[p].new[run[p].i] \in Deviation
    BY <1>12, RunType, EntryType DEF Send, MoreNew
  <2>2. [run[p] EXCEPT !.pc = "mark"] \in RunState
    BY RunType, Update, Values
  <2>3. /\ run' \in [Proc -> RunState]
        /\ \A q \in Proc : run'[q].pc = "page" => run'[q].pages_read < MaxPages
    <3>1. WithinCap([run[p] EXCEPT !.pc = "mark"])
      BY <1>12, RunType DEF Send, WithinCap, RunState
    <3> QED
      BY <1>12, <2>2, <3>1, BecomeType DEF Send
  <2> QED
    BY <1>12, <2>1, <2>3 DEF Send, Deliver, TypeOK
<1>13. ASSUME NEW p \in Proc, SendFails(p)
       PROVE  TypeOK'
  <2>1. run[p].new[run[p].i] \in Deviation
    BY <1>13, RunType, EntryType DEF SendFails, MoreNew
  <2>2. [run[p] EXCEPT !.i = @ + 1, !.errors = TRUE] \in RunState
    BY RunType, Update, Values
  <2>3. /\ run' \in [Proc -> RunState]
        /\ \A q \in Proc : run'[q].pc = "page" => run'[q].pages_read < MaxPages
    <3>1. WithinCap([run[p] EXCEPT !.i = @ + 1, !.errors = TRUE])
      BY <1>13, RunType DEF SendFails, WithinCap, RunState
    <3> QED
      BY <1>13, <2>2, <3>1, BecomeType DEF SendFails
  <2> QED
    BY <1>13, <2>1, <2>3 DEF SendFails, Deliver, TypeOK
<1>14. ASSUME NEW p \in Proc, Mark(p)
       PROVE  TypeOK'
  <2>1. [run[p] EXCEPT !.pc = "notify", !.i = @ + 1] \in RunState
    BY RunType, Update, Values
  <2>2. /\ run' \in [Proc -> RunState]
        /\ \A q \in Proc : run'[q].pc = "page" => run'[q].pages_read < MaxPages
    <3>1. WithinCap([run[p] EXCEPT !.pc = "notify", !.i = @ + 1])
      BY <1>14, RunType DEF Mark, WithinCap, RunState
    <3> QED
      BY <1>14, <2>1, <3>1, BecomeType DEF Mark
  <2>3. row' \in [Deviation -> {"none", "seeded", "notified"}]
    BY <1>14 DEF Mark, MarkSeen, TypeOK
  <2> QED
    BY <1>14, <2>2, <2>3 DEF Mark, TypeOK
<1>15. ASSUME NEW p \in Proc, Finish(p)
       PROVE  TypeOK'
  <2>1. /\ run' \in [Proc -> RunState]
        /\ \A q \in Proc : run'[q].pc = "page" => run'[q].pages_read < MaxPages
    BY <1>15, NoRunType, BecomeType DEF Finish, WithinCap, NoRun
  <2>2. run[p].started \in 0..MaxPosts /\ posted \in 0..MaxPosts
    BY RunType DEF TypeOK
  <2> QED
    BY <1>15, <2>1, <2>2 DEF Finish, TypeOK
<1>16. ASSUME NEW p \in Proc, FetchFails(p) \/ StoreFails(p) \/ Crash(p)
       PROVE  TypeOK'
  <2>1. WithinCap(NoRun)
    BY DEF WithinCap, NoRun
  <2> QED
    BY <1>3, <1>16, <2>1, NoRunType DEF FetchFails, StoreFails, Crash, Abort
<1> QED
  BY <1>1, <1>2, <1>4, <1>5, <1>6, <1>7, <1>8, <1>9, <1>10, <1>11, <1>12,
     <1>13, <1>14, <1>15, <1>16
  DEF Next, Fetch, Handle, Fail

LEMMA TypeInit == Init => TypeOK
<1> SUFFICES ASSUME Init PROVE TypeOK
  OBVIOUS
<1>1. backlog \in 0..MaxPosts
  BY BacklogsAssumption DEF Init
<1> QED
  BY <1>1, MaxPostsAssumption, NoRunType DEF Init, TypeOK, NoRun

\* In every reachable state, whatever the constants, the variables have their
\* types: no page, list or table entry is anything but a deviation, and no fetch
\* asks for more than MAX_PAGES pages (sources.py:132).
THEOREM TypeCorrect == Spec => []TypeOK
BY TypeInit, TypeStep, PTL DEF Spec

-----------------------------------------------------------------------------
(***************************************************************************)
(* What a process still owes.                                              *)
(***************************************************************************)
\* A process that is about to mark a deviation has sent it.
Marks(r) ==
    r.pc = "mark" => r.i <= Len(r.new) /\ r.new[r.i] \in delivered

\* d has a row, or the loop over `new` has not come to it yet.
Owed(r, d) ==
    \/ HasSeen(d)
    \/ \E m \in 1..Len(r.new) : r.i <= m /\ r.new[m] = d

\* Nothing that was fetched gets lost between the list that fetch() returned,
\* the list of what is new, and the table.
Accounts(r) ==
    /\ r.pc = "fetched" => r.i = 1
    /\ r.pc = "report" => r.cmd = "dry_run"
    /\ r.pc = "filter" =>
        \A k \in 1..Len(r.collected) :
            k < r.i => HasSeen(r.collected[k]) \/ InSeq(r.collected[k], r.new)
    /\ r.pc \in {"seed", "notify", "mark"} =>
        \/ r.errors
        \/ \A k \in 1..Len(r.collected) : Owed(r, r.collected[k])

IInv ==
    /\ TypeOK
    /\ NotifiedMeansDelivered
    /\ \A p \in Proc : Marks(run[p]) /\ Accounts(run[p])

\* A row is never deleted, and a delivery cannot be undone.
LEMMA Monotone ==
    ASSUME TypeOK, [Next]_vars
    PROVE  /\ \A d \in Deviation : HasSeen(d) => HasSeen(d)'
           /\ delivered \subseteq delivered'
<1>1. CASE UNCHANGED vars
  BY <1>1 DEF vars, HasSeen
<1>2. CASE Post
  BY <1>2 DEF Post, HasSeen
<1>3. ASSUME NEW p \in Proc, UNCHANGED shared
      PROVE  /\ \A d \in Deviation : HasSeen(d) => HasSeen(d)'
             /\ delivered \subseteq delivered'
  BY <1>3 DEF shared, HasSeen
<1>4. ASSUME NEW p \in Proc, NEW c \in Commands, Start(p, c)
      PROVE  UNCHANGED shared
  BY <1>4 DEF Start
<1>5. ASSUME NEW p \in Proc, Fetch(p)
      PROVE  UNCHANGED shared
  BY <1>5 DEF Fetch, RequestPage, ExamineRow, EndOfPage
<1>6. ASSUME NEW p \in Proc, UseFetched(p) \/ Filter(p) \/ Dispatch(p)
      PROVE  UNCHANGED shared
  BY <1>6 DEF UseFetched, Filter, Dispatch
<1>7. ASSUME NEW p \in Proc, FetchFails(p) \/ StoreFails(p) \/ Crash(p)
      PROVE  UNCHANGED shared
  BY <1>7 DEF FetchFails, StoreFails, Crash, Abort
<1>8. ASSUME NEW p \in Proc, SeedOne(p) \/ Mark(p)
      PROVE  /\ \A d \in Deviation : HasSeen(d) => HasSeen(d)'
             /\ delivered \subseteq delivered'
  BY <1>8 DEF SeedOne, Mark, MarkSeen, HasSeen, TypeOK
<1>9. ASSUME NEW p \in Proc, Send(p) \/ SendFails(p)
      PROVE  /\ \A d \in Deviation : HasSeen(d) => HasSeen(d)'
             /\ delivered \subseteq delivered'
  BY <1>9 DEF Send, SendFails, Deliver, HasSeen
<1>10. ASSUME NEW p \in Proc, Finish(p)
       PROVE  /\ \A d \in Deviation : HasSeen(d) => HasSeen(d)'
              /\ delivered \subseteq delivered'
  BY <1>10 DEF Finish, HasSeen
<1> QED
  BY <1>1, <1>2, <1>3, <1>4, <1>5, <1>6, <1>7, <1>8, <1>9, <1>10
  DEF Next, Handle, Fail

\* What one process does never takes back what another one relies on.
LEMMA Others ==
    ASSUME TypeOK, [Next]_vars,
           NEW q \in Proc, run'[q] = run[q], Marks(run[q]), Accounts(run[q])
    PROVE  Marks(run[q])' /\ Accounts(run[q])'
<1>1. \A k \in 1..Len(run[q].collected) : run[q].collected[k] \in Deviation
  BY RunType
<1>2. \A d \in Deviation : HasSeen(d) => HasSeen(d)'
  BY Monotone
<1>3. delivered \subseteq delivered'
  BY Monotone
<1>4. Marks(run[q])'
  BY <1>3 DEF Marks
<1>5. \A d \in Deviation : Owed(run[q], d) => Owed(run[q], d)'
  BY <1>2 DEF Owed
<1>6. Accounts(run[q])'
  BY <1>1, <1>2, <1>5 DEF Accounts, InSeq
<1> QED
  BY <1>4, <1>6

\* The step a process takes itself, action by action.
LEMMA OwnStep ==
    ASSUME IInv, TypeOK', NEW p \in Proc,
           \/ \E c \in Commands : Start(p, c)
           \/ Fetch(p) \/ Handle(p) \/ Fail(p),
           [Next]_vars
    PROVE  Marks(run[p])' /\ Accounts(run[p])'
\* r is the value of the locals before the step, so that a prime leaves it alone.
<1>0. PICK r \in RunState : r = run[p]
  BY DEF IInv, TypeOK
<1>1. /\ TypeOK /\ Marks(run[p]) /\ Accounts(run[p])
      /\ run \in [Proc -> RunState] /\ r = run[p]
  BY <1>0 DEF IInv, TypeOK
<1>2. /\ \A d \in Deviation : HasSeen(d) => HasSeen(d)'
      /\ delivered \subseteq delivered'
  BY <1>1, Monotone
<1>3. ASSUME run'[p].pc \in {"idle", "page", "rows"}
      PROVE  Marks(run[p])' /\ Accounts(run[p])'
  BY <1>3 DEF Marks, Accounts
<1>4. ASSUME run'[p].pc = "fetched", run'[p].i = 1
      PROVE  Marks(run[p])' /\ Accounts(run[p])'
  BY <1>4 DEF Marks, Accounts
<1>5. CASE \E c \in Commands : Start(p, c)
  <2>1. run'[p].pc = "page"
    BY <1>1, <1>5 DEF Start, Become, NoRun
  <2> QED
    BY <1>3, <2>1
<1>6. CASE RequestPage(p)
  <2>1. run'[p].pc = "rows"
    BY <1>1, <1>6, RunType DEF RequestPage, Become, RunState
  <2> QED
    BY <1>3, <2>1
<1>7. CASE ExamineRow(p) \/ EndOfPage(p)
  <2>1. r.pc = "rows"
    BY <1>1, <1>7 DEF ExamineRow, EndOfPage
  <2>2. CASE Become(p, FetchReturns(r))
    <3>1. run'[p].pc = "fetched" /\ run'[p].i = 1
      BY <1>1, <2>2 DEF Become, FetchReturns, RunState
    <3> QED
      BY <1>4, <3>1
  <2>3. CASE \E j : Become(p, [r EXCEPT !.i = j])
    BY <1>1, <1>3, <2>1, <2>3 DEF Become, RunState
  <2>4. CASE \E j, s : Become(p, [r EXCEPT !.i = j, !.collected = s])
    BY <1>1, <1>3, <2>1, <2>4 DEF Become, RunState
  <2>5. CASE \E o : Become(p, [r EXCEPT !.pc = "page", !.offset = o])
    BY <1>1, <1>3, <2>5 DEF Become, RunState
  <2> QED
    BY <1>1, <1>7, <2>2, <2>3, <2>4, <2>5 DEF ExamineRow, EndOfPage
<1>8. CASE UseFetched(p)
  <2>1. CASE r.cmd = "seed"
    <3>1. /\ run'[p].pc = "seed" /\ run'[p].i = 1
          /\ run'[p].collected = r.collected /\ run'[p].new = r.collected
      BY <1>1, <1>8, <2>1, ZenonT(60) DEF UseFetched, Become, RunState, Accounts
    <3>2. \A k \in 1..Len(r.collected) : Owed(run[p], r.collected[k])'
      <4>1. Len(r.collected) \in Nat
        BY <1>1, RunType
      <4>2. \A k \in 1..Len(r.collected) :
              run'[p].i <= k /\ run'[p].new[k] = r.collected[k]
        BY <3>1
      <4> QED
        BY <3>1, <4>1, <4>2 DEF Owed
    <3> QED
      BY <3>1, <3>2 DEF Marks, Accounts
  <2>2. CASE r.cmd # "seed"
    <3> DEFINE seeding == r.cmd = "run" /\ IsEmpty
    <3>1. run' = [run EXCEPT ![p] = [r EXCEPT !.pc = "filter", !.seeding = seeding]]
      BY <1>1, <1>8, <2>2 DEF UseFetched, Become
    <3> HIDE DEF seeding
    <3>2. r.pc = "fetched" /\ r.i = 1
      BY <1>1, <1>8 DEF UseFetched, Accounts
    <3>3. run'[p].pc = "filter" /\ run'[p].i = 1
      BY <1>1, <3>1, <3>2 DEF RunState
    <3> QED
      BY <1>1, <3>3 DEF Marks, Accounts
  <2> QED
    BY <2>1, <2>2
<1>9. CASE Filter(p)
  <2> DEFINE d == r.collected[r.i]
  <2>1. r.pc = "filter" /\ r.i <= Len(r.collected) /\ d \in Deviation
    BY <1>1, <1>9, RunType, EntryType DEF Filter
  <2>2. /\ run'[p].pc = "filter" /\ run'[p].i = r.i + 1
        /\ run'[p].collected = r.collected
        /\ run'[p].new = IF HasSeen(d) THEN r.new ELSE Append(r.new, d)
    BY <1>1, <1>9 DEF Filter, Become, RunState
  <2>3. r.new \in Seq(Deviation) /\ r.collected \in Seq(Deviation)
        /\ r.i \in Nat \ {0}
    BY <1>1, RunType
  <2>4. HasSeen(d)' \/ InSeq(d, run'[p].new)
    <3>1. CASE HasSeen(d)
      BY <3>1, <1>2, <2>1
    <3>2. CASE ~HasSeen(d)
      <4>1. run'[p].new = Append(r.new, d)
        BY <2>2, <3>2
      <4>2. Len(run'[p].new) = Len(r.new) + 1 /\ run'[p].new[Len(r.new) + 1] = d
        BY <4>1, <2>1, <2>3
      <4>3. Len(r.new) + 1 \in 1..Len(run'[p].new)
        BY <4>2, <2>3
      <4> QED
        BY <4>2, <4>3 DEF InSeq
    <3> QED
      BY <3>1, <3>2
  <2>5. ASSUME NEW e \in Deviation, InSeq(e, r.new)
        PROVE  InSeq(e, run'[p].new)
    <3>1. CASE HasSeen(d)
      BY <2>2, <2>5, <3>1
    <3>2. CASE ~HasSeen(d)
      <4>1. PICK k \in 1..Len(r.new) : r.new[k] = e
        BY <2>5 DEF InSeq
      <4>2. run'[p].new = Append(r.new, d)
        BY <2>2, <3>2
      <4>3. Len(run'[p].new) = Len(r.new) + 1 /\ run'[p].new[k] = r.new[k]
        BY <4>2, <2>1, <2>3
      <4>4. k \in 1..Len(run'[p].new)
        BY <4>3, <2>3
      <4> QED
        BY <4>1, <4>3, <4>4 DEF InSeq
    <3> QED
      BY <3>1, <3>2
  <2>6. ASSUME NEW k \in 1..Len(r.collected), k < r.i + 1
        PROVE  HasSeen(r.collected[k])' \/ InSeq(r.collected[k], run'[p].new)
    <3>1. CASE k = r.i
      BY <2>4, <3>1
    <3>2. CASE k < r.i
      <4>1. r.collected[k] \in Deviation
        BY <2>3
      <4>2. HasSeen(r.collected[k]) \/ InSeq(r.collected[k], r.new)
        BY <1>1, <2>1, <3>2 DEF Accounts
      <4> QED
        BY <1>2, <2>5, <4>1, <4>2
    <3> QED
      BY <2>3, <2>6, <3>1, <3>2
  <2>7. Accounts(run[p])'
    BY <2>2, <2>6 DEF Accounts, InSeq
  <2> QED
    BY <2>2, <2>7 DEF Marks
<1>10. CASE Dispatch(p)
  <2>1. /\ run'[p].pc \in {"seed", "report", "notify"} /\ run'[p].i = 1
        /\ run'[p].pc = "report" => run'[p].cmd = "dry_run"
        /\ run'[p].collected = r.collected /\ run'[p].new = r.new
    BY <1>1, <1>10 DEF Dispatch, Become, RunState
  <2>2. r.pc = "filter" /\ r.i > Len(r.collected) /\ r.i \in Nat
        /\ r.collected \in Seq(Deviation) /\ Len(r.collected) \in Nat
    BY <1>1, <1>10, RunType DEF Dispatch
  <2>3. ASSUME NEW k \in 1..Len(r.collected)
        PROVE  Owed(run[p], r.collected[k])'
    <3>1. HasSeen(r.collected[k]) \/ InSeq(r.collected[k], r.new)
      BY <1>1, <2>2 DEF Accounts
    <3>2. r.collected[k] \in Deviation
      BY <2>2
    <3> QED
      BY <1>2, <2>1, <3>1, <3>2 DEF Owed, InSeq
  <2>4. Accounts(run[p])'
    BY <2>1, <2>3 DEF Accounts
  <2> QED
    BY <2>1, <2>4 DEF Marks
\* The loops over `new`: what remains owed when the loop moves on.
<1>11. ASSUME r.pc \in {"seed", "mark"}, run'[p].pc \in {"seed", "notify"},
              r.i <= Len(r.new),
              run'[p].i = r.i + 1, run'[p].new = r.new,
              run'[p].collected = r.collected, run'[p].errors = r.errors,
              HasSeen(r.new[r.i])'
       PROVE  Marks(run[p])' /\ Accounts(run[p])'
  <2>1. /\ r.i \in Nat \ {0} /\ Len(r.new) \in Nat
        /\ \A k \in 1..Len(r.collected) : r.collected[k] \in Deviation
    BY <1>1, RunType
  <2>2. ASSUME NEW e \in Deviation, Owed(r, e)
        PROVE  Owed(run[p], e)'
    BY <1>2, <1>11, <2>1, <2>2 DEF Owed
  <2>3. Accounts(run[p])'
    BY <1>1, <1>11, <2>1, <2>2 DEF Accounts
  <2> QED
    BY <1>11, <2>3 DEF Marks
<1>12. CASE SeedOne(p)
  <2>1. r.pc = "seed" /\ r.i <= Len(r.new) /\ r.new[r.i] \in Deviation
    BY <1>1, <1>12, RunType, EntryType DEF SeedOne, MoreNew
  <2>2. HasSeen(r.new[r.i])'
    BY <1>1, <1>12, <2>1 DEF SeedOne, MarkSeen, HasSeen, TypeOK
  <2>3. /\ run'[p].pc = "seed" /\ run'[p].i = r.i + 1 /\ run'[p].new = r.new
        /\ run'[p].collected = r.collected /\ run'[p].errors = r.errors
    BY <1>1, <1>12, <2>1 DEF SeedOne, Become, RunState
  <2> QED
    BY <1>11, <2>1, <2>2, <2>3
<1>13. CASE Send(p)
  <2>1. /\ run'[p].pc = "mark" /\ run'[p].i = r.i /\ run'[p].new = r.new
        /\ run'[p].collected = r.collected /\ run'[p].errors = r.errors
        /\ r.pc = "notify" /\ r.i <= Len(r.new)
    BY <1>1, <1>13 DEF Send, MoreNew, Become, RunState
  <2>2. r.new[r.i] \in delivered'
    BY <1>1, <1>13 DEF Send, Deliver
  <2>3. row' = row
    BY <1>13 DEF Send
  <2>4. Accounts(run[p])'
    BY <1>1, <2>1, <2>3 DEF Accounts, Owed, HasSeen
  <2> QED
    BY <2>1, <2>2, <2>4 DEF Marks
<1>14. CASE SendFails(p)
  <2>1. run'[p].pc = "notify" /\ run'[p].errors = TRUE
    BY <1>1, <1>14 DEF SendFails, Become, RunState
  <2> QED
    BY <2>1 DEF Marks, Accounts
<1>15. CASE Mark(p)
  <2>1. r.pc = "mark" /\ r.i <= Len(r.new)
    BY <1>1, <1>15 DEF Mark, Marks
  <2>2. r.new[r.i] \in Deviation
    BY <1>1, <2>1, RunType, EntryType
  <2>3. HasSeen(r.new[r.i])'
    BY <1>1, <1>15, <2>2 DEF Mark, MarkSeen, HasSeen, TypeOK
  <2>4. /\ run'[p].pc = "notify" /\ run'[p].i = r.i + 1 /\ run'[p].new = r.new
        /\ run'[p].collected = r.collected /\ run'[p].errors = r.errors
    BY <1>1, <1>15 DEF Mark, Become, RunState
  <2> QED
    BY <1>11, <2>1, <2>3, <2>4
<1>16. CASE Finish(p) \/ FetchFails(p) \/ StoreFails(p) \/ Crash(p)
  <2>1. run'[p].pc = "idle"
    BY <1>1, <1>16
    DEF Finish, FetchFails, StoreFails, Crash, Abort, Become, NoRun
  <2> QED
    BY <1>3, <2>1
<1> QED
  BY <1>5, <1>6, <1>7, <1>8, <1>9, <1>10, <1>12, <1>13, <1>14, <1>15, <1>16
  DEF Fetch, Handle, Fail

\* Every step keeps the inductive invariant.
LEMMA Inductive == IInv /\ [Next]_vars => IInv'
<1> SUFFICES ASSUME IInv, [Next]_vars PROVE IInv'
  OBVIOUS
<1>1. TypeOK /\ TypeOK'
  BY TypeStep DEF IInv
<1>2. ASSUME NEW q \in Proc
      PROVE  Marks(run[q])' /\ Accounts(run[q])'
  <2>1. CASE \/ \E c \in Commands : Start(q, c)
             \/ Fetch(q) \/ Handle(q) \/ Fail(q)
    BY <1>1, <2>1, OwnStep
  <2>2. CASE run'[q] = run[q]
    BY <1>1, <2>2, Others DEF IInv
  <2>3. CASE \E p \in Proc \ {q} : \/ \E c \in Commands : Start(p, c)
                                  \/ Fetch(p) \/ Handle(p) \/ Fail(p)
    <3>1. PICK p \in Proc \ {q} : \/ \E c \in Commands : Start(p, c)
                                 \/ Fetch(p) \/ Handle(p) \/ Fail(p)
      BY <2>3
    <3>2. \E x : Become(p, x)
      <4>1. CASE \E c \in Commands : Start(p, c)
        BY <4>1 DEF Start
      <4>2. CASE Fetch(p)
        BY <4>2 DEF Fetch, RequestPage, ExamineRow, EndOfPage
      <4>3. CASE Handle(p)
        BY <4>3 DEF Handle, UseFetched, Filter, Dispatch, SeedOne, Send, Mark,
                    Finish
      <4>4. CASE Fail(p)
        BY <4>4 DEF Fail, FetchFails, SendFails, StoreFails, Crash, Abort
      <4> QED
        BY <3>1, <4>1, <4>2, <4>3, <4>4
    <3>3. run'[q] = run[q]
      BY <1>1, <3>2 DEF Become, TypeOK
    <3> QED
      BY <2>2, <3>3
  <2>4. CASE Post \/ UNCHANGED vars
    BY <2>2, <2>4 DEF Post, vars
  <2> QED
    BY <2>1, <2>3, <2>4 DEF Next
<1>3. NotifiedMeansDelivered'
  <2> SUFFICES ASSUME NEW d \in Deviation, row'[d] = "notified"
               PROVE  d \in delivered'
    BY DEF NotifiedMeansDelivered
  <2>1. CASE row[d] = "notified"
    BY <1>1, <2>1, Monotone DEF IInv, NotifiedMeansDelivered
  <2>2. CASE row[d] # "notified"
    <3>1. PICK p \in Proc : Mark(p)
      <4>1. row' # row
        BY <2>2
      <4>2. \A p \in Proc : ~SeedOne(p)
        BY <1>1, <2>2 DEF SeedOne, MarkSeen, TypeOK
      <4> QED
        BY <4>1, <4>2
        DEF Next, Post, Fetch, Handle, Fail, vars, shared, Start, RequestPage,
            ExamineRow, EndOfPage, UseFetched, Filter, Dispatch, Send, Finish,
            FetchFails, SendFails, StoreFails, Crash, Abort
    <3>2. d = run[p].new[run[p].i]
      BY <1>1, <2>2, <3>1 DEF Mark, MarkSeen, TypeOK
    <3>3. d \in delivered
      BY <3>1, <3>2 DEF IInv, Marks, Mark
    <3> QED
      BY <1>1, <3>3, Monotone
  <2> QED
    BY <2>1, <2>2
<1> QED
  BY <1>1, <1>2, <1>3 DEF IInv

LEMMA Initial == Init => IInv
<1> SUFFICES ASSUME Init PROVE IInv
  OBVIOUS
<1>1. TypeOK
  BY TypeInit
<1>2. NotifiedMeansDelivered
  BY DEF Init, NotifiedMeansDelivered
<1>3. \A p \in Proc : run[p].pc = "idle"
  BY DEF Init, NoRun
<1> QED
  BY <1>1, <1>2, <1>3 DEF IInv, Marks, Accounts

\* A run that records success has left nothing of what it fetched without a row.
LEMMA AccountsMeanHandled == IInv => SuccessMeansHandled
<1> SUFFICES ASSUME IInv, NEW p \in Proc, RecordsSuccess(p),
                    NEW k \in 1..Len(run[p].collected)
             PROVE  HasSeen(run[p].collected[k])
  BY DEF SuccessMeansHandled
<1>1. TypeOK /\ Accounts(run[p])
  BY DEF IInv
<1>2. run[p].pc # "report" /\ ~run[p].errors
  BY <1>1 DEF RecordsSuccess, Accounts
<1>3. run[p].pc \in {"seed", "notify"} /\ ~(run[p].i <= Len(run[p].new))
  BY <1>2 DEF RecordsSuccess, LoopDone, MoreNew
<1>4. Owed(run[p], run[p].collected[k])
  BY <1>1, <1>2, <1>3 DEF Accounts
<1>5. run[p].i \in Nat /\ Len(run[p].new) \in Nat
  BY <1>1, RunType
<1> QED
  BY <1>3, <1>4, <1>5 DEF Owed

\* Whatever fails, and however many processes write the table, a deviation is
\* recorded as notified only after it has reached the phone.
THEOREM DeliveredBeforeRecorded == Spec => []NotifiedMeansDelivered
<1>1. IInv => NotifiedMeansDelivered
  BY DEF IInv
<1> QED
  BY <1>1, Initial, Inductive, PTL DEF Spec

\* Whatever fails, and however many processes write the table, a run that
\* records success has left a row for every deviation it fetched.
THEOREM SuccessIsComplete == Spec => []SuccessMeansHandled
BY Initial, Inductive, AccountsMeanHandled, PTL DEF Spec

-----------------------------------------------------------------------------
(***************************************************************************)
(* The invariant of a fetch.                                               *)
(***************************************************************************)
FromFeed(s) == \A k \in 1..Len(s) : Usable(s[k]) /\ s[k] <= posted

\* Of what was in the feed when r started, everything above n is collected.
ReadAbove(r, n) ==
    \A d \in Deviation :
        Usable(d) /\ d <= r.started /\ d > n => InSeq(d, r.collected)

NoGap(r) ==
    \A k \in 1..Len(r.collected) : ReadAbove(r, r.collected[k])

\* d was in the feed when r started, or is older than something r has collected,
\* which may have been posted since.
InReach(r, d) ==
    d <= r.started \/ \E k \in 1..Len(r.collected) : d <= r.collected[k]

\* Of what is in reach, everything above n is collected.
ReadTo(r, n) ==
    \A d \in Deviation :
        Usable(d) /\ InReach(r, d) /\ d > n => InSeq(d, r.collected)

\* The page in raw_results was the feed from `top` downwards when it was
\* requested, and to its end if there was no more. Posts since then only push
\* that point further down the feed.
PageFrom(r, top) ==
    /\ top + r.offset <= posted
    /\ \A k \in 1..Len(r.raw_results) : r.raw_results[k] = top - k + 1
    /\ ~r.has_more => top <= Len(r.raw_results)
    /\ ReadTo(r, top - r.i + 1)

Fetching(r) ==
    /\ r.started <= posted
    /\ FromFeed(r.collected)
    /\ NoGap(r)
    /\ r.pc = "page" => ReadTo(r, posted - r.offset)
    /\ r.pc = "rows" => /\ r.i <= Len(r.raw_results) + 1
                        /\ \E top \in Int : PageFrom(r, top)

FetchInv == TypeOK /\ \A p \in Proc : Fetching(run[p])

-----------------------------------------------------------------------------
\* The page at an offset is a stretch of the feed without holes.
LEMMA PageRows ==
    ASSUME TypeOK, NEW offset \in Nat
    PROVE  \A k \in 1..Len(Page(offset)) :
               Page(offset)[k] = posted - offset - k + 1
<1>1. Page(offset) \in Seq(Deviation)
  BY PageType
<1>2. DOMAIN Page(offset) = 1..Len(Page(offset))
  BY <1>1
<1>3. DOMAIN Page(offset) = 1..PageLength(offset)
  BY DEF Page
<1> QED
  BY <1>2, <1>3 DEF Page

\* A page after which there is no more goes to the end of the feed.
LEMMA LastPageLength ==
    ASSUME TypeOK, NEW offset \in Nat, ~(offset + PageSize < posted)
    PROVE  posted - offset <= Len(Page(offset))
<1>1. Page(offset) \in Seq(Deviation) /\ posted \in Nat
  BY PageType, MaxPostsAssumption DEF TypeOK
<1>2. DOMAIN Page(offset) = 1..Len(Page(offset)) /\ Len(Page(offset)) \in Nat
  BY <1>1
<1>3. DOMAIN Page(offset) = 1..PageLength(offset)
  BY DEF Page
<1>4. posted - offset <= PageLength(offset) /\ PageLength(offset) \in Int
  BY <1>1, PageSizeAssumption DEF PageLength
<1> QED
  BY <1>1, <1>2, <1>3, <1>4

\* What the run found in the feed is in reach.
LEMMA ReadToAbove ==
    ASSUME NEW r, NEW n, ReadTo(r, n)
    PROVE  ReadAbove(r, n)
BY DEF ReadTo, ReadAbove, InReach

\* Appending to a list keeps what is in it, and adds the new entry.
LEMMA Appended ==
    ASSUME NEW s \in Seq(Deviation), NEW d \in Deviation
    PROVE  /\ Len(Append(s, d)) = Len(s) + 1
           /\ \A k \in 1..Len(s) : Append(s, d)[k] = s[k]
           /\ Append(s, d)[Len(s) + 1] = d
           /\ InSeq(d, Append(s, d))
           /\ \A e \in Deviation : InSeq(e, s) => InSeq(e, Append(s, d))
<1>1. /\ Len(Append(s, d)) = Len(s) + 1 /\ Len(s) \in Nat
      /\ \A k \in 1..Len(s) : Append(s, d)[k] = s[k]
      /\ Append(s, d)[Len(s) + 1] = d
  OBVIOUS
<1>2. InSeq(d, Append(s, d))
  BY <1>1 DEF InSeq
<1>3. ASSUME NEW e \in Deviation, InSeq(e, s) PROVE InSeq(e, Append(s, d))
  <2>1. PICK k \in 1..Len(s) : s[k] = e
    BY <1>3 DEF InSeq
  <2>2. k \in 1..Len(Append(s, d)) /\ Append(s, d)[k] = e
    BY <1>1, <2>1
  <2> QED
    BY <2>2 DEF InSeq
<1> QED
  BY <1>1, <1>2, <1>3

\* A post, or a step of another process, leaves a fetch as it is.
LEMMA FetchOthers ==
    ASSUME FetchInv, TypeOK', NEW q \in Proc, run'[q] = run[q], posted <= posted'
    PROVE  Fetching(run[q])'
<1>1. Fetching(run[q]) /\ posted \in Nat /\ posted' \in Nat
  BY MaxPostsAssumption DEF FetchInv, TypeOK
<1>2. PICK r \in RunState : r = run[q]
  BY DEF FetchInv, TypeOK
<1>3. run'[q] = r
  BY <1>2
<1>4. /\ r.started \in Nat /\ r.offset \in Nat /\ r.i \in Nat
      /\ r.collected \in Seq(Deviation)
  BY <1>2 DEF RunState
<1>5. \A k \in 1..Len(r.collected) : r.collected[k] \in Nat
  <2>1. \A k \in 1..Len(r.collected) : r.collected[k] \in Deviation
    BY <1>4
  <2> QED
    BY <2>1, MaxPostsAssumption DEF Deviation
<1>6. (r.started <= posted)' /\ FromFeed(r.collected)' /\ NoGap(r)'
  BY <1>1, <1>2, <1>4, <1>5 DEF Fetching, FromFeed, NoGap, ReadAbove, InSeq
<1>7. r.pc = "page" => ReadTo(r, posted' - r.offset)
  BY <1>1, <1>2, <1>4 DEF Fetching, ReadTo, Deviation
<1>8. ASSUME NEW top \in Int, PageFrom(r, top)
      PROVE  PageFrom(r, top)'
  <2>1. top + r.offset <= posted'
    BY <1>1, <1>4, <1>8 DEF PageFrom
  <2>2. ReadTo(r, top - r.i + 1)'
    BY <1>8 DEF PageFrom, ReadTo, InReach, InSeq, Usable
  <2> QED
    BY <1>8, <2>1, <2>2 DEF PageFrom
<1> QED
  BY <1>1, <1>2, <1>3, <1>6, <1>7, <1>8 DEF Fetching, ReadTo, InReach

\* What a process can do.
Own(p) == (\E c \in Commands : Start(p, c)) \/ Fetch(p) \/ Handle(p) \/ Fail(p)

LEMMA OwnPosted ==
    ASSUME NEW p \in Proc, Own(p)
    PROVE  posted' = posted /\ backlog' = backlog /\ \E x : Become(p, x)
<1>1. CASE \E c \in Commands : Start(p, c)
  BY <1>1 DEF Start, shared
<1>2. CASE Fetch(p)
  BY <1>2 DEF Fetch, RequestPage, ExamineRow, EndOfPage, shared
<1>3. CASE Handle(p)
  BY <1>3 DEF Handle, UseFetched, Filter, Dispatch, SeedOne, Send, Mark, Finish,
              shared
<1>4. CASE Fail(p)
  BY <1>4 DEF Fail, FetchFails, SendFails, StoreFails, Crash, Abort, shared
<1> QED
  BY <1>1, <1>2, <1>3, <1>4 DEF Own

\* After the fetch nothing goes back to it, and its outcome is not touched.
LEMMA HandleLeavesFetch ==
    ASSUME TypeOK, NEW p \in Proc, Handle(p), ~Finish(p)
    PROVE  /\ run'[p].started = run[p].started
           /\ run'[p].collected = run[p].collected
           /\ run'[p].cmd = run[p].cmd
           /\ run'[p].pc \notin {"page", "rows"}
<1>0. PICK r \in RunState : r = run[p]
  BY DEF TypeOK
<1>1. TypeOK /\ run \in [Proc -> RunState] /\ r = run[p]
  BY <1>0 DEF TypeOK
<1>2. CASE UseFetched(p)
  <2> DEFINE seeding == r.cmd = "run" /\ IsEmpty
  <2>1. \/ Become(p, [r EXCEPT !.pc = "seed", !.new = r.collected])
        \/ Become(p, [r EXCEPT !.pc = "filter", !.seeding = seeding])
    BY <1>1, <1>2 DEF UseFetched
  <2> HIDE DEF seeding
  <2>2. \/ run'[p] = [r EXCEPT !.pc = "seed", !.new = r.collected]
        \/ run'[p] = [r EXCEPT !.pc = "filter", !.seeding = seeding]
    BY <1>1, <2>1 DEF Become
  <2> QED
    BY <1>1, <2>2 DEF RunState
<1>3. CASE Filter(p)
  <2> DEFINE d == r.collected[r.i]
             new == IF HasSeen(d) THEN r.new ELSE Append(r.new, d)
  <2>1. r.pc = "filter" /\ Become(p, [r EXCEPT !.i = @ + 1, !.new = new])
    BY <1>1, <1>3 DEF Filter
  <2> HIDE DEF new
  <2> QED
    BY <1>1, <2>1 DEF Become, RunState
<1>4. CASE Dispatch(p)
  BY <1>1, <1>4 DEF Dispatch, Become, RunState
<1>5. CASE SeedOne(p)
  BY <1>1, <1>5 DEF SeedOne, Become, RunState
<1>6. CASE Send(p)
  BY <1>1, <1>6 DEF Send, Become, RunState
<1>7. CASE Mark(p)
  BY <1>1, <1>7 DEF Mark, Become, RunState
<1> QED
  BY <1>1, <1>2, <1>3, <1>4, <1>5, <1>6, <1>7 DEF Handle

\* The step a process takes itself, action by action.
LEMMA FetchOwn ==
    ASSUME FetchInv, TypeOK', NEW p \in Proc, Own(p)
    PROVE  Fetching(run[p])'
<1>0. PICK r \in RunState : r = run[p]
  BY DEF FetchInv, TypeOK
<1>1. /\ TypeOK /\ Fetching(r) /\ run \in [Proc -> RunState] /\ r = run[p]
      /\ posted \in Nat /\ posted' = posted
  BY <1>0, OwnPosted, MaxPostsAssumption DEF FetchInv, TypeOK
<1>2. /\ r.started \in Nat /\ r.offset \in Nat /\ r.i \in Nat \ {0}
      /\ r.collected \in Seq(Deviation) /\ r.raw_results \in Seq(Deviation)
      /\ r.pages_read \in Nat
  BY <1>1, RunType
<1>3. ASSUME run'[p].started = r.started, run'[p].collected = r.collected,
             run'[p].pc \notin {"page", "rows"}
      PROVE  Fetching(run[p])'
  BY <1>1, <1>3 DEF Fetching, FromFeed, NoGap, ReadAbove
<1>4. ASSUME run'[p].collected = <<>>, run'[p].started <= posted,
             run'[p].pc # "rows",
             run'[p].pc = "page" =>
                 run'[p].offset = 0 /\ run'[p].started = posted
      PROVE  Fetching(run[p])'
  <2>1. FromFeed(run[p].collected)' /\ NoGap(run[p])'
    BY <1>4 DEF FromFeed, NoGap
  <2>2. run'[p].pc = "page" => ReadTo(run[p], posted - run[p].offset)'
    BY <1>1, <1>4, MaxPostsAssumption DEF ReadTo, InReach, Deviation
  <2> QED
    BY <1>1, <1>4, <2>1, <2>2 DEF Fetching
<1>5. CASE \E c \in Commands : Start(p, c)
  BY <1>1, <1>4, <1>5 DEF Start, Become, NoRun
<1>6. CASE RequestPage(p)
  <2> DEFINE top == posted - r.offset
  <2>1. /\ run'[p].pc = "rows" /\ run'[p].i = 1
        /\ run'[p].raw_results = Page(r.offset)
        /\ run'[p].has_more = (r.offset + PageSize < posted)
        /\ run'[p].started = r.started /\ run'[p].offset = r.offset
        /\ run'[p].collected = r.collected
    BY <1>1, <1>6 DEF RequestPage, Become, RunState
  <2>2. ReadTo(r, top)
    BY <1>1, <1>6 DEF RequestPage, Fetching
  <2>3. top \in Int /\ top - 1 + 1 = top /\ top + r.offset <= posted
    BY <1>1, <1>2
  <2>4. \A k \in 1..Len(Page(r.offset)) : Page(r.offset)[k] = top - k + 1
    BY <1>1, <1>2, PageRows
  <2>5. ~run'[p].has_more => top <= Len(Page(r.offset))
    BY <1>1, <1>2, <2>1, LastPageLength
  <2>6. Len(Page(r.offset)) \in Nat
    BY <1>1, <1>2, PageType
  <2>7. PageFrom(run[p], top)'
    BY <1>1, <2>1, <2>2, <2>3, <2>4, <2>5 DEF PageFrom, ReadTo, InReach, InSeq
  <2> QED
    BY <1>1, <1>2, <2>1, <2>3, <2>6, <2>7
    DEF Fetching, FromFeed, NoGap, ReadAbove, InSeq
<1>7. CASE ExamineRow(p)
  <2> DEFINE d == r.raw_results[r.i]
  <2>1. /\ r.pc = "rows" /\ r.i <= Len(r.raw_results) /\ d \in Deviation
        /\ Len(r.raw_results) \in Nat
    BY <1>1, <1>7, RunType, EntryType DEF ExamineRow, MoreRows
  <2>2. PICK top \in Int : PageFrom(r, top)
    BY <1>1, <2>1 DEF Fetching
  <2>3. /\ d = top - r.i + 1 /\ top + r.offset <= posted
        /\ ReadTo(r, d)
    BY <1>2, <2>1, <2>2 DEF PageFrom
  <2>4. CASE d \in Malformed /\ Become(p, [r EXCEPT !.i = @ + 1])
    <3>1. run' = [run EXCEPT ![p] = [r EXCEPT !.i = r.i + 1]]
      BY <2>4 DEF Become
    <3>2. run'[p] = [r EXCEPT !.i = r.i + 1]
      BY <1>1, <3>1
    <3>3. /\ run'[p].pc = "rows" /\ run'[p].i = r.i + 1
          /\ run'[p].raw_results = r.raw_results /\ run'[p].offset = r.offset
          /\ run'[p].has_more = r.has_more /\ run'[p].started = r.started /\ run'[p].collected = r.collected
      BY <2>1, <3>2 DEF RunState
    <3>4. ASSUME NEW e \in Deviation, Usable(e), InReach(r, e),
                 e > top - (r.i + 1) + 1
          PROVE  InSeq(e, r.collected)
      <4>1. e # d
        BY <2>4, <3>4 DEF Usable
      <4>2. e > d
        BY <1>2, <2>1, <2>3, <3>4, <4>1, MaxPostsAssumption DEF Deviation
      <4> QED
        BY <2>3, <3>4, <4>2 DEF ReadTo
    <3>5. PageFrom(run[p], top)'
      BY <1>1, <2>2, <2>3, <3>3, <3>4 DEF PageFrom, ReadTo, InReach
    <3> QED
      BY <1>1, <1>2, <2>1, <3>3, <3>5 DEF Fetching, FromFeed, NoGap, ReadAbove
  <2>5. CASE Become(p, FetchReturns(r))
    <3>1. /\ run'[p].pc = "fetched" /\ run'[p].started = r.started
          /\ run'[p].collected = r.collected
      BY <1>1, <2>5 DEF Become, FetchReturns, RunState
    <3> QED
      BY <1>3, <3>1
  <2>6. CASE /\ d \notin Malformed
             /\ Become(p, [r EXCEPT !.i = @ + 1, !.collected = Append(@, d)])
    <3> DEFINE c == Append(r.collected, d)
    <3>1. run' = [run EXCEPT ![p] = [r EXCEPT !.i = r.i + 1, !.collected = c]]
      BY <2>6 DEF Become
    <3>2. run'[p] = [r EXCEPT !.i = r.i + 1, !.collected = c]
      BY <1>1, <3>1
    <3>3. /\ run'[p].pc = "rows" /\ run'[p].i = r.i + 1
          /\ run'[p].raw_results = r.raw_results /\ run'[p].offset = r.offset
          /\ run'[p].has_more = r.has_more /\ run'[p].started = r.started /\ run'[p].collected = c
      BY <2>1, <3>2 DEF RunState
    <3>4. /\ Len(c) = Len(r.collected) + 1 /\ c[Len(r.collected) + 1] = d
          /\ \A k \in 1..Len(r.collected) : c[k] = r.collected[k]
          /\ InSeq(d, c) /\ Len(r.collected) \in Nat
          /\ \A e \in Deviation : InSeq(e, r.collected) => InSeq(e, c)
      BY <1>2, <2>1, Appended
    <3> HIDE DEF c
    <3>5. Usable(d) /\ d <= posted
      BY <1>1, <1>2, <2>1, <2>3, <2>6, MaxPostsAssumption DEF Usable, Deviation
    <3>6. \A n : ReadAbove(r, n) => ReadAbove(run'[p], n)
      BY <3>3, <3>4 DEF ReadAbove
    <3>7. ASSUME NEW e \in Deviation, Usable(e), InReach(run'[p], e),
                 e > top - (r.i + 1) + 1
          PROVE  InSeq(e, c)
      <4>1. e = d \/ e > d
        BY <1>2, <2>1, <2>3, <3>7, MaxPostsAssumption DEF Deviation
      <4>2. ASSUME e > d PROVE InReach(r, e)
        <5>1. CASE e <= r.started
          BY <5>1 DEF InReach
        <5>2. ASSUME NEW k \in 1..Len(c), e <= c[k]
              PROVE  InReach(r, e)
          <6>1. k # Len(r.collected) + 1
            BY <2>1, <3>4, <4>2, <5>2, MaxPostsAssumption DEF Deviation
          <6>2. k \in 1..Len(r.collected)
            BY <3>4, <5>2, <6>1
          <6> QED
            BY <3>4, <5>2, <6>2 DEF InReach
        <5> QED
          BY <3>3, <3>7, <5>1, <5>2 DEF InReach
      <4> QED
        BY <2>3, <3>4, <3>7, <4>1, <4>2 DEF ReadTo
    <3>8. PageFrom(run[p], top)'
      BY <1>1, <2>2, <2>3, <3>3, <3>7 DEF PageFrom, ReadTo, InReach
    <3>9. FromFeed(c)'
      BY <1>1, <3>4, <3>5, SMTT(30) DEF FromFeed, Fetching
    <3>10. NoGap(run'[p])
      <4>1. ReadAbove(r, d)
        BY <2>3, ReadToAbove
      <4> QED
        BY <1>1, <3>3, <3>4, <3>6, <4>1 DEF NoGap, Fetching
    <3> QED
      BY <1>1, <1>2, <2>1, <3>3, <3>8, <3>9, <3>10 DEF Fetching
  <2> QED
    BY <1>1, <1>7, <2>4, <2>5, <2>6 DEF ExamineRow
<1>8. CASE EndOfPage(p)
  <2>1. CASE Become(p, FetchReturns(r))
    <3>1. /\ run'[p].pc = "fetched" /\ run'[p].started = r.started
          /\ run'[p].collected = r.collected
      BY <1>1, <2>1 DEF Become, FetchReturns, RunState
    <3> QED
      BY <1>3, <3>1
  <2>2. CASE Become(p, [r EXCEPT !.pc = "page",
                                 !.offset = @ + Len(r.raw_results)])
    <3>1. /\ run'[p].pc = "page"
          /\ run'[p].offset = r.offset + Len(r.raw_results)
          /\ run'[p].started = r.started /\ run'[p].collected = r.collected
      BY <1>1, <2>2 DEF Become, RunState
    <3>2. /\ r.pc = "rows" /\ ~(r.i <= Len(r.raw_results))
          /\ Len(r.raw_results) \in Nat
      BY <1>1, <1>2, <1>8 DEF EndOfPage, MoreRows
    <3>3. PICK top \in Int : PageFrom(r, top)
      BY <1>1, <3>2 DEF Fetching
    <3>4. r.i = Len(r.raw_results) + 1
      BY <1>1, <1>2, <3>2 DEF Fetching
    <3>5. /\ posted - run'[p].offset \in Int /\ top - r.i + 1 \in Int
          /\ posted - run'[p].offset >= top - r.i + 1
      BY <1>1, <1>2, <3>1, <3>2, <3>3, <3>4 DEF PageFrom
    <3>6. ReadTo(r, top - r.i + 1)
      BY <3>3 DEF PageFrom
    <3>7. ReadTo(r, posted - run'[p].offset)
      BY <3>5, <3>6, MaxPostsAssumption DEF ReadTo, Deviation
    <3> QED
      BY <1>1, <3>1, <3>7
      DEF Fetching, FromFeed, NoGap, ReadAbove, ReadTo, InReach, InSeq
  <2> QED
    BY <1>1, <1>8, <2>1, <2>2 DEF EndOfPage
<1>9. CASE Handle(p) /\ ~Finish(p)
  <2>1. /\ run'[p].started = r.started /\ run'[p].collected = r.collected
        /\ run'[p].pc \notin {"page", "rows"}
    BY <1>1, <1>9, HandleLeavesFetch
  <2> QED
    BY <1>3, <2>1
<1>10. CASE SendFails(p)
  <2>1. /\ run'[p].started = r.started /\ run'[p].collected = r.collected
        /\ run'[p].pc = "notify"
    BY <1>1, <1>10 DEF SendFails, Become, RunState
  <2> QED
    BY <1>3, <2>1
<1>11. CASE Finish(p) \/ FetchFails(p) \/ StoreFails(p) \/ Crash(p)
  <2>1. run'[p] = NoRun
    BY <1>1, <1>11 DEF Finish, FetchFails, StoreFails, Crash, Abort, Become
  <2> QED
    BY <1>1, <1>4, <2>1 DEF NoRun
<1> QED
  BY <1>5, <1>6, <1>7, <1>8, <1>9, <1>10, <1>11 DEF Own, Fetch, Fail

\* What the processes that do not move see.
LEMMA OthersStand ==
    ASSUME TypeOK, NEW p \in Proc, NEW q \in Proc, p # q, Own(p)
    PROVE  run'[q] = run[q]
BY OwnPosted DEF Become, TypeOK

LEMMA FetchStep == FetchInv /\ [Next]_vars => FetchInv'
<1> SUFFICES ASSUME FetchInv, [Next]_vars PROVE FetchInv'
  OBVIOUS
<1>1. TypeOK /\ TypeOK' /\ posted \in Nat
  BY TypeStep, MaxPostsAssumption DEF FetchInv, TypeOK
<1>2. CASE Post \/ UNCHANGED vars
  <2>1. run' = run /\ posted <= posted'
    BY <1>1, <1>2 DEF Post, vars
  <2> QED
    BY <1>1, <2>1, FetchOthers DEF FetchInv
<1>3. ASSUME NEW p \in Proc, Own(p), NEW q \in Proc
      PROVE  Fetching(run[q])'
  <2>1. CASE q = p
    BY <1>1, <1>3, <2>1, FetchOwn
  <2>2. CASE q # p
    <3>1. run'[q] = run[q] /\ posted <= posted'
      BY <1>1, <1>3, <2>2, OthersStand, OwnPosted
    <3> QED
      BY <1>1, <3>1, FetchOthers
  <2> QED
    BY <2>1, <2>2
<1> QED
  BY <1>1, <1>2, <1>3 DEF Next, Own, FetchInv

LEMMA FetchInit == Init => FetchInv
<1> SUFFICES ASSUME Init PROVE FetchInv
  OBVIOUS
<1>1. TypeOK /\ posted \in Nat
  BY TypeInit, MaxPostsAssumption DEF TypeOK
<1>2. ASSUME NEW p \in Proc PROVE Fetching(run[p])
  <2>1. /\ run[p].pc = "idle" /\ run[p].collected = <<>> /\ run[p].started = 0
    BY DEF Init, NoRun
  <2> QED
    BY <1>1, <2>1 DEF Fetching, FromFeed, NoGap
<1> QED
  BY <1>1, <1>2 DEF FetchInv

\* However many posts shift the offsets between two page requests, whatever
\* fails, and whoever else writes the table: what was in the feed when a run
\* started, and is newer than something it has collected, is collected too.
THEOREM FetchLeavesNoGap == Spec => []NoGapInFetch
<1>1. FetchInv => NoGapInFetch
  <2> SUFFICES ASSUME FetchInv, NEW p \in Proc, NEW d \in 1..MaxPosts, Usable(d),
                      d <= run[p].started,
                      NEW k \in 1..Len(run[p].collected), run[p].collected[k] < d
               PROVE  InSeq(d, run[p].collected)
    BY DEF NoGapInFetch
  <2>1. run[p].collected[k] \in Deviation
    BY RunType DEF FetchInv
  <2> QED
    BY <2>1, MaxPostsAssumption DEF FetchInv, Fetching, NoGap, ReadAbove, Deviation
<1> QED
  BY <1>1, FetchInit, FetchStep, PTL DEF Spec
=============================================================================
