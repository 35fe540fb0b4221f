-------------------- MODULE WatchService_dropped_proofs ---------------------
(***************************************************************************)
(* Nothing is dropped, and nothing is seeded silently once there is a      *)
(* baseline: what the staleness alert and the seeding rule rest on, and    *)
(* the conditions under which the program keeps them.                      *)
(***************************************************************************)
EXTENDS WatchService_alone_proofs

\* No fetch ends at the page cap while the feed has more.
CapNotReached ==
    \A p \in Proc :
        /\ run[p].pc = "rows"
        /\ ~MoreRows(p)
        /\ run[p].pages_read >= MaxPages
        => ~run[p].has_more

\* From the first recorded success on, no push fails and no run ends in the
\* middle of a batch.
BatchHandled ==
    \A p \in Proc :
        /\ baseline # Never
        /\ run[p].pc \in {"seed", "notify", "mark"}
        /\ MoreNew(p)
        => ~Fail(p)

-----------------------------------------------------------------------------
(***************************************************************************)
(* The page cap.                                                           *)
(***************************************************************************)
\* Every page but the last is full.
Paged(r) ==
    /\ r.pc = "page" => r.offset = r.pages_read * PageSize
    /\ r.pc = "rows" =>
        /\ r.pages_read > 0
        /\ r.offset = (r.pages_read - 1) * PageSize
        /\ r.has_more => /\ Len(r.raw_results) = PageSize
                         /\ r.offset + PageSize < posted

PagedInv == FetchInv /\ \A p \in Proc : Paged(run[p])

\* A page after which there is more is full.
LEMMA FullPage ==
    ASSUME TypeOK, NEW offset \in Nat, offset + PageSize < posted
    PROVE  Len(Page(offset)) = PageSize
<1>1. Page(offset) \in Seq(Deviation) /\ posted \in Nat
  BY PageType, MaxPostsAssumption DEF TypeOK
<1>2. DOMAIN Page(offset) = 1..Len(Page(offset)) /\ Len(Page(offset)) \in Nat
  BY <1>1
<1>3. DOMAIN Page(offset) = 1..PageLength(offset)
  BY DEF Page
<1>4. PageLength(offset) = PageSize
  BY <1>1, PageSizeAssumption DEF PageLength
<1>5. PageSize \in 1..PageSize /\ PageSize \in Nat
  BY PageSizeAssumption
<1>6. PageSize <= Len(Page(offset))
  BY <1>2, <1>3, <1>4, <1>5
<1>7. Len(Page(offset)) \in 1..Len(Page(offset))
  BY <1>2, <1>6, PageSizeAssumption
<1>8. Len(Page(offset)) <= PageSize
  BY <1>2, <1>3, <1>4, <1>5, <1>7
<1> DEFINE n == Len(Page(offset))
<1>9. n \in Nat /\ PageSize <= n /\ n <= PageSize
  BY <1>2, <1>6, <1>8
<1> HIDE DEF n
<1>10. n = PageSize
  BY <1>5, <1>9
<1> QED
  BY <1>10 DEF n

LEMMA PagedOwn ==
    ASSUME PagedInv, TypeOK', NEW p \in Proc, Own(p)
    PROVE  Paged(run[p])'
<1>0. PICK r \in RunState : r = run[p]
  BY DEF PagedInv, FetchInv, TypeOK
<1>1. /\ TypeOK /\ Paged(r) /\ Fetching(r) /\ run \in [Proc -> RunState]
      /\ r = run[p] /\ posted \in Nat /\ posted' = posted
  BY <1>0, OwnPosted, MaxPostsAssumption DEF PagedInv, FetchInv, TypeOK
<1>2. /\ r.offset \in Nat /\ r.pages_read \in Nat /\ PageSize \in Nat
      /\ r.i \in Nat \ {0} /\ r.raw_results \in Seq(Deviation)
      /\ r.has_more \in BOOLEAN
  BY <1>1, RunType, PageSizeAssumption
<1>3. ASSUME run'[p].pc \notin {"page", "rows"} PROVE Paged(run[p])'
  BY <1>3 DEF Paged
<1>4. CASE \E c \in Commands : Start(p, c)
  <2>1. run'[p].offset = 0 /\ run'[p].pages_read = 0 /\ run'[p].pc = "page"
    BY <1>1, <1>4 DEF Start, Become, NoRun
  <2> QED
    BY <1>2, <2>1 DEF Paged
<1>5. CASE RequestPage(p)
  <2> DEFINE more == r.offset + PageSize < posted
             page == Page(r.offset)
  <2>1. run'[p] = [r EXCEPT !.pc = "rows", !.pages_read = @ + 1,
                            !.raw_results = page, !.has_more = more, !.i = 1]
    BY <1>1, <1>5 DEF RequestPage, Become
  <2>2. more => Len(page) = PageSize /\ r.offset + PageSize < posted
    BY <1>1, <1>2, FullPage
  <2> HIDE DEF more, page
  <2>3. /\ run'[p].pc = "rows" /\ run'[p].pages_read = r.pages_read + 1
        /\ run'[p].raw_results = page /\ run'[p].has_more = more
        /\ run'[p].offset = r.offset
    BY <2>1 DEF RunState
  <2>4. r.pc = "page" /\ r.offset = r.pages_read * PageSize
    BY <1>1, <1>5 DEF RequestPage, Paged
  <2>5. r.pages_read + 1 > 0 /\ r.pages_read + 1 - 1 = r.pages_read
    BY <1>2
  <2>6. run'[p].offset = (run'[p].pages_read - 1) * PageSize
    <3>1. run'[p].pages_read - 1 = r.pages_read
      BY <1>2, <2>3
    <3> QED
      BY <2>3, <2>4, <3>1, Zenon
  <2>7. run'[p].has_more => r.offset + PageSize < posted'
    BY <1>1, <2>2, <2>3
  <2> QED
    BY <2>2, <2>3, <2>5, <2>6, <2>7 DEF Paged
<1>6. CASE ExamineRow(p)
  <2> DEFINE d == r.raw_results[r.i]
  <2>1. r.pc = "rows"
    BY <1>1, <1>6 DEF ExamineRow
  <2>2. \/ run'[p] = [r EXCEPT !.i = @ + 1]
        \/ run'[p] = [r EXCEPT !.i = @ + 1, !.collected = Append(@, d)]
        \/ run'[p] = FetchReturns(r)
    BY <1>1, <1>6 DEF ExamineRow, Become
  <2>3. \/ run'[p].pc = "fetched"
        \/ /\ run'[p].pc = "rows" /\ run'[p].pages_read = r.pages_read
           /\ run'[p].raw_results = r.raw_results
           /\ run'[p].has_more = r.has_more /\ run'[p].offset = r.offset
    BY <2>1, <2>2 DEF FetchReturns, RunState
  <2> QED
    BY <1>1, <1>3, <2>1, <2>3 DEF Paged
<1>7. CASE EndOfPage(p)
  <2>1. /\ r.pc = "rows" /\ r.pages_read > 0
        /\ r.offset = (r.pages_read - 1) * PageSize
        /\ r.has_more => Len(r.raw_results) = PageSize
    BY <1>1, <1>7 DEF EndOfPage, Paged
  <2>2. CASE Become(p, FetchReturns(r))
    <3>1. run'[p].pc = "fetched"
      BY <1>1, <2>2 DEF Become, FetchReturns, RunState
    <3> QED
      BY <1>3, <3>1
  <2>3. CASE /\ ~LastPage(r)
             /\ Become(p, [r EXCEPT !.pc = "page",
                                    !.offset = @ + Len(r.raw_results)])
    <3>1. /\ run'[p].pc = "page" /\ run'[p].pages_read = r.pages_read
          /\ run'[p].offset = r.offset + Len(r.raw_results)
      BY <1>1, <2>3 DEF Become, RunState
    <3>2. Len(r.raw_results) = PageSize
      BY <2>1, <2>3 DEF LastPage
    <3>3. (r.pages_read - 1) * PageSize + PageSize = r.pages_read * PageSize
      BY <1>2
    <3> QED
      BY <2>1, <3>1, <3>2, <3>3 DEF Paged
  <2> QED
    BY <1>1, <1>7, <2>2, <2>3 DEF EndOfPage
<1>8. CASE Handle(p) /\ ~Finish(p)
  <2>1. run'[p].pc \notin {"page", "rows"}
    BY <1>1, <1>8, HandleLeavesFetch
  <2> QED
    BY <1>3, <2>1
<1>9. CASE SendFails(p)
  <2>1. run'[p].pc = "notify"
    BY <1>1, <1>9 DEF SendFails, Become, RunState
  <2> QED
    BY <1>3, <2>1
<1>10. CASE Finish(p) \/ FetchFails(p) \/ StoreFails(p) \/ Crash(p)
  <2>1. run'[p].pc = "idle"
    BY <1>1, <1>10 DEF Finish, FetchFails, StoreFails, Crash, Abort, Become, NoRun
  <2> QED
    BY <1>3, <2>1
<1> QED
  BY <1>4, <1>5, <1>6, <1>7, <1>8, <1>9, <1>10 DEF Own, Fetch, Fail

LEMMA PagedStep == PagedInv /\ [Next]_vars => PagedInv'
<1> SUFFICES ASSUME PagedInv, [Next]_vars PROVE PagedInv'
  OBVIOUS
<1>1. FetchInv' /\ TypeOK /\ TypeOK' /\ posted \in Nat
  BY FetchStep, TypeStep, MaxPostsAssumption DEF PagedInv, FetchInv, TypeOK
<1>2. ASSUME NEW q \in Proc, run'[q] = run[q], posted' \in Nat, posted <= posted'
      PROVE  Paged(run[q])'
  <2>1. Paged(run[q]) /\ run[q].offset \in Nat /\ PageSize \in Nat
    BY <1>1, RunType, PageSizeAssumption DEF PagedInv
  <2> QED
    BY <1>1, <1>2, <2>1 DEF Paged
<1>3. posted' \in Nat
  BY <1>1, MaxPostsAssumption DEF TypeOK
<1>4. CASE Post \/ UNCHANGED vars
  <2>1. run' = run /\ posted <= posted'
    BY <1>1, <1>4 DEF Post, vars
  <2> QED
    BY <1>1, <1>2, <1>3, <2>1 DEF PagedInv
<1>5. ASSUME NEW p \in Proc, Own(p), NEW q \in Proc PROVE Paged(run[q])'
  <2>1. CASE q = p
    BY <1>1, <1>5, <2>1, PagedOwn
  <2>2. CASE q # p
    <3>1. run'[q] = run[q] /\ posted <= posted'
      BY <1>1, <1>5, <2>2, OthersStand, OwnPosted
    <3> QED
      BY <1>2, <1>3, <3>1
  <2> QED
    BY <2>1, <2>2
<1> QED
  BY <1>1, <1>4, <1>5 DEF Next, Own, PagedInv

LEMMA PagedInit == Init => PagedInv
<1> SUFFICES ASSUME Init PROVE PagedInv
  OBVIOUS
<1>1. \A p \in Proc : run[p].pc = "idle"
  BY DEF Init, NoRun
<1> QED
  BY <1>1, FetchInit DEF PagedInv, Paged

LEMMA PagedCap ==
    ASSUME PagedInv, MaxPosts <= MaxPages * PageSize
    PROVE  CapNotReached
<1> SUFFICES ASSUME NEW p \in Proc, run[p].pc = "rows", run[p].has_more,
                    run[p].pages_read >= MaxPages
             PROVE  FALSE
  BY DEF CapNotReached
<1> DEFINE n == run[p].pages_read
<1>1. /\ n \in Nat /\ PageSize \in Nat /\ MaxPages \in Nat /\ MaxPosts \in Nat
      /\ posted \in Nat /\ posted <= MaxPosts
  BY RunType, PageSizeAssumption, MaxPagesAssumption, MaxPostsAssumption
  DEF PagedInv, FetchInv, TypeOK
<1>2. (n - 1) * PageSize + PageSize < posted
  BY DEF PagedInv, Paged
<1> HIDE DEF n
<1>3. (n - 1) * PageSize + PageSize = n * PageSize
  BY <1>1
<1>4. MaxPages <= n
  BY <1>1 DEF n
<1>5. MaxPages * PageSize <= n * PageSize
  BY <1>1, <1>4
<1>6. MaxPages * PageSize \in Nat /\ n * PageSize \in Nat
  BY <1>1
<1> QED
  BY <1>1, <1>2, <1>3, <1>5, <1>6

\* A feed that is no longer than MAX_PAGES full pages is always read to its end:
\* a page that promises more is full, however many posts shift the offsets.
THEOREM CapUnreached == MaxPosts <= MaxPages * PageSize => (Spec => []CapNotReached)
<1> SUFFICES ASSUME MaxPosts <= MaxPages * PageSize
             PROVE  Spec => []CapNotReached
  OBVIOUS
<1>1. PagedInv => CapNotReached
  BY PagedCap
<1> QED
  BY <1>1, PagedInit, PagedStep, PTL DEF Spec

-----------------------------------------------------------------------------
(***************************************************************************)
(* Nothing is dropped.                                                     *)
(***************************************************************************)
Loops == {"seed", "notify", "mark"}

\* d has a row, or r is in the loop that will give it one.
Due(r, d) == HasSeen(d) \/ (r.pc \in Loops /\ Owed(r, d))

\* Whoever stops at a seen row misses nothing below it.
Gapless(r) ==
    \A d, e \in Deviation :
        Usable(d) /\ baseline < d /\ d < e /\ HasSeen(e) => Due(r, d)

\* What r had in reach and is newer than the baseline has a row, is in
\* `collected`, or is waiting in `new`.
Complete(r) ==
    /\ r.pc \in {"fetched", "filter"} =>
        \A d \in Deviation :
            Usable(d) /\ baseline < d /\ InReach(r, d) =>
                HasSeen(d) \/ InSeq(d, r.collected)
    /\ r.pc = "filter" => \A m \in 1..Len(r.new) : InSeq(r.new[m], r.collected)
    /\ r.pc \in Loops =>
        \A d \in Deviation :
            /\ Usable(d)
            /\ baseline < d
            /\ d <= r.started \/ \E m \in 1..Len(r.new) : d <= r.new[m]
            => Owed(r, d)

Whole(r) ==
    /\ r.pc \in {"page", "rows", "fetched"} => r.new = <<>>
    /\ baseline # Never => Gapless(r) /\ Complete(r)

RowsPosted == \A e \in Deviation : HasSeen(e) => e <= posted

DroppedInv ==
    /\ AloneInv
    /\ baseline = Never => covered = Never
    /\ NothingDropped
    /\ RowsPosted
    /\ \A p \in Proc : Whole(run[p])

\* Outside the loops, what is due has a row.
LEMMA DueSeen ==
    ASSUME NEW r, NEW d, r.pc \notin Loops, Due(r, d)
    PROVE  HasSeen(d)
BY DEF Due

\* At the end of a loop, what is owed has a row.
LEMMA OwedSeen ==
    ASSUME NEW r \in RunState, NEW d \in Deviation, r.i > Len(r.new), Owed(r, d)
    PROVE  HasSeen(d)
<1>1. Len(r.new) \in Nat /\ r.i \in Nat
  BY DEF RunState
<1> QED
  BY <1>1 DEF Owed

\* A fetch that stops at a seen row, or at the end of the feed, has left nothing
\* in reach that is newer than the baseline and has no row.
LEMMA FetchComplete ==
    ASSUME NEW p \in Proc, NEW r \in RunState, r = run[p], DroppedInv,
           CapNotReached, baseline # Never, r.pc = "rows",
           ExamineRow(p) \/ EndOfPage(p), Become(p, FetchReturns(r)),
           NEW d \in Deviation, Usable(d), baseline < d, InReach(r, d)
    PROVE  HasSeen(d) \/ InSeq(d, r.collected)
<1>1. /\ TypeOK /\ Fetching(r) /\ Gapless(r) /\ d \in Nat /\ d > 0
      /\ \A e \in Deviation : e \in Nat
  BY MaxPostsAssumption
  DEF DroppedInv, AloneInv, FetchInv, TypeOK, Whole, Deviation
<1>2. /\ r.i \in Nat \ {0} /\ r.raw_results \in Seq(Deviation)
      /\ Len(r.raw_results) \in Nat /\ run \in [Proc -> RunState]
      /\ r.offset \in Nat
  BY <1>1, RunType DEF TypeOK
<1>3. PICK top \in Int : PageFrom(r, top)
  BY <1>1 DEF Fetching
<1>4. CASE ExamineRow(p)
  <2> DEFINE e == r.raw_results[r.i]
  <2>1. /\ e \in Deviation /\ r.i \in 1..Len(r.raw_results)
    BY <1>2, <1>4, EntryType DEF ExamineRow, MoreRows
  <2>2. HasSeen(e)
    <3>1. run'[p].pc = "fetched"
      BY <1>2 DEF Become, FetchReturns, RunState
    <3> QED
      BY <1>2, <1>4, <3>1 DEF ExamineRow, Become, RunState
  <2>3. e = top - r.i + 1 /\ ReadTo(r, top - r.i + 1)
    BY <1>3, <2>1 DEF PageFrom
  <2>4. CASE d > e
    BY <2>3, <2>4 DEF ReadTo
  <2>5. CASE d = e
    BY <2>2, <2>5
  <2>6. CASE d < e
    <3>1. Due(r, d)
      BY <1>1, <2>1, <2>2, <2>6 DEF Gapless
    <3> QED
      BY <3>1, DueSeen DEF Loops
  <2>7. e \in Nat /\ d \in Nat
    BY <1>1, <2>1
  <2> HIDE DEF e
  <2>8. d > e \/ d = e \/ d < e
    BY <2>7
  <2> QED
    BY <2>4, <2>5, <2>6, <2>8
<1>5. CASE EndOfPage(p)
  <2>1. r.i = Len(r.raw_results) + 1 /\ ~MoreRows(p)
    BY <1>1, <1>2, <1>5 DEF EndOfPage, MoreRows, Fetching
  <2>2. LastPage(r)
    <3>1. run'[p].pc = "fetched"
      BY <1>2 DEF Become, FetchReturns, RunState
    <3> QED
      <4> DEFINE a == [r EXCEPT !.pc = "page", !.offset = @ + Len(r.raw_results)]
      <4>1. ~LastPage(r) => run'[p] = a
        BY <1>2, <1>5 DEF EndOfPage, Become
      <4>2. a.pc = "page"
        BY <1>2 DEF RunState
      <4> HIDE DEF a
      <4> QED
        BY <3>1, <4>1, <4>2
  <2>3. ~r.has_more
    BY <2>1, <2>2 DEF LastPage, CapNotReached
  <2>4. top - r.i + 1 <= 0 /\ top - r.i + 1 \in Int
    BY <1>2, <1>3, <2>1, <2>3 DEF PageFrom
  <2>5. d > top - r.i + 1
    BY <1>1, <2>4
  <2> QED
    BY <1>3, <2>5 DEF PageFrom, ReadTo
<1> QED
  BY <1>4, <1>5

\* A step that writes no row, and is not taken in a loop or in the middle of
\* one, leaves the gaps as they are.
LEMMA GaplessLocal ==
    ASSUME NEW p \in Proc, NEW r \in RunState, r = run[p], Gapless(r),
           row' = row, baseline' = baseline,
           r.pc \notin Loops \/ r.i > Len(r.new)
    PROVE  Gapless(run[p])'
<1> SUFFICES ASSUME NEW d \in Deviation, NEW e \in Deviation, Usable(d),
                    baseline < d, d < e, HasSeen(e)
             PROVE  HasSeen(d)
  BY DEF Gapless, Due, HasSeen, Usable
<1>1. Due(r, d)
  BY DEF Gapless
<1> QED
  BY <1>1, OwedSeen DEF Due

\* The steps of the fetch and of the comprehension.
LEMMA WholeReading ==
    ASSUME DroppedInv, CapNotReached, TypeOK', NEW p \in Proc,
           \/ \E c \in Commands : Start(p, c)
           \/ Fetch(p) \/ UseFetched(p) \/ Filter(p) \/ Dispatch(p)
    PROVE  /\ Whole(run[p])'
           /\ UNCHANGED shared
<1>0. PICK r \in RunState : r = run[p]
  BY DEF DroppedInv, AloneInv, FetchInv, TypeOK
<1>1. /\ TypeOK /\ run \in [Proc -> RunState] /\ r = run[p]
      /\ Whole(r) /\ Alone(r) /\ Accounts(r)
  BY <1>0 DEF DroppedInv, AloneInv, FetchInv, IInv, TypeOK
<1>2. /\ r.i \in Nat \ {0} /\ r.collected \in Seq(Deviation)
      /\ r.new \in Seq(Deviation) /\ Len(r.collected) \in Nat
      /\ Len(r.new) \in Nat /\ r.raw_results \in Seq(Deviation)
      /\ \A k \in 1..Len(r.collected) : r.collected[k] \in Deviation
  BY <1>1, RunType
<1>3. UNCHANGED shared
  BY DEF Start, Fetch, RequestPage, ExamineRow, EndOfPage, UseFetched, Filter,
         Dispatch
<1>4. row' = row /\ baseline' = baseline
  BY <1>3 DEF shared
<1>5. r.pc \notin Loops
  BY <1>1
  DEF Start, Fetch, RequestPage, ExamineRow, EndOfPage, UseFetched, Filter,
      Dispatch, Loops
<1>6. baseline # Never => Gapless(run[p])'
  BY <1>1, <1>4, <1>5, GaplessLocal DEF Whole
<1>7. ASSUME run'[p].pc \in {"page", "rows"}, run'[p].new = <<>>
      PROVE  Whole(run[p])'
  BY <1>4, <1>6, <1>7 DEF Whole, Complete, Loops
<1>8. ASSUME r.pc = "rows", ExamineRow(p) \/ EndOfPage(p),
             Become(p, FetchReturns(r))
      PROVE  Whole(run[p])'
  <2>1. /\ run'[p].pc = "fetched" /\ run'[p].new = r.new
        /\ run'[p].collected = r.collected /\ run'[p].started = r.started
    BY <1>1, <1>8 DEF Become, FetchReturns, RunState
  <2>2. r.new = <<>>
    BY <1>1, <1>8 DEF Whole
  <2>3. ASSUME baseline # Never, NEW d \in Deviation, Usable(d), baseline < d,
               InReach(r, d)
        PROVE  HasSeen(d) \/ InSeq(d, r.collected)
    BY <1>1, <1>8, <2>3, FetchComplete
  <2>4. baseline # Never => Complete(run[p])'
    BY <1>4, <2>1, <2>3 DEF Complete, Loops, InReach, HasSeen, InSeq, Usable
  <2> QED
    BY <1>4, <1>6, <2>1, <2>2, <2>4 DEF Whole
<1>9. CASE \E c \in Commands : Start(p, c)
  <2>1. run'[p].pc = "page" /\ run'[p].new = <<>>
    BY <1>1, <1>9 DEF Start, Become, NoRun
  <2> QED
    BY <1>3, <1>7, <2>1
<1>10. CASE RequestPage(p)
  <2>1. run'[p].pc = "rows" /\ run'[p].new = r.new /\ r.pc = "page"
    BY <1>1, <1>10 DEF RequestPage, Become, RunState
  <2> QED
    BY <1>1, <1>3, <1>7, <2>1 DEF Whole
<1>11. CASE ExamineRow(p)
  <2> DEFINE d == r.raw_results[r.i]
             c == Append(r.collected, d)
  <2>1. r.pc = "rows" /\ r.new = <<>>
    BY <1>1, <1>11 DEF ExamineRow, Whole
  <2>2. CASE Become(p, FetchReturns(r))
    BY <1>3, <1>8, <1>11, <2>1, <2>2
  <2>3. CASE \/ Become(p, [r EXCEPT !.i = @ + 1])
             \/ Become(p, [r EXCEPT !.i = @ + 1, !.collected = c])
    <3> HIDE DEF c
    <3>1. \/ run'[p] = [r EXCEPT !.i = @ + 1]
          \/ run'[p] = [r EXCEPT !.i = @ + 1, !.collected = c]
      BY <1>1, <2>3 DEF Become
    <3>2. run'[p].pc = "rows" /\ run'[p].new = <<>>
      BY <2>1, <3>1 DEF RunState
    <3> QED
      BY <1>3, <1>7, <3>2
  <2> QED
    BY <1>1, <1>11, <2>2, <2>3 DEF ExamineRow
<1>12. CASE EndOfPage(p)
  <2>1. r.pc = "rows" /\ r.new = <<>>
    BY <1>1, <1>12 DEF EndOfPage, Whole
  <2>2. CASE Become(p, FetchReturns(r))
    BY <1>3, <1>8, <1>12, <2>1, <2>2
  <2>3. CASE Become(p, [r EXCEPT !.pc = "page",
                                 !.offset = @ + Len(r.raw_results)])
    <3>1. run'[p].pc = "page" /\ run'[p].new = <<>>
      BY <1>1, <2>1, <2>3 DEF Become, RunState
    <3> QED
      BY <1>3, <1>7, <3>1
  <2> QED
    BY <1>1, <1>12, <2>2, <2>3 DEF EndOfPage
<1>13. CASE UseFetched(p)
  <2>1. r.pc = "fetched" /\ r.i = 1 /\ r.new = <<>>
    BY <1>1, <1>13 DEF UseFetched, Accounts, Whole
  <2>2. ASSUME baseline # Never, NEW d \in Deviation, Usable(d), baseline < d,
               InReach(r, d)
        PROVE  HasSeen(d) \/ InSeq(d, r.collected)
    BY <1>1, <2>1, <2>2 DEF Whole, Complete
  <2>3. CASE r.cmd = "seed"
    <3>1. run'[p] = [r EXCEPT !.pc = "seed", !.new = r.collected]
      BY <1>1, <1>13, <2>3 DEF UseFetched, Become
    <3>2. /\ run'[p].pc = "seed" /\ run'[p].new = r.collected
          /\ run'[p].started = r.started /\ run'[p].i = 1
      BY <2>1, <3>1 DEF RunState
    <3>3. ASSUME baseline # Never, NEW d \in Deviation, Usable(d), baseline < d,
                 \/ d <= r.started
                 \/ \E m \in 1..Len(r.collected) : d <= r.collected[m]
          PROVE  HasSeen(d) \/ \E m \in 1..Len(r.collected) :
                                   1 <= m /\ r.collected[m] = d
      <4>1. HasSeen(d) \/ InSeq(d, r.collected)
        BY <2>2, <3>3 DEF InReach
      <4> QED
        BY <1>2, <4>1 DEF InSeq
    <3>4. baseline # Never => Complete(run[p])'
      BY <1>4, <3>2, <3>3 DEF Complete, Loops, Owed, HasSeen, Usable
    <3> QED
      BY <1>3, <1>4, <1>6, <3>2, <3>4 DEF Whole
  <2>4. CASE r.cmd # "seed"
    <3> DEFINE seeding == r.cmd = "run" /\ IsEmpty
    <3>1. run'[p] = [r EXCEPT !.pc = "filter", !.seeding = seeding]
      BY <1>1, <1>13, <2>4 DEF UseFetched, Become
    <3> HIDE DEF seeding
    <3>2. /\ run'[p].pc = "filter" /\ run'[p].new = <<>>
          /\ run'[p].collected = r.collected /\ run'[p].started = r.started
      BY <2>1, <3>1 DEF RunState
    <3>3. baseline # Never => Complete(run[p])'
      BY <1>4, <2>2, <3>2 DEF Complete, Loops, InReach, HasSeen, InSeq, Usable
    <3> QED
      BY <1>3, <1>4, <1>6, <3>2, <3>3 DEF Whole
  <2> QED
    BY <2>3, <2>4
<1>14. CASE Filter(p)
  <2> DEFINE d == r.collected[r.i]
             new == Append(r.new, d)
  <2>1. /\ r.pc = "filter" /\ r.i \in 1..Len(r.collected) /\ d \in Deviation
    BY <1>1, <1>2, <1>14 DEF Filter
  <2>2. ~HasSeen(d)
    BY <1>1, <2>1 DEF Alone, Reading, Unseen
  <2>3. run'[p] = [r EXCEPT !.i = @ + 1, !.new = new]
    BY <1>1, <1>14, <2>2 DEF Filter, Become
  <2>4. /\ Len(new) = Len(r.new) + 1 /\ new[Len(r.new) + 1] = d
        /\ \A k \in 1..Len(r.new) : new[k] = r.new[k]
    BY <1>2, <2>1, Appended
  <2> HIDE DEF new
  <2>5. /\ run'[p].pc = "filter" /\ run'[p].new = new
        /\ run'[p].collected = r.collected /\ run'[p].started = r.started
    BY <2>1, <2>3 DEF RunState
  <2>6. ASSUME baseline # Never, NEW m \in 1..Len(new)
        PROVE  InSeq(new[m], r.collected)
    <3>1. CASE m = Len(r.new) + 1
      BY <2>1, <2>4, <3>1 DEF InSeq
    <3>2. CASE m # Len(r.new) + 1
      <4>1. m \in 1..Len(r.new)
        BY <1>2, <2>4, <3>2
      <4> QED
        BY <1>1, <2>1, <2>4, <2>6, <4>1 DEF Whole, Complete
    <3> QED
      BY <3>1, <3>2
  <2>7. ASSUME baseline # Never, NEW e \in Deviation, Usable(e), baseline < e,
               InReach(r, e)
        PROVE  HasSeen(e) \/ InSeq(e, r.collected)
    BY <1>1, <2>1, <2>7 DEF Whole, Complete
  <2>8. baseline # Never => Complete(run[p])'
    BY <1>4, <2>5, <2>6, <2>7 DEF Complete, Loops, InReach, HasSeen, InSeq, Usable
  <2> QED
    BY <1>3, <1>4, <1>6, <2>5, <2>8 DEF Whole
<1>15. CASE Dispatch(p)
  <2>1. /\ r.pc = "filter" /\ r.i > Len(r.collected)
        /\ \A k \in 1..Len(r.collected) :
               HasSeen(r.collected[k]) \/ InSeq(r.collected[k], r.new)
    BY <1>1, <1>2, <1>15 DEF Dispatch, Accounts
  <2>2. /\ run'[p].new = r.new /\ run'[p].i = 1 /\ run'[p].started = r.started
        /\ run'[p].pc \in {"seed", "report", "notify"}
    BY <1>1, <1>15 DEF Dispatch, Become, RunState
  <2>3. ASSUME baseline # Never, NEW d \in Deviation, Usable(d), baseline < d,
               d <= r.started \/ \E m \in 1..Len(r.new) : d <= r.new[m]
        PROVE  HasSeen(d) \/ \E m \in 1..Len(r.new) : 1 <= m /\ r.new[m] = d
    <3>1. InReach(r, d)
      <4>1. ASSUME NEW m \in 1..Len(r.new), d <= r.new[m] PROVE InReach(r, d)
        <5>1. InSeq(r.new[m], r.collected)
          BY <1>1, <2>1, <2>3, <4>1 DEF Whole, Complete
        <5> QED
          BY <4>1, <5>1 DEF InSeq, InReach
      <4> QED
        BY <2>3, <4>1 DEF InReach
    <3>2. HasSeen(d) \/ InSeq(d, r.collected)
      BY <1>1, <2>1, <2>3, <3>1 DEF Whole, Complete
    <3>3. HasSeen(d) \/ InSeq(d, r.new)
      BY <2>1, <3>2 DEF InSeq
    <3> QED
      BY <1>2, <3>3 DEF InSeq
  <2>4. baseline # Never => Complete(run[p])'
    BY <1>4, <2>2, <2>3 DEF Complete, Loops, Owed, HasSeen, Usable
  <2> QED
    BY <1>3, <1>4, <1>6, <2>2, <2>4 DEF Whole
<1> QED
  BY <1>9, <1>10, <1>11, <1>12, <1>13, <1>14, <1>15 DEF Fetch

\* One more row leaves no gap, if it is the one the loop has come to.
LEMMA WholeMark ==
    ASSUME NEW p \in Proc, NEW r \in RunState, Whole(r), r.pc \in Loops,
           r.i \in 1..Len(r.new),
           run'[p].new = r.new, run'[p].i = r.i + 1, run'[p].started = r.started,
           run'[p].pc \in Loops, baseline' = baseline,
           \A e \in Deviation : HasSeen(e)' <=> HasSeen(e) \/ e = r.new[r.i]
    PROVE  Whole(run[p])'
<1>1. Len(r.new) \in Nat /\ r.i \in Nat
  BY DEF RunState
<1>2. ASSUME NEW d \in Deviation, Owed(r, d) PROVE Owed(run[p], d)'
  <2>1. CASE HasSeen(d)
    BY <2>1 DEF Owed
  <2>2. CASE \E m \in 1..Len(r.new) : r.i <= m /\ r.new[m] = d
    <3>1. PICK m \in 1..Len(r.new) : r.i <= m /\ r.new[m] = d
      BY <2>2
    <3>2. CASE m = r.i
      BY <3>1, <3>2 DEF Owed
    <3>3. CASE m # r.i
      <4>1. r.i + 1 <= m
        BY <1>1, <3>1, <3>3
      <4> QED
        BY <3>1, <4>1 DEF Owed
    <3> QED
      BY <3>2, <3>3
  <2> QED
    BY <1>2, <2>1, <2>2 DEF Owed
<1>3. ASSUME baseline # Never PROVE Complete(run[p])'
  <2>1. \A d \in Deviation :
            /\ Usable(d)
            /\ baseline < d
            /\ d <= r.started \/ \E m \in 1..Len(r.new) : d <= r.new[m]
            => Owed(r, d)
    BY <1>3 DEF Whole, Complete
  <2> QED
    BY <1>2, <2>1 DEF Complete, Loops, Usable
<1>4. ASSUME baseline # Never PROVE Gapless(run[p])'
  <2> SUFFICES ASSUME NEW d \in Deviation, NEW e \in Deviation, Usable(d),
                      baseline < d, d < e, HasSeen(e)'
               PROVE  Owed(run[p], d)'
    BY DEF Gapless, Due, Usable
  <2>1. CASE HasSeen(e)
    <3>1. Due(r, d)
      BY <1>4, <2>1 DEF Whole, Gapless
    <3>2. Owed(r, d)
      BY <3>1 DEF Due, Owed
    <3> QED
      BY <1>2, <3>2
  <2>2. CASE e = r.new[r.i]
    <3>1. d <= r.new[r.i]
      BY <2>2, MaxPostsAssumption DEF Deviation
    <3>2. Owed(r, d)
      BY <1>4, <3>1 DEF Whole, Complete
    <3> QED
      BY <1>2, <3>2
  <2> QED
    BY <2>1, <2>2
<1> QED
  BY <1>3, <1>4 DEF Whole, Loops

\* The steps of the loops.
LEMMA WholeLoops ==
    ASSUME DroppedInv, TypeOK', BatchHandled, NEW p \in Proc,
           SeedOne(p) \/ Send(p) \/ SendFails(p) \/ Mark(p)
    PROVE  /\ Whole(run[p])' /\ RowsPosted'
           /\ UNCHANGED <<posted, baseline, covered>>
           /\ \A d \in Deviation : HasSeen(d) => HasSeen(d)'
<1>0. PICK r \in RunState : r = run[p]
  BY DEF DroppedInv, AloneInv, FetchInv, TypeOK
<1>1. /\ TypeOK /\ run \in [Proc -> RunState] /\ r = run[p]
      /\ Whole(r) /\ Alone(r) /\ Marks(r) /\ RowsPosted
      /\ row \in [Deviation -> {"none", "seeded", "notified"}]
  BY <1>0 DEF DroppedInv, AloneInv, FetchInv, IInv, TypeOK
<1>2. /\ r.i \in Nat \ {0} /\ r.new \in Seq(Deviation) /\ Len(r.new) \in Nat
  BY <1>1, RunType
<1>3. UNCHANGED <<posted, baseline, covered>>
  BY DEF SeedOne, Send, SendFails, Mark
<1> DEFINE d == r.new[r.i]
<1>4. ASSUME r.i \in 1..Len(r.new), r.pc \in {"seed", "mark"},
             row' = [row EXCEPT ![d] = "seeded"]
                 \/ row' = [row EXCEPT ![d] = "notified"],
             run'[p].new = r.new, run'[p].i = r.i + 1,
             run'[p].started = r.started, run'[p].pc \in {"seed", "notify"}
      PROVE  /\ Whole(run[p])' /\ RowsPosted'
             /\ \A e \in Deviation : HasSeen(e) => HasSeen(e)'
  <2>1. d \in Deviation /\ d <= posted
    BY <1>1, <1>2, <1>4, EntryType DEF Alone, FromFeed
  <2>2. \A e \in Deviation : HasSeen(e)' <=> HasSeen(e) \/ e = d
    BY <1>1, <1>4, <2>1 DEF HasSeen
  <2>3. Whole(run[p])'
    BY <1>1, <1>3, <1>4, <2>2, WholeMark DEF Loops
  <2>4. RowsPosted'
    BY <1>1, <1>3, <2>1, <2>2 DEF RowsPosted
  <2> QED
    BY <2>2, <2>3, <2>4
<1>5. CASE SeedOne(p)
  <2>1. /\ r.pc = "seed" /\ r.i \in 1..Len(r.new)
        /\ row' = [row EXCEPT ![d] = "seeded"]
    BY <1>1, <1>2, <1>5 DEF SeedOne, MoreNew, MarkSeen
  <2>2. /\ run'[p].new = r.new /\ run'[p].i = r.i + 1 /\ run'[p].pc = "seed"
        /\ run'[p].started = r.started
    BY <1>1, <1>5, <2>1 DEF SeedOne, Become, RunState
  <2> QED
    BY <1>3, <1>4, <2>1, <2>2
<1>6. CASE Mark(p)
  <2>1. /\ r.pc = "mark" /\ r.i \in 1..Len(r.new)
        /\ row' = [row EXCEPT ![d] = "notified"]
    BY <1>1, <1>2, <1>6 DEF Mark, MarkSeen, Marks
  <2>2. /\ run'[p].new = r.new /\ run'[p].i = r.i + 1 /\ run'[p].pc = "notify"
        /\ run'[p].started = r.started
    BY <1>1, <1>6, <2>1 DEF Mark, Become, RunState
  <2> QED
    BY <1>3, <1>4, <2>1, <2>2
<1>7. CASE Send(p)
  <2>1. r.pc = "notify" /\ row' = row
    BY <1>1, <1>7 DEF Send
  <2>2. /\ run'[p].new = r.new /\ run'[p].i = r.i /\ run'[p].pc = "mark"
        /\ run'[p].started = r.started
    BY <1>1, <1>7, <2>1 DEF Send, Become, RunState
  <2>3. \A e \in Deviation : Owed(r, e) => Owed(run[p], e)'
    BY <2>1, <2>2 DEF Owed, HasSeen
  <2>4. ASSUME baseline # Never PROVE Complete(run[p])'
    <3>1. \A e \in Deviation :
              /\ Usable(e)
              /\ baseline < e
              /\ e <= r.started \/ \E m \in 1..Len(r.new) : e <= r.new[m]
              => Owed(r, e)
      BY <1>1, <2>1, <2>4 DEF Whole, Complete, Loops
    <3> QED
      BY <1>3, <2>2, <2>3, <3>1 DEF Complete, Loops, Usable
  <2>5. ASSUME baseline # Never PROVE Gapless(run[p])'
    <3> SUFFICES ASSUME NEW x \in Deviation, NEW e \in Deviation, Usable(x),
                        baseline < x, x < e, HasSeen(e)
                 PROVE  Due(run[p], x)'
      BY <1>3, <2>1 DEF Gapless, HasSeen, Usable
    <3>1. Due(r, x)
      BY <1>1, <2>5 DEF Whole, Gapless
    <3>2. Owed(r, x)
      BY <3>1 DEF Due, Owed
    <3> QED
      BY <2>2, <2>3, <3>2 DEF Due, Loops
  <2>6. Whole(run[p])'
    BY <1>3, <2>2, <2>4, <2>5 DEF Whole
  <2> QED
    BY <1>1, <1>3, <2>1, <2>6 DEF RowsPosted, HasSeen
<1>8. CASE SendFails(p)
  <2>1. r.pc = "notify" /\ row' = row /\ MoreNew(p)
    BY <1>1, <1>8 DEF SendFails
  <2>2. baseline = Never
    BY <1>1, <1>8, <2>1 DEF BatchHandled, Fail
  <2>3. run'[p].pc = "notify"
    BY <1>1, <1>8 DEF SendFails, Become, RunState
  <2>4. Whole(run[p])'
    BY <1>3, <2>2, <2>3 DEF Whole
  <2> QED
    BY <1>1, <1>3, <2>1, <2>4 DEF RowsPosted, HasSeen
<1> QED
  BY <1>5, <1>6, <1>7, <1>8

\* What ends a run.
LEMMA WholeEnd ==
    ASSUME DroppedInv, TypeOK', BatchHandled, NEW p \in Proc,
           Finish(p) \/ FetchFails(p) \/ StoreFails(p) \/ Crash(p)
    PROVE  /\ Whole(run[p])' /\ NothingDropped'
           /\ baseline' = Never => covered' = Never
           /\ UNCHANGED <<posted, row>>
<1>0. PICK r \in RunState : r = run[p]
  BY DEF DroppedInv, AloneInv, FetchInv, TypeOK
<1>1. /\ TypeOK /\ run \in [Proc -> RunState] /\ r = run[p]
      /\ Whole(r) /\ Accounts(r) /\ Marks(r) /\ RowsPosted /\ NothingDropped
      /\ baseline = Never => covered = Never
      /\ r.started <= posted /\ posted \in Nat /\ r.started \in Nat
      /\ Deviation \subseteq Nat
  BY <1>0, RunType, MaxPostsAssumption
  DEF DroppedInv, AloneInv, FetchInv, IInv, TypeOK, Fetching, Deviation
<1>2. r.i \in Nat /\ Len(r.new) \in Nat
  BY <1>1, RunType
<1>3. run'[p].pc = "idle" /\ run'[p].new = <<>> /\ UNCHANGED <<posted, row>>
  BY <1>1
  DEF Finish, FetchFails, StoreFails, Crash, Abort, Become, NoRun, shared
<1>4. ASSUME baseline # Never PROVE r.pc \notin Loops \/ r.i > Len(r.new)
  <2>1. CASE Finish(p)
    BY <1>1, <1>2, <2>1 DEF Finish, LoopDone, MoreNew, Loops
  <2>2. CASE FetchFails(p) \/ StoreFails(p) \/ Crash(p)
    BY <1>1, <1>2, <1>4, <2>2 DEF BatchHandled, Fail, MoreNew, Loops
  <2> QED
    BY <2>1, <2>2
<1>5. CASE UNCHANGED <<baseline, covered>>
  <2>1. baseline # Never => Gapless(run[p])'
    BY <1>1, <1>3, <1>4, <1>5, GaplessLocal DEF Whole
  <2>2. Whole(run[p])'
    BY <1>3, <1>5, <2>1 DEF Whole, Complete, Loops
  <2>3. NothingDropped'
    BY <1>1, <1>3, <1>5 DEF NothingDropped, HasSeen, Usable
  <2> QED
    BY <1>1, <1>3, <1>5, <2>2, <2>3
<1>6. CASE Finish(p) /\ RecordsSuccess(p)
  <2>1. /\ covered' = r.started
        /\ baseline' = IF baseline = Never THEN posted ELSE baseline
    BY <1>1, <1>6 DEF Finish
  <2>2. r.pc \in {"seed", "notify"} /\ r.i > Len(r.new)
    BY <1>1, <1>2, <1>6 DEF RecordsSuccess, LoopDone, MoreNew, Accounts
  <2>3. CASE baseline = Never
    <3>1. baseline' = posted /\ posted # Never
      BY <1>1, <2>1, <2>3 DEF Never
    <3>2. ASSUME NEW d \in Deviation, NEW e \in Deviation, posted < d, d < e,
                 HasSeen(e)
          PROVE  FALSE
      BY <1>1, <3>2 DEF RowsPosted
    <3>3. Gapless(run[p])'
      BY <1>3, <3>1, <3>2 DEF Gapless, HasSeen
    <3>4. Whole(run[p])'
      BY <1>3, <3>3 DEF Whole, Complete, Loops
    <3>5. NothingDropped'
      BY <1>1, <2>1, <3>1 DEF NothingDropped, Deviation
    <3> QED
      BY <1>3, <3>1, <3>4, <3>5
  <2>4. CASE baseline # Never
    <3>1. baseline' = baseline
      BY <2>1, <2>4
    <3>2. Gapless(run[p])'
      BY <1>1, <1>3, <1>4, <2>4, <3>1, GaplessLocal DEF Whole
    <3>3. Whole(run[p])'
      BY <1>3, <3>2 DEF Whole, Complete, Loops
    <3>4. ASSUME NEW d \in Deviation, Usable(d), baseline < d, d <= r.started
          PROVE  HasSeen(d)
      <4>1. Owed(r, d)
        BY <1>1, <2>2, <2>4, <3>4 DEF Whole, Complete, Loops
      <4> QED
        BY <2>2, <4>1, OwedSeen
    <3>5. NothingDropped'
      BY <1>3, <2>1, <3>1, <3>4 DEF NothingDropped, HasSeen, Usable
    <3> QED
      BY <1>3, <2>4, <3>1, <3>3, <3>5
  <2> QED
    BY <2>3, <2>4
<1> QED
  BY <1>5, <1>6 DEF Finish, FetchFails, StoreFails, Crash, Abort, shared

LEMMA DroppedStep ==
    DroppedInv /\ CapNotReached /\ [Next]_vars /\ [BatchHandled]_vars
    => DroppedInv'
<1> SUFFICES ASSUME DroppedInv, CapNotReached, [Next]_vars, [BatchHandled]_vars
             PROVE  DroppedInv'
  OBVIOUS
<1>1. /\ AloneInv' /\ TypeOK /\ TypeOK' /\ posted \in Nat
      /\ Deviation \subseteq Nat
  BY AloneStep, TypeStep, MaxPostsAssumption
  DEF DroppedInv, AloneInv, FetchInv, TypeOK, Deviation
<1>2. CASE Post \/ UNCHANGED vars
  <2>1. UNCHANGED <<run, row, baseline, covered>> /\ posted <= posted'
    BY <1>1, <1>2 DEF Post, vars
  <2>2. \A q \in Proc : Whole(run[q])'
    BY <2>1
    DEF DroppedInv, Whole, Gapless, Complete, Due, Owed, InReach, HasSeen, InSeq,
        Usable
  <2>3. posted' \in Nat
    BY <1>1, MaxPostsAssumption DEF TypeOK
  <2>4. RowsPosted'
    BY <1>1, <2>1, <2>3 DEF DroppedInv, RowsPosted, HasSeen
  <2>5. NothingDropped' /\ (baseline' = Never => covered' = Never)
    BY <2>1 DEF DroppedInv, NothingDropped, HasSeen, Usable
  <2> QED
    BY <1>1, <2>2, <2>4, <2>5 DEF DroppedInv
<1>3. CASE \E p \in Proc : Own(p) /\ ~UNCHANGED vars
  <2>1. PICK p \in Proc : Own(p)
    BY <1>3
  <2>2. BatchHandled /\ \A q \in Proc : q = p
    BY <1>3 DEF DroppedInv, AloneInv, OneAtATime
  <2>3. /\ Whole(run[p])' /\ RowsPosted' /\ NothingDropped'
        /\ baseline' = Never => covered' = Never
    <3>1. CASE \/ \E c \in Commands : Start(p, c)
               \/ Fetch(p) \/ UseFetched(p) \/ Filter(p) \/ Dispatch(p)
      <4>1. Whole(run[p])' /\ UNCHANGED <<posted, row, baseline, covered>>
        BY <1>1, <3>1, WholeReading DEF shared
      <4> QED
        BY <4>1 DEF DroppedInv, RowsPosted, NothingDropped, HasSeen, Usable
    <3>2. CASE SeedOne(p) \/ Send(p) \/ SendFails(p) \/ Mark(p)
      <4>1. /\ Whole(run[p])' /\ RowsPosted'
            /\ UNCHANGED <<posted, baseline, covered>>
            /\ \A d \in Deviation : HasSeen(d) => HasSeen(d)'
        BY <1>1, <2>2, <3>2, WholeLoops
      <4> QED
        BY <4>1 DEF DroppedInv, NothingDropped, Deviation, Usable
    <3>3. CASE Finish(p) \/ FetchFails(p) \/ StoreFails(p) \/ Crash(p)
      <4>1. /\ Whole(run[p])' /\ NothingDropped' /\ UNCHANGED <<posted, row>>
            /\ baseline' = Never => covered' = Never
        BY <1>1, <2>2, <3>3, WholeEnd
      <4> QED
        BY <4>1 DEF DroppedInv, RowsPosted, HasSeen
    <3> QED
      BY <2>1, <3>1, <3>2, <3>3 DEF Own, Handle, Fail
  <2> QED
    BY <1>1, <2>2, <2>3 DEF DroppedInv
<1> QED
  BY <1>2, <1>3 DEF Next, Own

LEMMA DroppedInit == OneAtATime /\ Init => DroppedInv
<1> SUFFICES ASSUME OneAtATime, Init PROVE DroppedInv
  OBVIOUS
<1>1. AloneInv
  BY AloneInit
<1>2. NothingDropped /\ RowsPosted /\ baseline = Never /\ covered = Never
  BY DEF Init, NothingDropped, RowsPosted, HasSeen, Never
<1>3. \A p \in Proc : Whole(run[p])
  BY <1>2 DEF Init, NoRun, Whole
<1> QED
  BY <1>1, <1>2, <1>3 DEF DroppedInv

\* As long as no two processes share the table, no fetch stops at the page cap,
\* and no push fails and no run ends in the middle of a batch once there is a
\* baseline: everything posted after the baseline, and before the start of a run
\* that recorded success, has a row. Fetches may fail, artists may post between
\* two pages, and runs may be killed between their batches; before the baseline
\* everything may fail.
THEOREM NothingIsDropped ==
    OneAtATime =>
        (Spec /\ []CapNotReached /\ [][BatchHandled]_vars => []NothingDropped)
<1>1. DroppedInv => NothingDropped
  BY DEF DroppedInv
<1> QED
  BY <1>1, DroppedInit, DroppedStep, PTL DEF Spec

\* Nothing but a page request can fail, and the cap is out of reach: an outage
\* of the API, however long, drops nothing.
THEOREM OutageDropsNothing ==
    OneAtATime /\ Faults \subseteq {"fetch"} /\ MaxPosts <= MaxPages * PageSize =>
        (Spec => []NothingDropped)
<1> SUFFICES ASSUME OneAtATime, Faults \subseteq {"fetch"},
                    MaxPosts <= MaxPages * PageSize
             PROVE  Spec => []NothingDropped
  OBVIOUS
<1>1. BatchHandled
  BY DEF BatchHandled, Fail, FetchFails, SendFails, StoreFails, Crash
<1>2. Init => DroppedInv /\ PagedInv
  BY DroppedInit, PagedInit
<1>3. DroppedInv /\ PagedInv /\ [Next]_vars => DroppedInv' /\ PagedInv'
  BY <1>1, DroppedStep, PagedStep, PagedCap
<1>4. DroppedInv => NothingDropped
  BY DEF DroppedInv
<1> QED
  BY <1>2, <1>3, <1>4, PTL DEF Spec

-----------------------------------------------------------------------------
(***************************************************************************)
(* The baseline is taken once.                                             *)
(***************************************************************************)
\* Once a run has recorded success the table is not empty, because the feed had
\* something to record when it started, so no run decides to seed again.
Sealed(r) ==
    /\ r.pc # "idle" => backlog <= r.started /\ r.cmd # "seed"
    /\ r.pc \notin {"idle", "page", "rows"} => ~IsEmpty \/ Len(r.collected) > 0
    /\ r.pc = "seed" \/ (r.pc = "filter" /\ r.seeding) => covered = Never

SealedInv ==
    /\ "seed" \notin Commands
    /\ AloneInv
    /\ \E d \in Deviation : Usable(d) /\ d <= backlog
    /\ covered # Never => ~IsEmpty
    /\ \A p \in Proc : Sealed(run[p])

\* A fetch that has come to its end has found something, now or earlier.
LEMMA FetchFinds ==
    ASSUME NEW p \in Proc, NEW r \in RunState, r = run[p], SealedInv,
           CapNotReached, r.pc = "rows", ExamineRow(p) \/ EndOfPage(p),
           run'[p].pc = "fetched"
    PROVE  ~IsEmpty \/ Len(r.collected) > 0
<1>1. /\ TypeOK /\ Fetching(r) /\ run \in [Proc -> RunState]
      /\ Deviation \subseteq Nat \ {0}
  BY DEF SealedInv, AloneInv, FetchInv, TypeOK, Deviation
<1>2. /\ r.i \in Nat \ {0} /\ r.raw_results \in Seq(Deviation)
      /\ Len(r.raw_results) \in Nat /\ r.started \in Nat /\ backlog \in Nat
      /\ r.collected \in Seq(Deviation) /\ Len(r.collected) \in Nat
  BY <1>1, RunType, MaxPostsAssumption DEF TypeOK
<1>3. CASE ExamineRow(p)
  <2>1. r.raw_results[r.i] \in Deviation
    BY <1>2, <1>3, EntryType DEF ExamineRow, MoreRows
  <2>2. HasSeen(r.raw_results[r.i])
    BY <1>1, <1>3 DEF ExamineRow, Become, RunState
  <2> QED
    BY <2>1, <2>2 DEF IsEmpty
<1>4. CASE EndOfPage(p)
  <2>1. r.i = Len(r.raw_results) + 1 /\ ~MoreRows(p)
    BY <1>1, <1>2, <1>4 DEF EndOfPage, MoreRows, Fetching
  <2>2. LastPage(r)
    BY <1>1, <1>4 DEF EndOfPage, Become, RunState
  <2>3. ~r.has_more
    BY <2>1, <2>2 DEF LastPage, CapNotReached
  <2>4. PICK top \in Int : PageFrom(r, top)
    BY <1>1 DEF Fetching
  <2>5. top - r.i + 1 <= 0 /\ top - r.i + 1 \in Int
    BY <1>2, <2>1, <2>3, <2>4 DEF PageFrom
  <2>6. PICK d \in Deviation : Usable(d) /\ d <= backlog
    BY DEF SealedInv
  <2>7. d <= r.started /\ d > top - r.i + 1
    BY <1>1, <1>2, <2>5, <2>6, SMTT(30) DEF SealedInv, Sealed
  <2>8. InSeq(d, r.collected)
    BY <2>4, <2>6, <2>7 DEF PageFrom, ReadTo, InReach
  <2> QED
    BY <1>2, <2>8 DEF InSeq
<1> QED
  BY <1>3, <1>4

LEMMA SealedOwn ==
    ASSUME SealedInv, CapNotReached, TypeOK', [Next]_vars, NEW p \in Proc, Own(p)
    PROVE  /\ Sealed(run[p])'
           /\ covered' # Never => ~IsEmpty'
<1>0. PICK r \in RunState : r = run[p]
  BY DEF SealedInv, AloneInv, FetchInv, TypeOK
<1>1. /\ TypeOK /\ run \in [Proc -> RunState] /\ r = run[p]
      /\ Sealed(r) /\ IInv /\ backlog' = backlog
      /\ covered # Never => ~IsEmpty
  BY <1>0, OwnPosted DEF SealedInv, AloneInv, FetchInv, TypeOK
<1>2. ~IsEmpty => ~IsEmpty'
  BY <1>1, Monotone DEF IsEmpty
<1>3. ASSUME run'[p].started = r.started, run'[p].cmd = r.cmd, covered' = covered,
             r.pc # "idle", run'[p].pc \in {"page", "rows"}
      PROVE  Sealed(run[p])'
  BY <1>1, <1>3 DEF Sealed
<1>4. CASE \E c \in Commands : Start(p, c)
  <2>1. PICK c \in Commands : Start(p, c)
    BY <1>4
  <2>2. run'[p].pc = "page" /\ run'[p].cmd = c /\ run'[p].started = posted
    BY <1>1, <2>1 DEF Start, Become, NoRun
  <2>3. backlog <= posted /\ covered' = covered /\ c # "seed"
    BY <1>1, <2>1, MaxPostsAssumption DEF Start, shared, TypeOK, SealedInv
  <2> QED
    BY <1>1, <1>2, <2>2, <2>3 DEF Sealed
<1>5. CASE RequestPage(p)
  <2>1. /\ r.pc = "page" /\ covered' = covered
    BY <1>1, <1>5 DEF RequestPage, shared
  <2>2. /\ run'[p].pc = "rows" /\ run'[p].started = r.started
        /\ run'[p].cmd = r.cmd
    BY <1>1, <1>5 DEF RequestPage, Become, RunState
  <2> QED
    BY <1>1, <1>2, <1>3, <2>1, <2>2
<1>6. CASE ExamineRow(p) \/ EndOfPage(p)
  <2> DEFINE c == Append(r.collected, r.raw_results[r.i])
  <2>1. r.pc = "rows" /\ covered' = covered
    BY <1>1, <1>6 DEF ExamineRow, EndOfPage, shared
  <2>2. \/ run'[p] = [r EXCEPT !.i = @ + 1]
        \/ run'[p] = [r EXCEPT !.i = @ + 1, !.collected = c]
        \/ run'[p] = [r EXCEPT !.pc = "page", !.offset = @ + Len(r.raw_results)]
        \/ run'[p] = FetchReturns(r)
    BY <1>1, <1>6 DEF ExamineRow, EndOfPage, Become
  <2> HIDE DEF c
  <2>3. /\ run'[p].started = r.started /\ run'[p].cmd = r.cmd
        /\ \/ run'[p].pc \in {"page", "rows"}
           \/ run'[p].pc = "fetched" /\ run'[p].collected = r.collected
    BY <2>1, <2>2 DEF FetchReturns, RunState
  <2>4. CASE run'[p].pc \in {"page", "rows"}
    BY <1>1, <1>2, <1>3, <2>1, <2>3, <2>4
  <2>5. CASE run'[p].pc = "fetched" /\ run'[p].collected = r.collected
    <3>1. ~IsEmpty \/ Len(r.collected) > 0
      BY <1>1, <1>6, <2>1, <2>5, FetchFinds
    <3> QED
      BY <1>1, <1>2, <2>1, <2>3, <2>5, <3>1 DEF Sealed
  <2> QED
    BY <2>3, <2>4, <2>5
<1>7. CASE Handle(p) /\ ~Finish(p)
  <2>1. /\ run'[p].started = r.started /\ run'[p].collected = r.collected
        /\ run'[p].cmd = r.cmd /\ run'[p].pc \notin {"page", "rows"}
    BY <1>1, <1>7, HandleLeavesFetch
  <2>2. r.pc \notin {"idle", "page", "rows"} /\ covered' = covered
    BY <1>1, <1>7
    DEF Handle, UseFetched, Filter, Dispatch, SeedOne, Send, Mark, shared
  <2>3. run'[p].pc = "seed" \/ (run'[p].pc = "filter" /\ run'[p].seeding)
        => covered = Never
    <3>1. CASE UseFetched(p)
      <4> DEFINE seeding == r.cmd = "run" /\ IsEmpty
      <4>1. run'[p] = [r EXCEPT !.pc = "filter", !.seeding = seeding]
        BY <1>1, <2>2, <3>1 DEF UseFetched, Become, Sealed
      <4>2. seeding => covered = Never
        BY <1>1
      <4> HIDE DEF seeding
      <4>3. run'[p].pc = "filter" /\ run'[p].seeding = seeding
        BY <4>1 DEF RunState
      <4> QED
        BY <4>2, <4>3
    <3>2. CASE Filter(p)
      <4> DEFINE d == r.collected[r.i]
                 new == IF HasSeen(d) THEN r.new ELSE Append(r.new, d)
      <4>1. r.pc = "filter" /\ run'[p] = [r EXCEPT !.i = @ + 1, !.new = new]
        BY <1>1, <3>2 DEF Filter, Become
      <4> HIDE DEF new
      <4>2. run'[p].pc = "filter" /\ run'[p].seeding = r.seeding
        BY <4>1 DEF RunState
      <4> QED
        BY <1>1, <4>1, <4>2 DEF Sealed
    <3>3. CASE Dispatch(p)
      <4>1. r.pc = "filter"
        BY <1>1, <3>3 DEF Dispatch
      <4>2. run'[p].pc = IF r.seeding THEN "seed"
                         ELSE IF r.cmd = "dry_run" THEN "report" ELSE "notify"
        BY <1>1, <3>3 DEF Dispatch, Become, RunState
      <4> QED
        BY <1>1, <4>1, <4>2 DEF Sealed
    <3>4. CASE SeedOne(p)
      BY <1>1, <3>4 DEF SeedOne, Sealed
    <3>5. CASE Send(p) \/ Mark(p)
      <4>1. run'[p].pc \in {"notify", "mark"}
        <5> DEFINE a == [r EXCEPT !.pc = "mark"]
                   b == [r EXCEPT !.pc = "notify", !.i = @ + 1]
        <5>1. run'[p] \in {a, b}
          BY <1>1, <3>5 DEF Send, Mark, Become
        <5>2. a.pc = "mark" /\ b.pc = "notify"
          BY <1>1 DEF RunState
        <5> HIDE DEF a, b
        <5> QED
          BY <5>1, <5>2
      <4> QED
        BY <4>1
    <3> QED
      BY <1>7, <3>1, <3>2, <3>3, <3>4, <3>5 DEF Handle
  <2> QED
    BY <1>1, <1>2, <2>1, <2>2, <2>3 DEF Sealed
<1>8. CASE SendFails(p)
  <2>1. r.pc = "notify" /\ covered' = covered
    BY <1>1, <1>8 DEF SendFails
  <2>2. /\ run'[p].pc = "notify" /\ run'[p].started = r.started
        /\ run'[p].cmd = r.cmd /\ run'[p].collected = r.collected
    BY <1>1, <1>8 DEF SendFails, Become, RunState
  <2> QED
    BY <1>1, <1>2, <2>1, <2>2 DEF Sealed
<1>9. CASE Finish(p) \/ FetchFails(p) \/ StoreFails(p) \/ Crash(p)
  <2>1. run'[p].pc = "idle"
    BY <1>1, <1>9 DEF Finish, FetchFails, StoreFails, Crash, Abort, Become, NoRun
  <2>2. CASE Finish(p) /\ RecordsSuccess(p)
    <3>1. \A k \in 1..Len(r.collected) :
              HasSeen(r.collected[k]) /\ r.collected[k] \in Deviation
      BY <1>1, <2>2, RunType, AccountsMeanHandled DEF SuccessMeansHandled
    <3>2. ~IsEmpty \/ Len(r.collected) > 0
      BY <1>1, <2>2 DEF RecordsSuccess, LoopDone, Sealed
    <3>3. Len(r.collected) \in Nat
      BY <1>1, RunType
    <3>4. ~IsEmpty
      <4>1. ASSUME Len(r.collected) > 0 PROVE ~IsEmpty
        <5>1. 1 \in 1..Len(r.collected)
          BY <3>3, <4>1
        <5> QED
          BY <3>1, <5>1 DEF IsEmpty
      <4> QED
        BY <3>2, <4>1
    <3> QED
      BY <1>2, <2>1, <3>4 DEF Sealed
  <2>3. CASE covered' = covered
    BY <1>1, <1>2, <2>1, <2>3 DEF Sealed
  <2> QED
    BY <1>9, <2>2, <2>3
    DEF Finish, FetchFails, StoreFails, Crash, Abort, shared
<1> QED
  BY <1>4, <1>5, <1>6, <1>7, <1>8, <1>9 DEF Own, Fetch, Fail

LEMMA SealedStep == SealedInv /\ CapNotReached /\ [Next]_vars => SealedInv'
<1> SUFFICES ASSUME SealedInv, CapNotReached, [Next]_vars PROVE SealedInv'
  OBVIOUS
<1>1. AloneInv' /\ TypeOK /\ TypeOK'
  BY AloneStep, TypeStep DEF SealedInv, AloneInv, FetchInv
<1>2. CASE Post \/ UNCHANGED vars
  <2>1. UNCHANGED <<run, row, backlog, covered>>
    BY <1>2 DEF Post, vars
  <2> QED
    BY <1>1, <2>1 DEF SealedInv, Sealed, IsEmpty, HasSeen, Usable
<1>3. CASE \E p \in Proc : Own(p)
  <2>1. PICK p \in Proc : Own(p)
    BY <1>3
  <2>2. Sealed(run[p])' /\ (covered' # Never => ~IsEmpty')
    BY <1>1, <2>1, SealedOwn
  <2>3. backlog' = backlog /\ \A q \in Proc : q = p
    BY <2>1, OwnPosted DEF SealedInv, AloneInv, OneAtATime
  <2> QED
    BY <1>1, <2>2, <2>3 DEF SealedInv, Usable
<1> QED
  BY <1>2, <1>3 DEF Next, Own

\* The feed held a usable deviation before the deployment, however long it was.
\* Before the deployment the feed held a deviation that validates.
SomeBacklog == \A b \in Backlogs : \E d \in 1..b : d \notin Malformed

LEMMA SealedInit ==
    OneAtATime /\ "seed" \notin Commands /\ SomeBacklog /\ Init => SealedInv
<1> SUFFICES ASSUME OneAtATime, "seed" \notin Commands, SomeBacklog, Init
             PROVE  SealedInv
  OBVIOUS
<1>1. AloneInv
  BY AloneInit
<1>2. \E d \in Deviation : Usable(d) /\ d <= backlog
  <2>1. backlog \in Backlogs /\ backlog \in 0..MaxPosts
    BY BacklogsAssumption DEF Init
  <2>2. PICK d \in 1..backlog : d \notin Malformed
    BY <2>1 DEF SomeBacklog
  <2>3. d \in Deviation /\ d <= backlog
    BY <2>1, MaxPostsAssumption DEF Deviation
  <2> QED
    BY <2>2, <2>3 DEF Usable
<1>3. covered = Never /\ \A p \in Proc : run[p].pc = "idle"
  BY DEF Init, NoRun
<1> QED
  BY <1>1, <1>2, <1>3 DEF SealedInv, Sealed

\* Only a loop that seeds records a deviation without pushing it.
LEMMA SeededOnce ==
    ASSUME SealedInv, [Next]_vars, NEW d \in Deviation,
           row[d] = "none", row'[d] = "seeded"
    PROVE  covered = Never
<1>1. row' # row /\ TypeOK
  BY DEF SealedInv, AloneInv, FetchInv
<1>2. PICK p \in Proc : Own(p)
  BY <1>1 DEF Next, Own, Post, vars
<1>3. CASE SeedOne(p)
  BY <1>3 DEF SeedOne, SealedInv, Sealed
<1>4. CASE Mark(p)
  BY <1>1, <1>4 DEF Mark, MarkSeen, TypeOK
<1>5. CASE ~SeedOne(p) /\ ~Mark(p)
  BY <1>1, <1>2, <1>5
  DEF Own, Start, Fetch, Handle, Fail, RequestPage, ExamineRow, EndOfPage,
      UseFetched, Filter, Dispatch, Send, Finish, FetchFails, SendFails,
      StoreFails, Crash, Abort, shared
<1> QED
  BY <1>3, <1>4, <1>5

\* As long as no two processes share the table, `dawatch seed` is not invoked by
\* hand, the feed was not empty before the deployment, and no fetch stops at the
\* page cap: after a first recorded success no run ever records a deviation
\* without pushing it, whatever fails, whatever is killed, and also when runs
\* with --no-seed and dry runs come in between.
THEOREM BaselineTakenOnce ==
    OneAtATime /\ "seed" \notin Commands /\ SomeBacklog =>
        (Spec /\ []CapNotReached => NoSilentSeedAfterSuccess)
<1> DEFINE A == \A d \in Deviation :
                    row[d] = "none" /\ row'[d] = "seeded" => covered = Never
<1>1. SealedInv /\ [Next]_vars => [A]_vars
  BY SeededOnce
<1> QED
  BY <1>1, SealedInit, SealedStep, PTL DEF Spec, NoSilentSeedAfterSuccess

\* With the cap out of reach, no assumption about the course of a run is left.
THEOREM BaselineTakenOnceBelowCap ==
    /\ OneAtATime /\ "seed" \notin Commands /\ SomeBacklog
    /\ MaxPosts <= MaxPages * PageSize
    => (Spec => NoSilentSeedAfterSuccess)
BY BaselineTakenOnce, CapUnreached, PTL
=============================================================================
