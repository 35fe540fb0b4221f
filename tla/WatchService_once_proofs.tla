--------------------- MODULE WatchService_once_proofs ----------------------
(***************************************************************************)
(* The core promise, that no deviation is notified twice, and the          *)
(* conditions under which the program keeps it.                            *)
(***************************************************************************)
EXTENDS WatchService_alone_proofs

\* Nobody posts while a fetch has read a page and is going to read another.
StillFeed ==
    posted' # posted =>
        \A p \in Proc :
            run[p].pc \in {"page", "rows"} =>
                run[p].pages_read = 0 \/ LastPage(run[p])

\* Nothing ends a run between a push and its record.
RecordFollows ==
    \A p \in Proc : run[p].pc = "mark" => ~StoreFails(p) /\ ~Crash(p)

Calm == StillFeed /\ RecordFollows

Distinct(s) ==
    \A j, k \in 1..Len(s) : s[j] = s[k] => j = k

\* The feed lies still between the first page and the last, and what has been
\* collected is newer than everything that is still to be examined.
Descends(r, top) ==
    /\ \A j \in 1..Len(r.raw_results) : r.raw_results[j] = top - j + 1
    /\ ~LastPage(r) => top = posted - r.offset
    /\ \A k \in 1..Len(r.collected) : r.collected[k] > top - r.i + 1

Once(r) ==
    /\ r.pc \in {"page", "rows"} /\ r.has_more => PageSize < posted
    /\ r.pages_read = 0 =>
        /\ r.pc # "rows"
        /\ r.pc = "page" => r.offset = 0 /\ r.collected = <<>>
    /\ r.pc = "page" /\ r.pages_read > 0 =>
        /\ ~LastPage(r)
        /\ \A k \in 1..Len(r.collected) : r.collected[k] > posted - r.offset
    /\ r.pc = "rows" => \E top \in Int : Descends(r, top)
    /\ Distinct(r.collected)
    /\ r.pc \in {"page", "rows", "fetched"} => r.new = <<>>
    /\ r.pc = "filter" =>
        \A k \in 1..Len(r.new), j \in r.i..Len(r.collected) :
            r.new[k] # r.collected[j]
    /\ Distinct(r.new)
    /\ r.pc \in {"notify", "mark"} =>
        \A k \in r.i..Len(r.new) : ~HasSeen(r.new[k])

\* What has been pushed is recorded, or about to be.
Settled ==
    \A d \in delivered :
        \/ HasSeen(d)
        \/ \E p \in Proc : run[p].pc = "mark" /\ run[p].new[run[p].i] = d

OnceInv ==
    /\ "ack" \notin Faults
    /\ AloneInv
    /\ AtMostOnce
    /\ Settled
    /\ \A p \in Proc : Once(run[p])

-----------------------------------------------------------------------------
\* Appending something new keeps a list without duplicates.
LEMMA AppendDistinct ==
    ASSUME NEW s \in Seq(Deviation), NEW d \in Deviation, Distinct(s),
           \A k \in 1..Len(s) : s[k] # d
    PROVE  Distinct(Append(s, d))
<1> DEFINE c == Append(s, d)
<1>1. /\ Len(c) = Len(s) + 1 /\ c[Len(s) + 1] = d /\ Len(s) \in Nat
      /\ \A k \in 1..Len(s) : c[k] = s[k]
  BY Appended
<1> HIDE DEF c
<1>2. ASSUME NEW j \in 1..Len(c), NEW k \in 1..Len(c), c[j] = c[k] PROVE j = k
  <2>1. CASE j = Len(s) + 1 \/ k = Len(s) + 1
    BY <1>1, <1>2, <2>1
  <2>2. CASE j # Len(s) + 1 /\ k # Len(s) + 1
    <3>1. j \in 1..Len(s) /\ k \in 1..Len(s)
      BY <1>1, <2>2
    <3> QED
      BY <1>1, <1>2, <3>1 DEF Distinct
  <2> QED
    BY <2>1, <2>2
<1>3. Distinct(c)
  BY <1>2 DEF Distinct
<1> QED
  BY <1>3 DEF c

\* fetch() returns with what has been collected.
LEMMA ReturnsOnce ==
    ASSUME NEW p \in Proc, NEW r \in RunState, TypeOK, r = run[p],
           Once(r), r.pc = "rows", Become(p, FetchReturns(r))
    PROVE  Once(run[p])'
<1>1. /\ run'[p].pc = "fetched" /\ run'[p].new = r.new
      /\ run'[p].collected = r.collected /\ run'[p].has_more = FALSE
  BY DEF TypeOK, Become, FetchReturns, RunState
<1> QED
  BY <1>1 DEF Once

\* What is left to show of a process in the loop over the rows of a page, and of
\* one that is about to request another page.
LEMMA RowsOnce ==
    ASSUME NEW p \in Proc, NEW top \in Int, run'[p].pc = "rows",
           run'[p].has_more => PageSize < posted', run'[p].pages_read # 0,
           Descends(run[p], top)', Distinct(run'[p].collected),
           run'[p].new = <<>>
    PROVE  Once(run[p])'
<1>1. Distinct(run'[p].new)
  BY DEF Distinct
<1>2. (\E t \in Int : Descends(run[p], t))'
  OBVIOUS
<1> QED
  BY <1>1, <1>2 DEF Once

LEMMA PageOnce ==
    ASSUME NEW p \in Proc, run'[p].pc = "page",
           run'[p].has_more => PageSize < posted', run'[p].pages_read # 0,
           ~LastPage(run'[p]),
           \A k \in 1..Len(run'[p].collected) :
               run'[p].collected[k] > posted' - run'[p].offset,
           Distinct(run'[p].collected), run'[p].new = <<>>
    PROVE  Once(run[p])'
<1>1. Distinct(run'[p].new)
  BY DEF Distinct
<1>2. LastPage(run[p])' <=> LastPage(run'[p])
  BY DEF LastPage
<1> QED
  BY <1>1, <1>2 DEF Once

\* The steps that neither push nor write the table.
LEMMA OnceLocal ==
    ASSUME OnceInv, TypeOK', NEW p \in Proc, Own(p), RecordFollows,
           ~SeedOne(p), ~Send(p), ~SendFails(p), ~Mark(p)
    PROVE  /\ Once(run[p])'
           /\ UNCHANGED <<row, delivered, redelivered>>
           /\ run[p].pc # "mark"
<1>0. PICK r \in RunState : r = run[p]
  BY DEF OnceInv, AloneInv, FetchInv, TypeOK
<1>1. /\ TypeOK /\ run \in [Proc -> RunState] /\ r = run[p]
      /\ Once(r) /\ Alone(r) /\ Fetching(r) /\ Accounts(r)
      /\ posted \in Nat /\ posted' = posted
  BY <1>0, OwnPosted, MaxPostsAssumption
  DEF OnceInv, AloneInv, FetchInv, IInv, TypeOK
<1>2. /\ r.i \in Nat \ {0} /\ r.raw_results \in Seq(Deviation)
      /\ r.collected \in Seq(Deviation) /\ r.new \in Seq(Deviation)
      /\ r.offset \in Nat /\ r.pages_read \in Nat /\ r.has_more \in BOOLEAN
      /\ PageSize \in Nat \ {0} /\ Len(r.collected) \in Nat
      /\ Len(r.raw_results) \in Nat
      /\ \A k \in 1..Len(r.collected) : r.collected[k] \in Nat
  <2>1. \A k \in 1..Len(r.collected) : r.collected[k] \in Deviation
    BY <1>1, RunType
  <2> QED
    BY <1>1, <2>1, RunType, PageSizeAssumption, MaxPostsAssumption DEF Deviation
<1>3. r.pc = "mark" => ~StoreFails(p) /\ ~Crash(p)
  BY <1>1 DEF RecordFollows
<1>4. UNCHANGED <<row, delivered, redelivered>> /\ r.pc # "mark"
  <2>1. CASE \E c \in Commands : Start(p, c)
    BY <1>1, <2>1 DEF Start, shared
  <2>2. CASE Fetch(p)
    BY <1>1, <2>2 DEF Fetch, RequestPage, ExamineRow, EndOfPage, shared
  <2>3. CASE Handle(p)
    BY <1>1, <2>3 DEF Handle, UseFetched, Filter, Dispatch, Finish, LoopDone, shared
  <2>4. CASE FetchFails(p) \/ StoreFails(p) \/ Crash(p)
    BY <1>1, <1>3, <2>4 DEF FetchFails, StoreFails, Crash, Abort, shared
  <2> QED
    BY <2>1, <2>2, <2>3, <2>4 DEF Own, Fail
<1>5. Distinct(<<>>)
  BY DEF Distinct
<1>6. CASE (\E c \in Commands : Start(p, c)) \/ Finish(p) \/ FetchFails(p)
           \/ StoreFails(p) \/ Crash(p)
  <2>1. CASE \E c \in Commands : Start(p, c)
    <3>1. /\ run'[p].new = <<>> /\ run'[p].collected = <<>>
          /\ run'[p].pc = "page" /\ run'[p].offset = 0
          /\ run'[p].pages_read = 0 /\ ~run'[p].has_more
      BY <1>1, <2>1 DEF Start, Become, NoRun
    <3> QED
      BY <1>1, <1>4, <1>5, <3>1 DEF Once
  <2>2. CASE Finish(p) \/ FetchFails(p) \/ StoreFails(p) \/ Crash(p)
    <3>1. run'[p] = NoRun
      BY <1>1, <2>2 DEF Finish, FetchFails, StoreFails, Crash, Abort, Become
    <3> QED
      BY <1>1, <1>4, <1>5, <3>1 DEF Once, NoRun
  <2> QED
    BY <1>6, <2>1, <2>2
<1>7. CASE RequestPage(p)
  <2>0. PICK top \in Int : top = posted - r.offset
    BY <1>1, <1>2
  <2> DEFINE page == Page(r.offset)
             more == r.offset + PageSize < posted
  <2>1. r.pc = "page" /\ r.new = <<>>
    BY <1>1, <1>7 DEF RequestPage, Once
  <2>2. run'[p] = [r EXCEPT !.pc = "rows", !.pages_read = @ + 1,
                            !.raw_results = page, !.has_more = more, !.i = 1]
    BY <1>1, <1>7 DEF RequestPage, Become
  <2>3. \A j \in 1..Len(page) : page[j] = top - j + 1
    BY <1>1, <1>2, <2>0, PageRows
  <2>4. more \in BOOLEAN /\ (more => PageSize < posted)
    BY <1>1, <1>2
  <2>5. \A k \in 1..Len(r.collected) : r.collected[k] > top
    BY <1>1, <1>2, <2>0, <2>1 DEF Once
  <2>6. top - 1 + 1 = top
    OBVIOUS
  <2> HIDE DEF page, more
  <2>7. /\ run'[p].pc = "rows" /\ run'[p].pages_read = r.pages_read + 1
        /\ run'[p].raw_results = page /\ run'[p].has_more = more
        /\ run'[p].i = 1 /\ run'[p].collected = r.collected
        /\ run'[p].new = <<>> /\ run'[p].offset = r.offset
    BY <2>1, <2>2 DEF RunState
  <2>8. Descends(run[p], top)'
    BY <1>1, <2>0, <2>3, <2>5, <2>6, <2>7 DEF Descends
  <2>9. Distinct(r.collected)
    BY <1>1 DEF Once
  <2>10. /\ run'[p].has_more => PageSize < posted'
         /\ run'[p].pages_read # 0
    BY <1>1, <1>2, <2>4, <2>7
  <2>11. Distinct(run'[p].collected) /\ run'[p].new = <<>>
    BY <2>7, <2>9
  <2>12. Once(run[p])'
    BY <2>7, <2>8, <2>10, <2>11, RowsOnce
  <2> QED
    BY <1>1, <1>4, <2>12
<1>8. CASE ExamineRow(p)
  <2> DEFINE d == r.raw_results[r.i]
             c == Append(r.collected, d)
  <2>1. /\ r.pc = "rows" /\ d \in Deviation /\ r.i <= Len(r.raw_results)
        /\ r.new = <<>> /\ r.pages_read # 0 /\ r.i \in 1..Len(r.raw_results)
    BY <1>1, <1>2, <1>8, RunType, EntryType DEF ExamineRow, MoreRows, Once
  <2>2. CASE Become(p, FetchReturns(r))
    BY <1>1, <1>4, <2>1, <2>2, ReturnsOnce
  <2>3. PICK top \in Int : Descends(r, top)
    BY <1>1, <2>1 DEF Once
  <2>4. d = top - r.i + 1
    BY <2>1, <2>3 DEF Descends
  <2>7. Distinct(r.collected) /\ (r.has_more => PageSize < posted)
    BY <1>1, <2>1 DEF Once
  <2>5. CASE Become(p, [r EXCEPT !.i = @ + 1])
    <3>1. /\ run'[p].pc = "rows" /\ run'[p].new = <<>>
          /\ run'[p].collected = r.collected /\ run'[p].i = r.i + 1
          /\ run'[p].raw_results = r.raw_results /\ run'[p].offset = r.offset
          /\ run'[p].has_more = r.has_more
          /\ run'[p].pages_read = r.pages_read
      BY <1>1, <2>1, <2>5 DEF Become, RunState
    <3>2. ASSUME NEW j \in 1..Len(r.raw_results)
          PROVE  run'[p].raw_results[j] = top - j + 1
      BY <2>3, <3>1 DEF Descends
    <3>3. ~LastPage(run'[p]) => top = posted' - run'[p].offset
      BY <1>1, <2>3, <3>1 DEF Descends, LastPage
    <3>4. ASSUME NEW k \in 1..Len(r.collected)
          PROVE  run'[p].collected[k] > top - run'[p].i + 1
      <4>1. r.collected[k] > top - r.i + 1
        BY <2>3 DEF Descends
      <4>2. r.collected[k] \in Int
        BY <1>2, ElementOfSeq DEF Deviation
      <4> QED
        BY <1>2, <3>1, <4>1, <4>2
    <3>5. Descends(run[p], top)'
      BY <3>1, <3>2, <3>3, <3>4 DEF Descends, LastPage
    <3> QED
      BY <1>1, <1>4, <2>1, <2>7, <3>1, <3>5, RowsOnce
  <2>6. CASE Become(p, [r EXCEPT !.i = @ + 1, !.collected = c])
    <3>1. \A k \in 1..Len(r.collected) : r.collected[k] # d
      BY <1>2, <2>3, <2>4 DEF Descends
    <3>2. Distinct(c)
      BY <1>1, <1>2, <2>1, <3>1, AppendDistinct DEF Once
    <3>3. /\ Len(c) = Len(r.collected) + 1 /\ c[Len(r.collected) + 1] = d
          /\ \A k \in 1..Len(r.collected) : c[k] = r.collected[k]
      BY <1>2, <2>1, Appended
    <3> HIDE DEF c
    <3>4. /\ run'[p].pc = "rows" /\ run'[p].new = <<>>
          /\ run'[p].collected = c /\ run'[p].i = r.i + 1
          /\ run'[p].raw_results = r.raw_results /\ run'[p].offset = r.offset
          /\ run'[p].has_more = r.has_more
          /\ run'[p].pages_read = r.pages_read
      BY <1>1, <2>1, <2>6 DEF Become, RunState
    <3>5. ASSUME NEW k \in 1..Len(c) PROVE c[k] > top - (r.i + 1) + 1
      <4>1. CASE k = Len(r.collected) + 1
        BY <1>2, <2>3, <2>4, <3>3, <4>1
      <4>2. CASE k # Len(r.collected) + 1
        <5>1. k \in 1..Len(r.collected)
          BY <1>2, <3>3, <4>2
        <5>2. c[k] = r.collected[k] /\ r.collected[k] \in Nat
          BY <1>2, <3>3, <5>1
        <5>3. r.collected[k] > top - r.i + 1
          BY <2>3, <5>1 DEF Descends
        <5> QED
          BY <1>2, <2>3, <5>2, <5>3
      <4> QED
        BY <4>1, <4>2
    <3>6. Descends(run[p], top)'
      BY <1>1, <2>3, <3>4, <3>5 DEF Descends, LastPage
    <3> QED
      BY <1>1, <1>4, <2>1, <2>7, <3>2, <3>4, <3>6, RowsOnce
  <2> QED
    BY <1>1, <1>8, <2>2, <2>5, <2>6 DEF ExamineRow
<1>9. CASE EndOfPage(p)
  <2>1. r.pc = "rows" /\ r.new = <<>> /\ r.pages_read # 0
    BY <1>1, <1>9 DEF EndOfPage, Once
  <2>2. CASE LastPage(r)
    <3>1. Become(p, FetchReturns(r))
      BY <1>1, <1>9, <2>2 DEF EndOfPage
    <3> QED
      BY <1>1, <1>4, <2>1, <3>1, ReturnsOnce
  <2>3. CASE ~LastPage(r)
    <3>1. Become(p, [r EXCEPT !.pc = "page", !.offset = @ + Len(r.raw_results)])
      BY <1>1, <1>9, <2>3 DEF EndOfPage
    <3>2. PICK top \in Int : Descends(r, top)
      BY <1>1, <2>1 DEF Once
    <3>3. r.i = Len(r.raw_results) + 1
      BY <1>1, <1>2, <1>9, <2>1 DEF EndOfPage, MoreRows, Fetching
    <3>4. /\ run'[p].pc = "page" /\ run'[p].new = <<>>
          /\ run'[p].collected = r.collected
          /\ run'[p].offset = r.offset + Len(r.raw_results)
          /\ run'[p].has_more = r.has_more
          /\ run'[p].pages_read = r.pages_read
      BY <1>1, <2>1, <3>1 DEF Become, RunState
    <3>5. \A k \in 1..Len(r.collected) :
              r.collected[k] > posted - run'[p].offset
      BY <1>1, <1>2, <2>3, <3>2, <3>3, <3>4, SMTT(30) DEF Descends
    <3>6. ~LastPage(run'[p])
      BY <2>3, <3>4 DEF LastPage
    <3>7. Distinct(r.collected) /\ (r.has_more => PageSize < posted)
      BY <1>1, <2>1 DEF Once
    <3> QED
      BY <1>1, <1>4, <2>1, <3>4, <3>5, <3>6, <3>7, PageOnce
  <2> QED
    BY <2>2, <2>3
<1>10. CASE UseFetched(p)
  <2>1. r.pc = "fetched" /\ r.new = <<>>
    BY <1>1, <1>10 DEF UseFetched, Once
  <2>2. CASE r.cmd = "seed"
    <3>1. run'[p] = [r EXCEPT !.pc = "seed", !.new = r.collected]
      BY <1>1, <1>10, <2>2 DEF UseFetched, Become
    <3>2. /\ run'[p].pc = "seed" /\ run'[p].new = r.collected
          /\ run'[p].collected = r.collected
      BY <3>1 DEF RunState
    <3> QED
      BY <1>1, <1>4, <3>2 DEF Once
  <2>3. CASE r.cmd # "seed"
    <3> DEFINE seeding == r.cmd = "run" /\ IsEmpty
    <3>1. run'[p] = [r EXCEPT !.pc = "filter", !.seeding = seeding]
      BY <1>1, <1>10, <2>3 DEF UseFetched, Become
    <3> HIDE DEF seeding
    <3>2. /\ run'[p].pc = "filter" /\ run'[p].new = <<>>
          /\ run'[p].collected = r.collected
      BY <2>1, <3>1 DEF RunState
    <3> QED
      BY <1>1, <1>4, <1>5, <3>2 DEF Once
  <2> QED
    BY <2>2, <2>3
<1>11. CASE Filter(p)
  <2> DEFINE d == r.collected[r.i]
             new == Append(r.new, d)
  <2>1. /\ r.pc = "filter" /\ r.i <= Len(r.collected)
        /\ Len(r.collected) \in Nat /\ d \in Deviation
    BY <1>1, <1>11, RunType, EntryType DEF Filter
  <2>2. ~HasSeen(d)
    BY <1>1, <1>2, <2>1 DEF Alone, Reading, Unseen
  <2>3. \A k \in 1..Len(r.new), j \in r.i..Len(r.collected) :
            r.new[k] # r.collected[j]
    BY <1>1, <2>1 DEF Once
  <2>4. Distinct(new)
    <3>1. \A k \in 1..Len(r.new) : r.new[k] # d
      BY <1>2, <2>1, <2>3
    <3>2. Distinct(r.new)
      BY <1>1 DEF Once
    <3> QED
      BY <1>2, <2>1, <3>1, <3>2, AppendDistinct
  <2>5. /\ Len(new) = Len(r.new) + 1 /\ new[Len(r.new) + 1] = d
        /\ \A k \in 1..Len(r.new) : new[k] = r.new[k]
        /\ Len(r.new) \in Nat
    BY <1>2, <2>1, Appended
  <2>6. Become(p, [r EXCEPT !.i = @ + 1, !.new = new])
    BY <1>1, <1>11, <2>2 DEF Filter
  <2> HIDE DEF new
  <2>7. /\ run'[p].pc = "filter" /\ run'[p].new = new /\ run'[p].i = r.i + 1
        /\ run'[p].collected = r.collected
    BY <1>1, <2>1, <2>6 DEF Become, RunState
  <2>8. \A j \in (r.i + 1)..Len(r.collected) : d # r.collected[j]
    BY <1>1, <1>2, <2>1 DEF Once, Distinct
  <2>9. \A k \in 1..Len(new), j \in (r.i + 1)..Len(r.collected) :
            new[k] # r.collected[j]
    <3>1. SUFFICES ASSUME NEW k \in 1..Len(new),
                          NEW j \in (r.i + 1)..Len(r.collected)
                   PROVE  new[k] # r.collected[j]
      OBVIOUS
    <3>2. j \in r.i..Len(r.collected)
      BY <1>2, <2>1
    <3>3. CASE k = Len(r.new) + 1
      BY <2>5, <2>8, <3>3
    <3>4. CASE k # Len(r.new) + 1
      <4>1. k \in 1..Len(r.new)
        BY <2>5, <3>4
      <4> QED
        BY <2>3, <2>5, <3>2, <4>1
    <3> QED
      BY <3>3, <3>4
  <2> QED
    BY <1>1, <1>4, <2>4, <2>7, <2>9 DEF Once
<1>12. CASE Dispatch(p)
  <2>1. r.pc = "filter" /\ Unseen(r.new)
    BY <1>1, <1>12 DEF Dispatch, Alone, Reading
  <2>2. /\ run'[p].new = r.new /\ run'[p].i = 1 /\ run'[p].collected = r.collected
        /\ run'[p].pc \in {"seed", "report", "notify"}
    BY <1>1, <1>12 DEF Dispatch, Become, RunState
  <2> QED
    BY <1>1, <1>4, <2>1, <2>2 DEF Once, Unseen, HasSeen
<1> QED
  BY <1>1, <1>3, <1>4, <1>6, <1>7, <1>8, <1>9, <1>10, <1>11, <1>12
  DEF Own, Fetch, Handle, Fail

\* The steps that write the table or push.
LEMMA OnceWrites ==
    ASSUME OnceInv, TypeOK', NEW p \in Proc,
           SeedOne(p) \/ Send(p) \/ SendFails(p) \/ Mark(p)
    PROVE  Once(run[p])' /\ AtMostOnce' /\ Settled'
<1>0. PICK r \in RunState : r = run[p]
  BY DEF OnceInv, AloneInv, FetchInv, TypeOK
<1>1. /\ TypeOK /\ run \in [Proc -> RunState] /\ r = run[p]
      /\ Once(r) /\ Marks(r) /\ \A q \in Proc : q = p
      /\ AtMostOnce /\ Settled /\ "ack" \notin Faults
  BY <1>0 DEF OnceInv, AloneInv, IInv, FetchInv, TypeOK, OneAtATime
<1>2. /\ r.new \in Seq(Deviation) /\ r.i \in Nat \ {0}
      /\ Len(r.new) \in Nat
      /\ \A k \in 1..Len(r.new) : r.new[k] \in Deviation
      /\ row \in [Deviation -> {"none", "seeded", "notified"}]
  BY <1>1, RunType DEF TypeOK
<1>3. Distinct(r.new) /\ Distinct(r.collected)
  BY <1>1 DEF Once
<1> DEFINE d == r.new[r.i]
<1>4. CASE SeedOne(p)
  <2>1. r.pc = "seed" /\ d \in Deviation
    BY <1>1, <1>2, <1>4 DEF SeedOne, MoreNew
  <2>2. /\ run'[p].new = r.new /\ run'[p].pc = "seed"
        /\ run'[p].collected = r.collected
    BY <1>1, <1>4, <2>1 DEF SeedOne, Become, RunState
  <2>3. UNCHANGED <<delivered, redelivered>>
    BY <1>4 DEF SeedOne
  <2>4. \A e \in Deviation : HasSeen(e) => HasSeen(e)'
    BY <1>1, <1>2, <1>4 DEF SeedOne, MarkSeen, HasSeen
  <2>5. Once(run[p])'
    BY <1>3, <2>2 DEF Once
  <2>6. delivered \subseteq Deviation
    BY <1>1 DEF TypeOK
  <2>7. Settled'
    BY <1>1, <2>1, <2>3, <2>4, <2>6 DEF Settled
  <2> QED
    BY <1>1, <2>3, <2>5, <2>7 DEF AtMostOnce
<1>5. CASE Send(p)
  <2>1. /\ r.pc = "notify" /\ r.i \in 1..Len(r.new) /\ row' = row
        /\ delivered' = delivered \cup {d}
        /\ redelivered' = IF d \in delivered THEN redelivered \cup {d}
                                             ELSE redelivered
    BY <1>1, <1>2, <1>5 DEF Send, MoreNew, Deliver
  <2>2. /\ run'[p].new = r.new /\ run'[p].pc = "mark" /\ run'[p].i = r.i
        /\ run'[p].collected = r.collected
    BY <1>1, <1>5, <2>1 DEF Send, Become, RunState
  <2>3. ~HasSeen(d)
    BY <1>1, <1>2, <2>1 DEF Once
  <2>4. d \notin delivered
    BY <1>1, <2>1, <2>3 DEF Settled
  <2>5. \A k \in r.i..Len(r.new) : ~HasSeen(r.new[k])
    BY <1>1, <2>1 DEF Once
  <2>6. Once(run[p])'
    BY <1>3, <2>1, <2>2, <2>5 DEF Once, HasSeen
  <2>7. Settled'
    BY <1>1, <2>1, <2>2 DEF Settled, HasSeen
  <2> QED
    BY <1>1, <2>1, <2>4, <2>6, <2>7 DEF AtMostOnce
<1>6. CASE SendFails(p)
  <2>1. /\ r.pc = "notify" /\ r.i \in 1..Len(r.new) /\ row' = row
        /\ UNCHANGED <<delivered, redelivered>>
    BY <1>1, <1>2, <1>6 DEF SendFails, MoreNew
  <2>2. /\ run'[p].new = r.new /\ run'[p].pc = "notify" /\ run'[p].i = r.i + 1
        /\ run'[p].collected = r.collected
    BY <1>1, <1>6, <2>1 DEF SendFails, Become, RunState
  <2>3. \A k \in (r.i + 1)..Len(r.new) : ~HasSeen(r.new[k])
    BY <1>1, <1>2, <2>1 DEF Once
  <2>4. Once(run[p])'
    BY <1>3, <2>1, <2>2, <2>3 DEF Once, HasSeen
  <2>5. Settled'
    BY <1>1, <2>1 DEF Settled, HasSeen
  <2> QED
    BY <1>1, <2>1, <2>4, <2>5 DEF AtMostOnce
<1>7. CASE Mark(p)
  <2>1. /\ r.pc = "mark" /\ r.i \in 1..Len(r.new)
        /\ row' = [row EXCEPT ![d] = "notified"]
        /\ UNCHANGED <<delivered, redelivered>>
    BY <1>1, <1>2, <1>7 DEF Mark, MarkSeen, Marks
  <2>2. /\ run'[p].new = r.new /\ run'[p].pc = "notify" /\ run'[p].i = r.i + 1
        /\ run'[p].collected = r.collected
    BY <1>1, <1>7, <2>1 DEF Mark, Become, RunState
  <2>3. \A e \in Deviation : HasSeen(e)' <=> HasSeen(e) \/ e = d
    BY <1>2, <2>1 DEF HasSeen
  <2>4. ASSUME NEW k \in (r.i + 1)..Len(r.new) PROVE ~HasSeen(r.new[k])'
    <3>1. k \in 1..Len(r.new) /\ k # r.i /\ k \in r.i..Len(r.new)
      BY <1>2, <2>1
    <3>2. ~HasSeen(r.new[k])
      BY <1>1, <2>1, <3>1 DEF Once
    <3>3. r.new[k] # d
      BY <1>3, <2>1, <3>1 DEF Distinct
    <3> QED
      BY <1>2, <2>3, <3>1, <3>2, <3>3
  <2>5. Once(run[p])'
    BY <1>3, <2>2, <2>4 DEF Once
  <2>6. delivered \subseteq Deviation
    BY <1>1 DEF TypeOK
  <2>7. Settled'
    BY <1>1, <2>1, <2>3, <2>6 DEF Settled
  <2> QED
    BY <1>1, <2>1, <2>5, <2>7 DEF AtMostOnce
<1> QED
  BY <1>4, <1>5, <1>6, <1>7

LEMMA OnceStep ==
    OnceInv /\ [Next]_vars /\ [Calm]_vars => OnceInv'
<1> SUFFICES ASSUME OnceInv, [Next]_vars, [Calm]_vars PROVE OnceInv'
  OBVIOUS
<1>1. AloneInv' /\ TypeOK /\ TypeOK'
  BY AloneStep, TypeStep DEF OnceInv, AloneInv, FetchInv
<1>2. CASE UNCHANGED vars
  <2>1. UNCHANGED <<posted, run, row, delivered, redelivered>>
    BY <1>2 DEF vars
  <2> QED
    BY <1>1, <2>1 DEF OnceInv, AtMostOnce, Settled, Once, Descends, HasSeen
<1>3. CASE Post
  <2>1. /\ UNCHANGED <<run, row, delivered, redelivered>>
        /\ posted \in Nat /\ posted' = posted + 1 /\ StillFeed
    BY <1>1, <1>3, MaxPostsAssumption DEF Post, vars, Calm, TypeOK
  <2>2. ASSUME NEW q \in Proc PROVE Once(run[q])'
    <3>1. PICK r \in RunState : r = run[q]
      BY <1>1 DEF TypeOK
    <3>2. Once(r) /\ run'[q] = r /\ r.pages_read \in Nat
      BY <1>1, <2>1, <3>1, RunType DEF OnceInv
    <3>3. r.pc \in {"page", "rows"} => r.pages_read = 0 \/ LastPage(r)
      BY <2>1, <3>1 DEF StillFeed
    <3>4. r.pc \in {"page", "rows"} /\ r.has_more => PageSize < posted'
      BY <2>1, <3>2, PageSizeAssumption DEF Once
    <3>5. ~(r.pc = "page" /\ r.pages_read > 0)
      BY <3>2, <3>3 DEF Once
    <3>6. ASSUME r.pc = "rows" PROVE \E top \in Int : Descends(r, top)'
      <4>1. LastPage(r)
        BY <3>2, <3>3, <3>6 DEF Once
      <4>2. PICK top \in Int : Descends(r, top)
        BY <3>2, <3>6 DEF Once
      <4>3. Descends(r, top)'
        BY <4>1, <4>2 DEF Descends, LastPage
      <4> QED
        BY <4>3
    <3> QED
      BY <2>1, <3>2, <3>4, <3>5, <3>6 DEF Once, Descends, HasSeen
  <2>3. AtMostOnce' /\ Settled'
    BY <2>1 DEF OnceInv, AtMostOnce, Settled, HasSeen
  <2> QED
    BY <1>1, <2>2, <2>3 DEF OnceInv
<1>4. CASE \E p \in Proc : Own(p) /\ ~UNCHANGED vars
  <2>1. PICK p \in Proc : Own(p)
    BY <1>4
  <2>2. RecordFollows /\ \A q \in Proc : q = p
    BY <1>4 DEF Calm, OnceInv, AloneInv, OneAtATime
  <2>3. Once(run[p])' /\ AtMostOnce' /\ Settled'
    <3>1. CASE SeedOne(p) \/ Send(p) \/ SendFails(p) \/ Mark(p)
      BY <1>1, <3>1, OnceWrites
    <3>2. CASE ~(SeedOne(p) \/ Send(p) \/ SendFails(p) \/ Mark(p))
      <4>1. /\ Once(run[p])' /\ UNCHANGED <<row, delivered, redelivered>>
            /\ run[p].pc # "mark"
        BY <1>1, <2>1, <2>2, <3>2, OnceLocal
      <4>2. \A q \in Proc : run[q].pc # "mark"
        BY <2>2, <4>1
      <4>3. AtMostOnce' /\ Settled'
        BY <4>1, <4>2 DEF OnceInv, AtMostOnce, Settled, HasSeen
      <4> QED
        BY <4>1, <4>3
    <3> QED
      BY <3>1, <3>2
  <2> QED
    BY <1>1, <2>2, <2>3 DEF OnceInv
<1> QED
  BY <1>2, <1>3, <1>4 DEF Next, Own

LEMMA OnceInit == OneAtATime /\ "ack" \notin Faults /\ Init => OnceInv
<1> SUFFICES ASSUME OneAtATime, "ack" \notin Faults, Init PROVE OnceInv
  OBVIOUS
<1>1. AloneInv
  BY AloneInit
<1>2. AtMostOnce /\ Settled
  BY DEF Init, AtMostOnce, Settled
<1>3. \A p \in Proc : /\ run[p].pc = "idle" /\ run[p].collected = <<>>
                      /\ run[p].new = <<>>
  BY DEF Init, NoRun
<1>4. Distinct(<<>>)
  BY DEF Distinct
<1>5. \A p \in Proc : Once(run[p])
  BY <1>3, <1>4 DEF Once
<1> QED
  BY <1>1, <1>2, <1>5 DEF OnceInv

\* As long as no two processes share the table, nobody posts between two pages
\* of a fetch, and every push is answered and then recorded, no deviation is
\* pushed twice: however many pages the feed has, wherever else runs are killed
\* or fail, and whatever commands are mixed.
THEOREM PushedAtMostOnce ==
    OneAtATime /\ "ack" \notin Faults =>
        (Spec /\ [][Calm]_vars => []AtMostOnce)
<1>1. OnceInv => AtMostOnce
  BY DEF OnceInv
<1> QED
  BY <1>1, OnceInit, OnceStep, PTL DEF Spec

\* A feed that fits into a page is read in one request, so that it does not
\* matter when anybody posts.
LEMMA OnePageIsCalm ==
    ASSUME OnceInv, MaxPosts <= PageSize, Faults \subseteq {"fetch", "notify"}
    PROVE  Calm
<1>1. posted \in Nat /\ posted <= MaxPosts
  BY MaxPostsAssumption DEF OnceInv, AloneInv, FetchInv, TypeOK
<1>2. \A p \in Proc : run[p].pc \in {"page", "rows"} => ~run[p].has_more
  BY <1>1, MaxPostsAssumption, PageSizeAssumption DEF OnceInv, Once
<1>3. StillFeed
  BY <1>2 DEF StillFeed, LastPage
<1>4. RecordFollows
  BY DEF RecordFollows, StoreFails, Crash
<1> QED
  BY <1>3, <1>4 DEF Calm

\* Without paging no assumption about the moment of a post is left.
THEOREM OnePageAtMostOnce ==
    OneAtATime /\ MaxPosts <= PageSize /\ Faults \subseteq {"fetch", "notify"} =>
        (Spec => []AtMostOnce)
<1> SUFFICES ASSUME OneAtATime, MaxPosts <= PageSize,
                    Faults \subseteq {"fetch", "notify"}
             PROVE  Spec => []AtMostOnce
  OBVIOUS
<1>1. Init => OnceInv
  BY OnceInit
<1>2. OnceInv /\ [Next]_vars => OnceInv'
  BY OnceStep, OnePageIsCalm
<1>3. OnceInv => AtMostOnce
  BY DEF OnceInv
<1> QED
  BY <1>1, <1>2, <1>3, PTL DEF Spec
=============================================================================
