------------------------- MODULE PaginationProofs -------------------------
EXTENDS Pagination, CursorsProofs

\* The values of "nothing yet" are values of their types.
LEMMA BlankTypes == FirstPage \in Cursor /\ NoCall \in Call /\ NoPage \in Page
<1>1. FirstPage \in Cursor
  BY DEF FirstPage, Cursor, Time
<1>2. NoCall \in Call
  BY LimitAssumption DEF NoCall, Call, Time
<1>. QED
  BY <1>1, <1>2 DEF NoPage, Page

LEMMA PageOfType ==
  ASSUME TypeOK, NEW items, NEW F \in SUBSET Item
  PROVE  PageOf(items, F) \in Page
BY NextCursorType, BlankTypes DEF PageOf, HasNext, Page, TypeOK

\* Whatever is asked, retried, ingested or withdrawn, every variable keeps its
\* type; in particular the upstream query never exceeds the maximum.
THEOREM TypeCorrect == Spec => []TypeOK
<1>1. Init => TypeOK
  BY BlankTypes, AskedAssumption DEF Init, TypeOK, Matching
<1>2. ASSUME TypeOK, [Next]_vars
      PROVE  TypeOK'
  <2>. USE <1>2
  <2>1. CASE Ask
    <3>1. EffectiveLimit(limit) \in 1 .. MaxLimit
      BY EffectiveLimitType DEF TypeOK
    <3>2. BackendLimit(EffectiveLimit(limit), cursor) \in 1 .. MaxLimit
      BY <3>1, BackendLimitType DEF TypeOK
    <3>3. ApplyCursor(cursor, end) \in Time
      BY ApplyCursorType DEF TypeOK
    <3>. QED
      BY <2>1, <3>1, <3>2, <3>3, LimitAssumption
      DEF Ask, TypeOK, Call, upstream, link
  <2>2. CASE Search
    <3>1. PICK answer \in Answers(catalogue, call.end, call.max) :
            \E features \in Firsts(FilterSeen(answer \ Untranslatable, cursor),
                                   call.limit) :
               page' = PageOf(answer \ Untranslatable, features)
      BY <2>2 DEF Search
    <3>2. PICK features \in Firsts(FilterSeen(answer \ Untranslatable, cursor),
                                   call.limit) :
               page' = PageOf(answer \ Untranslatable, features)
      BY <3>1
    <3>3. answer \subseteq Item
      BY DEF Answers, Firsts, Matching, TypeOK
    <3>4. features \in SUBSET Item
      BY <3>3 DEF Firsts, FilterSeen
    <3>5. page' \in Page
      BY <3>2, <3>4, PageOfType
    <3>. QED
      BY <2>2, <3>5 DEF Search, TypeOK, upstream, link
  <2>3. CASE SearchFails
    BY <2>3, BlankTypes DEF SearchFails, TypeOK, upstream, link
  <2>4. CASE Receive
    BY <2>4, BlankTypes DEF Receive, TypeOK, upstream, Call, Page
  <2>5. CASE Lose
    BY <2>5, BlankTypes DEF Lose, TypeOK, upstream, link
  <2>6. ASSUME NEW i \in Item, Ingest(i)
        PROVE  TypeOK'
    BY <2>6 DEF Ingest, TypeOK, link
  <2>7. ASSUME NEW i \in Item, Withdraw(i)
        PROVE  TypeOK'
    BY <2>7 DEF Withdraw, TypeOK, link
  <2>8. CASE Finished \/ UNCHANGED vars
    BY <2>8 DEF Finished, vars, TypeOK
  <2>. QED
    BY <2>1, <2>2, <2>3, <2>4, <2>5, <2>6, <2>7, <2>8 DEF Next
<1>. QED
  BY <1>1, <1>2, PTL DEF Spec

-----------------------------------------------------------------------------
(* No duplicates. *)

\* What a search leaves on a page: nothing the cursor lists, nothing of a
\* second later than the cursor's.
LEMMA SearchedPage ==
  ASSUME BoundsHeld, WholeSeconds, TypeOK, CursorInv, phase = "asked",
         NEW answer \in Answers(catalogue, call.end, call.max),
         NEW F \in Firsts(FilterSeen(answer \ Untranslatable, cursor), call.limit)
  PROVE  /\ F \in SUBSET Item
         /\ \A f \in F : /\ f \notin cursor.seen
                         /\ cursor.st # NoTime => Stamp(f) <= cursor.st
<1>1. cursor.st # NoTime => Trunc(cursor.st) = cursor.st
  BY DEF CursorInv, Remembers
<1>2. answer \in Answers(catalogue, ApplyCursor(cursor, end), call.max)
  BY DEF CursorInv
<1>. QED
  BY <1>1, <1>2, PageWithin DEF TypeOK

\* The cursor remembers what was delivered over every step.
LEMMA CursorInvInductive ==
  ASSUME BoundsHeld, WholeSeconds, TypeOK, CursorInv, [Next]_vars
  PROVE  CursorInv'
<1>1. CASE Ask
  BY <1>1 DEF Ask, CursorInv, link
<1>2. CASE Search
  <2>1. PICK answer \in Answers(catalogue, call.end, call.max) :
          \E features \in Firsts(FilterSeen(answer \ Untranslatable, cursor),
                                 call.limit) :
             page' = PageOf(answer \ Untranslatable, features)
    BY <1>2 DEF Search
  <2>2. PICK F \in Firsts(FilterSeen(answer \ Untranslatable, cursor),
                          call.limit) :
             page' = PageOf(answer \ Untranslatable, F)
    BY <2>1
  <2>3. /\ F \in SUBSET Item
        /\ \A f \in F : /\ f \notin cursor.seen
                        /\ cursor.st # NoTime => Stamp(f) <= cursor.st
    BY <1>2, SearchedPage DEF Search
  <2>4. /\ page'.features = F
        /\ page'.more => F # {} /\ page'.next = NextCursor(F, cursor)
    BY <2>2 DEF PageOf, HasNext
  <2>5. page'.more => Remembers(page'.next, delivered \cup page'.features)
    <3>1. Remembers(cursor, delivered)
      BY <1>2 DEF CursorInv, Search
    <3>. QED
      BY <2>3, <2>4, <3>1, NextRemembers DEF TypeOK
  <2>6. phase' = "answered" /\ UNCHANGED <<cursor, end, delivered, call>>
    BY <1>2 DEF Search, link
  <2>. QED
    BY <1>2, <2>3, <2>4, <2>5, <2>6 DEF CursorInv, Search, Remembers
<1>3. CASE SearchFails
  BY <1>3 DEF SearchFails, CursorInv, link, Remembers
<1>4. CASE Receive
  <2>1. page'.features = {} /\ ~page'.more /\ page' = NoPage
    BY <1>4 DEF Receive, NoPage
  <2>2. phase' # "done" => Remembers(cursor', delivered')
    BY <1>4 DEF Receive, CursorInv
  <2>. QED
    BY <1>4, <2>1, <2>2 DEF Receive, CursorInv
<1>5. CASE Lose
  BY <1>5 DEF Lose, CursorInv, link, NoPage, Remembers
<1>6. ASSUME NEW i \in Item, Ingest(i) \/ Withdraw(i)
      PROVE  CursorInv'
  BY <1>6 DEF Ingest, Withdraw, CursorInv, link, Remembers
<1>7. CASE Finished \/ UNCHANGED vars
  BY <1>7 DEF Finished, vars, CursorInv, Remembers
<1>. QED
  BY <1>1, <1>2, <1>3, <1>4, <1>5, <1>6, <1>7 DEF Next

\* What the cursor remembers its page does not hold.
LEMMA NoneRemembered ==
  ASSUME TypeOK, CursorInv
  PROVE  NoDuplicates
<1>. SUFFICES ASSUME NEW f \in page.features, f \in delivered
              PROVE  FALSE
  BY DEF NoDuplicates
<1>1. phase = "answered"
  BY DEF CursorInv, NoPage
<1>2. /\ cursor.st # NoTime
      /\ cursor.st <= Stamp(f)
      /\ cursor.st = Stamp(f) => f \in cursor.seen
  BY <1>1 DEF CursorInv, Remembers
<1>3. Stamp(f) <= cursor.st /\ f \notin cursor.seen
  BY <1>2 DEF CursorInv
<1>4. cursor.st \in Nat /\ Stamp(f) \in Nat
  BY <1>2, StampNat DEF TypeOK, Cursor, Time
<1>. QED
  BY <1>2, <1>3, <1>4

\* Under WholeSeconds and BoundsHeld no page repeats an item, for every
\* catalogue, limit and interval, and whatever fails or changes on the way.
THEOREM NeverRepeats ==
  ASSUME WholeSeconds, BoundsHeld
  PROVE  Spec => []NoDuplicates
<1>1. Init => CursorInv
  BY DEF Init, CursorInv, Remembers, FirstPage, NoPage
<1>2. TypeOK /\ CursorInv /\ [Next]_vars => CursorInv'
  BY CursorInvInductive
<1>3. TypeOK /\ CursorInv => NoDuplicates
  BY NoneRemembered
<1>. QED
  BY <1>1, <1>2, <1>3, TypeCorrect, PTL DEF Spec

-----------------------------------------------------------------------------
(* Nothing skipped. *)

\* After a search, an item not yet delivered is on the page, or the page has a
\* next link whose cursor still reaches it.
LEMMA SearchReaches ==
  ASSUME Regular, TypeOK, CursorInv, ReachInv, phase = "asked",
         NEW answer \in Answers(catalogue, call.end, call.max),
         NEW F \in Firsts(FilterSeen(answer \ Untranslatable, cursor), call.limit),
         NEW i \in steady \ delivered
  PROVE  \/ i \in F
         \/ /\ HasNext(answer \ Untranslatable, F, call.max, call.limit)
            /\ Trunc(Start[i]) <= NextCursor(F, cursor).st
<1>1. cursor.st # NoTime => Trunc(cursor.st) = cursor.st
  BY DEF CursorInv, Remembers
<1>2. cursor.st # NoTime => Trunc(Start[i]) <= cursor.st
  BY DEF ReachInv, NothingSkipped
<1>3. i \in Matching(catalogue, end)
  BY DEF ReachInv
<1>4. i \in Matching(catalogue, call.end)
  BY <1>1, <1>2, <1>3, CursorReaches DEF CursorInv, TypeOK
<1>5. call.limit \in 1 .. MaxLimit /\ call.max = BackendLimit(call.limit, cursor)
  BY DEF ReachInv
<1>6. cursor \in Cursor /\ ListsOnly(cursor, delivered)
  BY DEF TypeOK, ReachInv
<1>7. catalogue \in SUBSET Item /\ i \in Matching(catalogue, call.end) \ delivered
  BY <1>4 DEF TypeOK
<1>8. /\ answer \in Answers(catalogue, call.end, BackendLimit(call.limit, cursor))
      /\ F \in Firsts(FilterSeen(answer \ Untranslatable, cursor), call.limit)
  BY <1>5
<1>9. \/ i \in F
      \/ /\ HasNext(answer \ Untranslatable, F, BackendLimit(call.limit, cursor), call.limit)
         /\ Trunc(Start[i]) <= NextCursor(F, cursor).st
  BY <1>5, <1>6, <1>7, <1>8, PageReaches, Zenon
<1>. QED
  BY <1>5, <1>9

\* The cursor reaches what is left over every step.
LEMMA ReachInvInductive ==
  ASSUME Regular, TypeOK, CursorInv, ReachInv, [Next]_vars
  PROVE  ReachInv'
<1>1. CASE Ask
  <2>1. call'.limit \in 1 .. MaxLimit /\ call'.max = BackendLimit(call'.limit, cursor)
    BY <1>1, EffectiveLimitType DEF Ask, TypeOK
  <2>2. NothingSkipped'
    BY <1>1 DEF Ask, upstream, link, ReachInv, NothingSkipped
  <2>. QED
    BY <1>1, <2>1, <2>2 DEF Ask, upstream, link, ReachInv, ListsOnly
<1>2. CASE Search
  <2>1. PICK answer \in Answers(catalogue, call.end, call.max) :
          \E features \in Firsts(FilterSeen(answer \ Untranslatable, cursor),
                                 call.limit) :
             page' = PageOf(answer \ Untranslatable, features)
    BY <1>2 DEF Search
  <2>2. PICK F \in Firsts(FilterSeen(answer \ Untranslatable, cursor),
                          call.limit) :
             page' = PageOf(answer \ Untranslatable, F)
    BY <2>1
  <2>3. F \in SUBSET Item
    BY <1>2, SearchedPage DEF Search, Regular
  <2>4. /\ page'.features = F
        /\ page'.more = HasNext(answer \ Untranslatable, F, call.max, call.limit)
        /\ page'.more => F # {} /\ page'.next = NextCursor(F, cursor)
    BY <2>2 DEF PageOf, HasNext
  <2>5. /\ phase' = "answered"
        /\ UNCHANGED <<catalogue, steady, end, limit, cursor, delivered, call>>
    BY <1>2 DEF Search, upstream, link
  <2>6. page'.more => /\ page'.next.st # NoTime
                      /\ ListsOnly(page'.next, delivered \cup page'.features)
    BY <2>3, <2>4, NextLists DEF ReachInv, TypeOK, Regular
  <2>7. Cardinality(F) <= MaxLimit
    <3>1. call.limit \in 1 .. MaxLimit
      BY <1>2 DEF Search, ReachInv
    <3>2. Cardinality(F) <= call.limit
      BY <2>3, <3>1, SubsetsOfItem DEF Firsts
    <3>. QED
      BY <2>3, <3>1, <3>2, SubsetsOfItem, LimitAssumption
  <2>8. NothingSkipped'
    <3>1. ASSUME NEW i \in steady \ delivered
          PROVE  \/ i \in page'.features
                 \/ page'.more /\ Trunc(Start[i]) <= page'.next.st
      BY <1>2, <2>4, SearchReaches DEF Search
    <3>2. \A i \in steady \ delivered :
            cursor.st # NoTime => Trunc(Start[i]) <= cursor.st
      BY DEF ReachInv, NothingSkipped
    <3>. QED
      BY <2>5, <3>1, <3>2 DEF NothingSkipped
  <2>. QED
    BY <2>4, <2>5, <2>6, <2>7, <2>8 DEF ReachInv, ListsOnly
<1>3. CASE SearchFails
  BY <1>3 DEF SearchFails, upstream, link, ReachInv, ListsOnly, NothingSkipped
<1>4. CASE Receive
  <2>1. page'.features = {} /\ ~page'.more
    BY <1>4 DEF Receive, NoPage
  <2>2. /\ UNCHANGED <<catalogue, steady, end>>
        /\ delivered' = delivered \cup page.features
        /\ phase' # "asked" /\ phase' # "answered"
    BY <1>4 DEF Receive, upstream
  <2>3. ListsOnly(cursor', delivered')
    BY <1>4, <2>2 DEF Receive, ReachInv, ListsOnly
  <2>4. NothingSkipped'
    <3>1. ASSUME NEW i \in steady \ delivered'
          PROVE  /\ page.more
                 /\ Trunc(Start[i]) <= page.next.st
      BY <1>4, <2>2 DEF Receive, ReachInv, NothingSkipped
    <3>. QED
      BY <1>4, <2>2, <3>1 DEF Receive, NothingSkipped
  <2>5. Cardinality(page'.features) <= MaxLimit
    BY <2>1, FS_EmptySet, LimitAssumption
  <2>. QED
    BY <2>1, <2>2, <2>3, <2>4, <2>5 DEF ReachInv
<1>5. CASE Lose
  <2>1. page'.features = {} /\ ~page'.more
    BY <1>5 DEF Lose, NoPage
  <2>2. /\ UNCHANGED <<catalogue, steady, end, cursor, delivered>>
        /\ phase' = "ready"
    BY <1>5 DEF Lose, upstream, link
  <2>3. Cardinality(page'.features) <= MaxLimit
    BY <2>1, FS_EmptySet, LimitAssumption
  <2>4. NothingSkipped'
    BY <1>5, <2>2 DEF ReachInv, NothingSkipped
  <2>. QED
    BY <2>1, <2>2, <2>3, <2>4 DEF ReachInv, ListsOnly
<1>6. ASSUME NEW i \in Item, Ingest(i) \/ Withdraw(i)
      PROVE  ReachInv'
  <2>1. UNCHANGED <<end, cursor, delivered, phase, call, page>>
    BY <1>6 DEF Ingest, Withdraw, link
  <2>2. steady' \subseteq steady /\ steady' \subseteq catalogue'
    BY <1>6 DEF Ingest, Withdraw, TypeOK
  <2>3. steady' \subseteq Matching(catalogue', end)
    BY <2>2 DEF Matching, ReachInv
  <2>4. NothingSkipped'
    BY <2>1, <2>2 DEF ReachInv, NothingSkipped
  <2>. QED
    BY <2>1, <2>3, <2>4 DEF ReachInv, ListsOnly
<1>7. CASE Finished \/ UNCHANGED vars
  BY <1>7 DEF Finished, vars, ReachInv, ListsOnly, NothingSkipped
<1>. QED
  BY <1>1, <1>2, <1>3, <1>4, <1>5, <1>6, <1>7 DEF Next

LEMMA ReachInvInit ==
  ASSUME Init
  PROVE  ReachInv
<1>1. steady \subseteq Matching(catalogue, end) /\ cursor = FirstPage /\ page = NoPage
      /\ phase = "ready"
  BY DEF Init
<1>. QED
  BY <1>1, FS_EmptySet, LimitAssumption
  DEF ReachInv, ListsOnly, FirstPage, NoPage, NothingSkipped

\* Under Regular no cursor jumps over an item that was there all along, and a
\* walk that has ended has delivered all of them.
THEOREM NeverSkips ==
  ASSUME Regular
  PROVE  Spec => []NothingSkipped
<1>1. Init => CursorInv /\ ReachInv
  BY ReachInvInit DEF Init, CursorInv, Remembers, FirstPage, NoPage
<1>2. TypeOK /\ CursorInv /\ ReachInv /\ [Next]_vars => CursorInv' /\ ReachInv'
  BY CursorInvInductive, ReachInvInductive DEF Regular
<1>3. ReachInv => NothingSkipped
  BY DEF ReachInv
<1>. QED
  BY <1>1, <1>2, <1>3, TypeCorrect, PTL DEF Spec

-----------------------------------------------------------------------------
(* The walk implements the listing. *)

\* Under Regular the requests, answers, retries and catalogue changes of a walk
\* are, seen from the client, pages of new items, newest second first, up to a
\* true end.
THEOREM ImplementsListing ==
  ASSUME Regular
  PROVE  Spec => ListsInOrder
<1>. USE DEF Regular
<1>. DEFINE When == [i \in Item |-> Trunc(Start[i])]
<1>1. Init => Listed!Init
  BY DEF Init, Listed!Init, Matching, Listable
<1>2. ASSUME TypeOK, CursorInv, ReachInv, [Next]_vars
      PROVE  [Listed!Next]_Listed!vars
  <2>. USE <1>2
  <2>1. CASE Receive
    <3>. DEFINE P == page.features
    <3>1. /\ phase = "answered"
          /\ delivered' = delivered \cup P
          /\ UNCHANGED steady
          /\ page.more => phase' = "ready"
          /\ ~page.more => phase' = "done"
      BY <2>1 DEF Receive, upstream
    <3>2. ~page.more => steady \subseteq delivered \cup P
      BY <3>1 DEF ReachInv, NothingSkipped
    <3>3. CASE P = {}
      <4>1. ~page.more
        BY <3>3 DEF ReachInv
      <4>2. Listed!Close
        BY <3>1, <3>2, <3>3, <4>1 DEF Listed!Close
      <4>. QED
        BY <4>2 DEF Listed!Next
    <3>4. CASE P # {}
      <4>1. P \in SUBSET Item /\ P \cap delivered = {}
        BY NoneRemembered DEF NoDuplicates, TypeOK, Page
      <4>2. ASSUME NEW p \in P, NEW x \in delivered
            PROVE  When[p] <= When[x]
        <5>1. cursor.st # NoTime /\ cursor.st <= Stamp(x) /\ Stamp(p) <= cursor.st
          BY <3>1 DEF CursorInv, Remembers
        <5>2. p \in Item /\ x \in Item
          BY <4>1 DEF TypeOK
        <5>3. cursor.st \in Nat /\ Stamp(p) \in Nat /\ Stamp(x) \in Nat
          BY <5>1, <5>2, StampNat DEF TypeOK, Cursor, Time
        <5>4. When[p] = Stamp(p) /\ When[x] = Stamp(x)
          BY <5>2 DEF WholeSeconds
        <5>. QED
          BY <5>1, <5>3, <5>4
      <4>3. Listed!Cardinality(P) <= MaxLimit
        <5>1. Listed!Cardinality(P) = Cardinality(P)
          BY DEF Listed!Cardinality, Cardinality
        <5>. QED
          BY <5>1 DEF ReachInv
      <4>4. /\ phase # "done"
            /\ (phase' # "done") \in BOOLEAN
            /\ ~ (phase' # "done") => steady \subseteq delivered'
        BY <3>1, <3>2
      <4>5. Listed!Serve(P)
        BY <3>1, <3>4, <4>1, <4>2, <4>3, <4>4 DEF Listed!Serve
      <4>. QED
        BY <4>1, <4>5 DEF Listed!Next
    <3>. QED
      BY <3>3, <3>4
  <2>2. ASSUME NEW i \in Item, Withdraw(i)
        PROVE  Listed!Withdraw
    BY <2>2 DEF Withdraw, Listed!Withdraw, link
  <2>3. CASE Ask \/ Search \/ SearchFails \/ Lose
    BY <2>3 DEF Ask, Search, SearchFails, Lose, upstream, link, Listed!vars
  <2>4. ASSUME NEW i \in Item, Ingest(i)
        PROVE  UNCHANGED Listed!vars
    BY <2>4 DEF Ingest, link, Listed!vars
  <2>5. CASE Finished \/ UNCHANGED vars
    BY <2>5 DEF Finished, vars, Listed!vars
  <2>. QED
    BY <2>1, <2>2, <2>3, <2>4, <2>5 DEF Next, Listed!Next
<1>3. Init => CursorInv /\ ReachInv
  BY ReachInvInit DEF Init, CursorInv, Remembers, FirstPage, NoPage
<1>4. TypeOK /\ CursorInv /\ ReachInv /\ [Next]_vars => CursorInv' /\ ReachInv'
  BY CursorInvInductive, ReachInvInductive
<1>. QED
  BY <1>1, <1>2, <1>3, <1>4, TypeCorrect, PTL DEF Spec, ListsInOrder, Listed!Spec
=============================================================================
