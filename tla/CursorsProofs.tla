--------------------------- MODULE CursorsProofs ---------------------------
(* Facts about the operators of Cursors, for any catalogue and any limits. *)
EXTENDS Cursors, FiniteSetTheorems, WellFoundedInduction, TLAPS

\* Every nonempty set of naturals has a least element, so Min is one.
LEMMA MinNat ==
  ASSUME NEW T \in SUBSET Nat, T # {}
  PROVE  /\ Min(T) \in T
         /\ \A t \in T : Min(T) <= t
<1>1. PICK m \in T : \A t \in T : ~ (<<t, m>> \in OpToRel(<, Nat))
  BY NatLessThanWellFounded, WFMin
<1>2. ASSUME NEW t \in T
      PROVE  ~ (t < m)
  <2>1. <<t, m>> \in Nat \X Nat
    OBVIOUS
  <2>2. t < m => <<t, m>> \in OpToRel(<, Nat)
    BY <2>1, Zenon DEF OpToRel
  <2>. QED
    BY <1>1, <2>2
<1>3. \A t \in T : m <= t
  BY <1>2
<1>. QED
  BY <1>3 DEF Min

\* A truncated instant is a whole number of seconds.
LEMMA TruncWhole ==
  ASSUME NEW t \in Nat
  PROVE  \E q \in Nat : Trunc(t) = TicksPerSecond * q
<1>1. t \div TicksPerSecond \in Nat
  BY QueryAssumption
<1>2. t % TicksPerSecond = t - TicksPerSecond * (t \div TicksPerSecond)
  BY QueryAssumption
<1>3. Trunc(t) = TicksPerSecond * (t \div TicksPerSecond)
  BY <1>1, <1>2, QueryAssumption DEF Trunc
<1>. QED
  BY <1>1, <1>3

LEMMA TruncNat ==
  ASSUME NEW t \in Nat
  PROVE  /\ Trunc(t) \in Nat
         /\ Trunc(t) <= t
         /\ t < Trunc(t) + TicksPerSecond
<1>1. t % TicksPerSecond \in 0 .. (TicksPerSecond - 1)
  BY QueryAssumption
<1>2. t % TicksPerSecond <= t
  BY QueryAssumption
<1>. QED
  BY <1>1, <1>2, QueryAssumption DEF Trunc

\* Multiples of n that are less than n apart are in order.
LEMMA MultiplesApart ==
  ASSUME NEW n \in Nat \ {0}, NEW p \in Nat, NEW q \in Nat,
         n * p < n * q + n
  PROVE  n * p <= n * q
<1>1. CASE p <= q
  BY <1>1
<1>2. CASE p >= q + 1
  <2>1. n * p >= n * (q + 1)
    BY <1>2
  <2>. QED
    BY <2>1
<1>. QED
  BY <1>1, <1>2

\* Whatever starts before the second after a cursor's second starts, to the
\* second, no later than the cursor.
LEMMA TruncBefore ==
  ASSUME NEW s \in Nat, NEW t \in Nat, s < Trunc(t) + TicksPerSecond
  PROVE  Trunc(s) <= Trunc(t)
<1>1. PICK p \in Nat : Trunc(s) = TicksPerSecond * p
  BY TruncWhole
<1>2. PICK q \in Nat : Trunc(t) = TicksPerSecond * q
  BY TruncWhole
<1>3. TicksPerSecond * p < TicksPerSecond * q + TicksPerSecond
  BY <1>1, <1>2, TruncNat, QueryAssumption
<1>. QED
  BY <1>1, <1>2, <1>3, MultiplesApart, QueryAssumption

\* Two instants keep their order when the fraction is dropped.
LEMMA TruncMonotone ==
  ASSUME NEW s \in Nat, NEW t \in Nat, s <= t
  PROVE  Trunc(s) <= Trunc(t)
BY TruncBefore, TruncNat, QueryAssumption

LEMMA TruncIdempotent ==
  ASSUME NEW t \in Nat
  PROVE  Trunc(Trunc(t)) = Trunc(t)
<1>. DEFINE u == Trunc(t)
<1>1. u \in Nat
  BY TruncNat
<1>2. Trunc(u) \in Nat /\ Trunc(u) <= u /\ u < Trunc(u) + TicksPerSecond
  BY <1>1, TruncNat
<1>3. Trunc(t) <= Trunc(u)
  <2>1. PICK p \in Nat : Trunc(t) = TicksPerSecond * p
    BY TruncWhole
  <2>2. PICK q \in Nat : Trunc(u) = TicksPerSecond * q
    BY TruncWhole, <1>1
  <2>. QED
    BY <1>2, <2>1, <2>2, MultiplesApart, QueryAssumption
<1>. QED
  BY <1>1, <1>2, <1>3

\* The second after a whole second is one.
LEMMA TruncNext ==
  ASSUME NEW t \in Nat, Trunc(t) = t
  PROVE  Trunc(t + TicksPerSecond) = t + TicksPerSecond
<1>. DEFINE u == t + TicksPerSecond
<1>1. u \in Nat
  BY QueryAssumption
<1>2. Trunc(u) \in Nat /\ Trunc(u) <= u /\ u < Trunc(u) + TicksPerSecond
  BY <1>1, TruncNat
<1>3. PICK p \in Nat : Trunc(t) = TicksPerSecond * p
  BY TruncWhole
<1>4. PICK q \in Nat : Trunc(u) = TicksPerSecond * q
  BY TruncWhole, <1>1
<1>5. u = TicksPerSecond * (p + 1)
  BY <1>3, QueryAssumption
<1>6. TicksPerSecond * (p + 1) <= TicksPerSecond * q
  BY <1>2, <1>4, <1>5, MultiplesApart, QueryAssumption
<1>. QED
  BY <1>1, <1>2, <1>4, <1>5, <1>6, QueryAssumption

-----------------------------------------------------------------------------
(* Items, pages and cursors. *)

LEMMA StampNat ==
  ASSUME NEW i \in Item
  PROVE  Start[i] \in Nat /\ Stamp(i) \in Nat
BY ItemAssumption, TruncNat DEF Stamp

LEMMA OldestOfPage ==
  ASSUME NEW F \in SUBSET Item, F # {}
  PROVE  /\ Oldest(F) \in Nat
         /\ \E i \in F : Stamp(i) = Oldest(F)
         /\ \A i \in F : Oldest(F) <= Stamp(i)
<1>. DEFINE T == {Stamp(i) : i \in F}
<1>1. T \in SUBSET Nat /\ T # {}
  BY StampNat
<1>2. Min(T) \in T /\ \A t \in T : Min(T) <= t
  BY <1>1, MinNat
<1>3. Oldest(F) = Min(T)
  BY DEF Oldest
<1>. QED
  BY <1>1, <1>2, <1>3

LEMMA NextCursorType ==
  ASSUME NEW F \in SUBSET Item, F # {}, NEW c \in Cursor
  PROVE  NextCursor(F, c) \in Cursor
<1>1. Trunc(Oldest(F)) \in Nat
  BY OldestOfPage, TruncNat
<1>2. SeenAt(F, c) \in SUBSET Item
  BY DEF SeenAt, Cursor
<1>. QED
  BY <1>1, <1>2 DEF NextCursor, Cursor, Time

LEMMA SubsetsOfItem ==
  ASSUME NEW S \in SUBSET Item
  PROVE  IsFiniteSet(S) /\ Cardinality(S) \in Nat
BY ItemAssumption, FS_Subset, FS_CardinalityType

LEMMA EffectiveLimitType ==
  ASSUME NEW n \in Nat
  PROVE  EffectiveLimit(n) \in 1 .. MaxLimit
<1>. DEFINE T == {MaxLimit, IF n = 0 THEN DefaultLimit ELSE n}
<1>1. T \in SUBSET Nat /\ T # {} /\ \A t \in T : t >= 1
  BY LimitAssumption
<1>2. Min(T) \in T /\ Min(T) <= MaxLimit
  BY <1>1, MinNat
<1>3. EffectiveLimit(n) = Min(T)
  BY DEF EffectiveLimit
<1>. QED
  BY <1>1, <1>2, <1>3

LEMMA BackendLimitType ==
  ASSUME NEW n \in 1 .. MaxLimit, NEW c \in Cursor
  PROVE  BackendLimit(n, c) \in 1 .. MaxLimit
<1>1. Cardinality(c.seen) \in Nat /\ (c.seen = {} => Cardinality(c.seen) = 0)
  BY SubsetsOfItem, FS_EmptySet DEF Cursor
<1>. QED
  BY <1>1, LimitAssumption DEF BackendLimit

LEMMA ApplyCursorType ==
  ASSUME NEW c \in Cursor, NEW e \in Time
  PROVE  ApplyCursor(c, e) \in Time
BY QueryAssumption DEF ApplyCursor, Cursor, Time, NoTime

\* An upstream that excludes the end it is given returns nothing of a later
\* second than the cursor's.
LEMMA CursorBounds ==
  ASSUME ~EndInclusive, ~IgnoresBounds,
         NEW c \in Cursor, c.st # NoTime, Trunc(c.st) = c.st,
         NEW e \in Time,
         NEW S \in SUBSET Item, NEW i \in Matching(S, ApplyCursor(c, e))
  PROVE  Trunc(Start[i]) <= c.st
<1>. DEFINE u == ApplyCursor(c, e)
<1>1. c.st \in Nat /\ i \in Item /\ Start[i] \in Nat
  BY StampNat DEF Cursor, Time, Matching
<1>2. u \in Nat /\ u <= c.st + TicksPerSecond
  BY <1>1, QueryAssumption DEF ApplyCursor, Time, NoTime
<1>3. Start[i] < Trunc(u)
  BY <1>2 DEF Matching, Before, NoTime
<1>4. Trunc(u) \in Nat /\ Trunc(u) <= u
  BY <1>2, TruncNat
<1>5. Start[i] < Trunc(c.st) + TicksPerSecond
  BY <1>1, <1>2, <1>3, <1>4, QueryAssumption
<1>. QED
  BY <1>1, <1>5, TruncBefore

\* Nor does it leave out what the cursor still has to reach.
LEMMA CursorReaches ==
  ASSUME NEW c \in Cursor, c.st # NoTime => Trunc(c.st) = c.st,
         NEW e \in Time,
         NEW S \in SUBSET Item, NEW i \in Matching(S, e),
         c.st # NoTime => Trunc(Start[i]) <= c.st
  PROVE  i \in Matching(S, ApplyCursor(c, e))
<1>. DEFINE u == ApplyCursor(c, e)
<1>1. i \in Item /\ Start[i] \in Nat /\ i \in S
  BY StampNat DEF Matching
<1>2. CASE u = e
  BY <1>2 DEF Matching
<1>3. CASE u # e
  <2>1. c.st # NoTime /\ u = c.st + TicksPerSecond
    BY <1>3 DEF ApplyCursor
  <2>2. c.st \in Nat
    BY <2>1 DEF Cursor, Time
  <2>3. Trunc(u) = u
    BY <2>1, <2>2, TruncNext
  <2>4. Start[i] < u
    BY <1>1, <2>1, <2>2, TruncNat, QueryAssumption
  <2>. QED
    BY <1>1, <2>3, <2>4 DEF Matching, Before
<1>. QED
  BY <1>2, <1>3

\* The over-fetched upstream page is larger than the cursor's list as long as
\* that list is shorter than the maximum.
LEMMA OverFetches ==
  ASSUME NEW n \in 1 .. MaxLimit, NEW c \in Cursor,
         Cardinality(c.seen) < MaxLimit
  PROVE  BackendLimit(n, c) > Cardinality(c.seen)
<1>1. Cardinality(c.seen) \in Nat
  BY SubsetsOfItem DEF Cursor
<1>. QED
  BY <1>1, LimitAssumption DEF BackendLimit

-----------------------------------------------------------------------------
(* What the next cursor remembers and lists. *)

\* The cursor made of a page remembers the page and, when it has not moved on
\* from the previous cursor's second, what that one remembered.
LEMMA NextRemembers ==
  ASSUME WholeSeconds,
         NEW c \in Cursor, NEW D \in SUBSET Item, Remembers(c, D),
         NEW F \in SUBSET Item, F # {},
         \A f \in F : c.st # NoTime => Stamp(f) <= c.st
  PROVE  Remembers(NextCursor(F, c), D \cup F)
<1>. DEFINE m == Oldest(F)
            n == NextCursor(F, c)
<1>1. m \in Nat /\ \A i \in F : m <= Stamp(i)
  BY OldestOfPage
<1>2. PICK i \in F : Stamp(i) = m
  BY OldestOfPage
<1>3. Trunc(m) = m
  BY <1>2, StampNat, TruncIdempotent DEF WholeSeconds
<1>4. n.st = m /\ n.seen = SeenAt(F, c)
  BY <1>3 DEF NextCursor
<1>5. n.st # NoTime
  BY <1>1, <1>4 DEF NoTime
<1>6. ASSUME NEW x \in F
      PROVE  m <= Stamp(x) /\ (m = Stamp(x) => x \in n.seen)
  BY <1>1, <1>4 DEF SeenAt
<1>7. ASSUME NEW x \in D
      PROVE  m <= Stamp(x) /\ (m = Stamp(x) => x \in n.seen)
  <2>1. /\ c.st # NoTime
        /\ c.st <= Stamp(x)
        /\ c.st = Stamp(x) => x \in c.seen
    BY DEF Remembers
  <2>2. c.st \in Nat /\ m <= c.st /\ Stamp(x) \in Nat
    BY <1>2, <2>1, StampNat DEF Cursor, Time
  <2>3. m <= Stamp(x)
    BY <1>1, <2>1, <2>2
  <2>4. m = Stamp(x) => c.st = m /\ x \in c.seen
    BY <1>1, <2>1, <2>2
  <2>. QED
    BY <1>4, <2>3, <2>4 DEF SeenAt
<1>. QED
  BY <1>3, <1>4, <1>5, <1>6, <1>7 DEF Remembers

\* A cursor's list fits under the maximum when no second is too crowded.
LEMMA ShortList ==
  ASSUME Uncrowded, NEW c \in Cursor, NEW D, ListsOnly(c, D)
  PROVE  Cardinality(c.seen) < MaxLimit
<1>1. c.seen \in SUBSET Item
  BY DEF Cursor
<1>2. CASE c.seen = {}
  BY <1>2, FS_EmptySet, LimitAssumption
<1>3. CASE c.seen # {}
  <2>1. PICK x \in c.seen : TRUE
    BY <1>3
  <2>. DEFINE S == {j \in Item : Trunc(Start[j]) = Trunc(Start[x])}
  <2>2. c.seen \subseteq S
    BY <1>1, <2>1 DEF ListsOnly
  <2>3. Cardinality(S) < MaxLimit
    BY <1>1, <2>1 DEF Uncrowded
  <2>4. IsFiniteSet(S) /\ Cardinality(S) \in Nat
    BY SubsetsOfItem
  <2>5. Cardinality(c.seen) <= Cardinality(S)
    BY <2>2, <2>4, FS_Subset
  <2>. QED
    BY <1>1, <2>3, <2>4, <2>5, SubsetsOfItem, LimitAssumption
<1>. QED
  BY <1>2, <1>3

\* The next cursor lists only what was delivered or is on the page.
LEMMA NextLists ==
  ASSUME WholeSeconds,
         NEW c \in Cursor, NEW D \in SUBSET Item, ListsOnly(c, D),
         NEW F \in SUBSET Item, F # {}
  PROVE  /\ NextCursor(F, c).st # NoTime
         /\ ListsOnly(NextCursor(F, c), D \cup F)
<1>. DEFINE m == Oldest(F)
            n == NextCursor(F, c)
<1>1. m \in Nat
  BY OldestOfPage
<1>2. PICK i \in F : Stamp(i) = m
  BY OldestOfPage
<1>3. n.st = m /\ n.seen = SeenAt(F, c)
  BY <1>2, StampNat, TruncIdempotent DEF NextCursor, WholeSeconds
<1>4. n.st # NoTime
  BY <1>1, <1>3 DEF NoTime
<1>5. n.seen \subseteq D \cup F
  BY <1>3 DEF SeenAt, ListsOnly
<1>6. \A x \in n.seen : Trunc(Start[x]) = m
  BY <1>3 DEF SeenAt, ListsOnly, WholeSeconds
<1>. QED
  BY <1>3, <1>4, <1>5, <1>6 DEF ListsOnly

-----------------------------------------------------------------------------
(* What a search leaves on a page. *)

\* Nothing the cursor lists, nothing of a second later than the cursor's.
LEMMA PageWithin ==
  ASSUME BoundsHeld, WholeSeconds,
         NEW c \in Cursor, c.st # NoTime => Trunc(c.st) = c.st,
         NEW e \in Time, NEW max, NEW n,
         NEW S \in SUBSET Item,
         NEW answer \in Answers(S, ApplyCursor(c, e), max),
         NEW F \in Firsts(FilterSeen(answer \ Untranslatable, c), n)
  PROVE  /\ F \in SUBSET Item
         /\ \A f \in F : /\ f \notin c.seen
                         /\ c.st # NoTime => Stamp(f) <= c.st
<1>1. answer \subseteq Matching(S, ApplyCursor(c, e))
  BY DEF Answers, Firsts
<1>2. F \subseteq answer /\ F \cap c.seen = {}
  BY DEF Firsts, FilterSeen
<1>3. F \subseteq Item
  BY <1>1, <1>2 DEF Matching
<1>4. ASSUME NEW f \in F, c.st # NoTime
      PROVE  Stamp(f) <= c.st
  <2>1. f \in Matching(S, ApplyCursor(c, e))
    BY <1>1, <1>2
  <2>2. Trunc(Start[f]) <= c.st
    BY <1>4, <2>1, CursorBounds DEF BoundsHeld
  <2>. QED
    BY <1>3, <2>2 DEF WholeSeconds
<1>. QED
  BY <1>2, <1>3, <1>4

\* The heart of the matter: an item that matches the query and is not among
\* those delivered is on the page, or the page has a next link whose cursor
\* still reaches it.
LEMMA PageReaches ==
  ASSUME Regular,
         NEW c \in Cursor, NEW D, ListsOnly(c, D),
         NEW n \in 1 .. MaxLimit,
         NEW C \in SUBSET Item, NEW e,
         NEW answer \in Answers(C, e, BackendLimit(n, c)),
         NEW F \in Firsts(FilterSeen(answer \ Untranslatable, c), n),
         NEW i \in Matching(C, e) \ D
  PROVE  \/ i \in F
         \/ /\ HasNext(answer \ Untranslatable, F, BackendLimit(n, c), n)
            /\ Trunc(Start[i]) <= NextCursor(F, c).st
<1>. USE DEF Regular
<1>1. answer \ Untranslatable = answer
  BY DEF AllTranslate
<1>. DEFINE S == Matching(C, e)
            fresh == FilterSeen(answer, c)
<1>2. answer \in Firsts(S, BackendLimit(n, c))
  BY DEF Answers, BoundsHeld
<1>3. F \in Firsts(fresh, n)
  BY <1>1
<1>4. i \in S
  OBVIOUS
<1>5. i \in Item /\ answer \subseteq Item /\ fresh \subseteq answer /\ F \subseteq fresh
  BY <1>2, <1>3, <1>4 DEF Firsts, FilterSeen, Matching
<1>6. IsFiniteSet(answer) /\ Cardinality(answer) \in Nat
      /\ IsFiniteSet(F) /\ Cardinality(F) \in Nat
  BY <1>5, SubsetsOfItem
\* If the page is cut before i, there is a page and the cut is no earlier than i.
<1>7. ASSUME F # {}, \A f \in F : Start[i] <= Start[f]
      PROVE  Trunc(Start[i]) <= NextCursor(F, c).st
  <2>1. PICK f \in F : Stamp(f) = Oldest(F)
    BY <1>5, <1>7, OldestOfPage
  <2>2. f \in Item /\ Oldest(F) = Trunc(Start[f])
    BY <1>5, <2>1 DEF WholeSeconds
  <2>3. NextCursor(F, c).st = Trunc(Start[f])
    BY <2>2, StampNat, TruncIdempotent DEF NextCursor
  <2>. QED
    BY <1>5, <1>7, <2>2, <2>3, StampNat, TruncMonotone
<1>8. CASE i \notin answer
  <2>1. Cardinality(answer) = BackendLimit(n, c) /\ \A p \in answer : Start[i] <= Start[p]
    <3>1. Cardinality(answer) = BackendLimit(n, c)
      BY <1>2, <1>4, <1>8 DEF Firsts
    <3>2. \A p \in answer : Rank(p) >= Rank(i)
      BY <1>2, <1>4, <1>8 DEF Firsts
    <3>. QED
      BY <1>5, <3>1, <3>2, StampNat DEF NewestFirst
  <2>2. Cardinality(c.seen) < MaxLimit
    BY ShortList
  <2>3. Cardinality(answer) > Cardinality(c.seen)
    BY <2>1, <2>2, OverFetches
  <2>4. fresh # {}
    <3>1. SUFFICES ASSUME answer \subseteq c.seen
                   PROVE  FALSE
      BY DEF FilterSeen
    <3>2. IsFiniteSet(c.seen) /\ Cardinality(c.seen) \in Nat
      BY SubsetsOfItem DEF Cursor
    <3>3. Cardinality(answer) <= Cardinality(c.seen)
      BY <3>1, <3>2, FS_Subset
    <3>. QED
      BY <1>6, <2>3, <3>2, <3>3
  <2>5. F # {}
    BY <1>3, <2>4, FS_EmptySet DEF Firsts
  <2>6. HasNext(answer, F, BackendLimit(n, c), n)
    BY <1>6, <2>1, <2>5, BackendLimitType DEF HasNext
  <2>. QED
    BY <1>1, <1>5, <1>7, <2>1, <2>5, <2>6
<1>9. CASE i \in answer /\ i \notin F
  <2>1. i \in fresh
    BY <1>9 DEF FilterSeen, ListsOnly
  <2>2. Cardinality(F) = n
    BY <1>3, <1>9, <2>1 DEF Firsts
  <2>3. F # {}
    BY <2>2, FS_EmptySet
  <2>4. \A f \in F : Start[i] <= Start[f]
    <3>1. \A f \in F : Rank(f) >= Rank(i)
      BY <1>3, <1>9, <2>1 DEF Firsts
    <3>. QED
      BY <1>5, <3>1, StampNat DEF NewestFirst
  <2>5. HasNext(answer, F, BackendLimit(n, c), n)
    BY <2>2, <2>3 DEF HasNext
  <2>. QED
    BY <1>1, <1>7, <2>3, <2>4, <2>5
<1>. QED
  BY <1>8, <1>9
=============================================================================
