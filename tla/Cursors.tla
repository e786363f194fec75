------------------------------ MODULE Cursors ------------------------------
(***************************************************************************)
(* The pure part of a cursor-paged search: what the upstream catalogue     *)
(* answers, which of its granules are left of a page, and the cursor that  *)
(* the next link of the page carries                                       *)
(* (internal/stac/pagination.go, the two search handlers of                *)
(* internal/api/handlers.go, and the parameter mapping of the backends).   *)
(*                                                                         *)
(* A page is a set.  The upstream's order decides which granules are on it *)
(* (ties are cut arbitrarily) and nothing else reads the order.            *)
(***************************************************************************)
EXTENDS Integers, FiniteSets, FiniteSetsExt

CONSTANTS
  Item,            \* the granules that can exist
  Start,           \* [Item -> Nat]: acquisition start, in ticks
  OtherKey,        \* [Item -> Nat]: the value of some other sortable field
  TicksPerSecond,  \* resolution of Start; a cursor keeps whole seconds only
  Backend,         \* "asf" or "cmr"
  SortKey,         \* "start" (also when no sortby is given) or "other"
  Descending,      \* the direction asked for; only CMR takes one
  ByIds,           \* the query names its granules (ids=...)
  EndInclusive,    \* the upstream reads "end" as start <= end
  Untranslatable,  \* granules the backend fails to turn into a STAC item
  DefaultLimit, MaxLimit

ASSUME ItemAssumption ==
  /\ IsFiniteSet(Item)
  /\ Start \in [Item -> Nat]
  /\ OtherKey \in [Item -> Nat]
  /\ Untranslatable \subseteq Item

ASSUME QueryAssumption ==
  /\ TicksPerSecond \in Nat \ {0}
  /\ Backend \in {"asf", "cmr"}
  /\ SortKey \in {"start", "other"}
  /\ {Descending, ByIds, EndInclusive} \subseteq BOOLEAN

\* Both limits are positive (config.Validate; the defaults of pkg/server).
ASSUME LimitAssumption == {DefaultLimit, MaxLimit} \subseteq Nat \ {0}

-----------------------------------------------------------------------------
(* Times. *)

NoTime == -1                       \* a nil *time.Time, an absent cursor
Time == Nat \cup {NoTime}

\* time.Format(RFC3339) and the upstream time formats drop the fraction.
Trunc(t) == t - (t % TicksPerSecond)

\* The start_datetime extractItemTimeInfos reads off an item: an ASF item
\* keeps the parsed time, a CMR item was formatted to a whole second.
Stamp(i) == IF Backend = "asf" THEN Start[i] ELSE Trunc(Start[i])

-----------------------------------------------------------------------------
(* Cursors.  seen is the SeenIDs list; the order of the list is immaterial.  *)

Cursor == [st : Time, seen : SUBSET Item]
FirstPage == [st |-> NoTime, seen |-> {}]

\* Mutants: no second is added to the cursor's; the later of the two ends.
ApplyCursorExclusive(cursor, end) ==
  IF cursor.st = NoTime \/ (end # NoTime /\ end <= cursor.st) THEN end ELSE cursor.st
ApplyCursorLater(cursor, end) ==
  IF cursor.st = NoTime THEN end ELSE Max({end, cursor.st + TicksPerSecond})

\* ApplyCursorToDatetime: up to and including the cursor's second, unless the
\* request itself ends earlier.
ApplyCursor(cursor, end) ==
  LET bound == cursor.st + TicksPerSecond
  IN  IF cursor.st = NoTime \/ (end # NoTime /\ end <= bound)
      THEN end ELSE bound

\* Items, Search: 0 is "not given", and the maximum caps the default too.
EffectiveLimit(asked) == Min({MaxLimit, IF asked = 0 THEN DefaultLimit ELSE asked})

\* Mutants: no cap on the over-fetch; no over-fetch.
BackendLimitUncapped(limit, cursor) == limit + Cardinality(cursor.seen)
BackendLimitPlain(limit, cursor) == limit

\* Items, Search: over-fetch by the number of items that will be filtered out.
BackendLimit(limit, cursor) ==
  LET wanted == limit + Cardinality(cursor.seen)
  IN  IF cursor.seen # {} /\ wanted > MaxLimit THEN MaxLimit ELSE wanted

-----------------------------------------------------------------------------
(* The upstream catalogue: external, as the backends use it. *)

\* The order of the upstream's answer: greatest rank first.  ASF sorts
\* descending whatever the direction asked for.
Rank(i) ==
  LET key == IF SortKey = "start" THEN Start[i] ELSE OtherKey[i]
  IN  IF Backend = "cmr" /\ ~Descending THEN -key ELSE key

Before(t, end) == \/ end = NoTime
                  \/ t < Trunc(end)
                  \/ EndInclusive /\ t = Trunc(end)

\* asf.toASFParams returns early for a list of ids: neither the end nor the
\* maximum reaches ASF.  CMR combines ids with both.
IgnoresBounds == ByIds /\ Backend = "asf"

Matching(catalogue, end) ==
  {i \in catalogue : IgnoresBounds \/ Before(Start[i], end)}

\* The first max elements of S in the upstream's order, ties cut anywhere.
Firsts(S, max) ==
  {P \in SUBSET S :
     /\ \/ Cardinality(P) = max
        \/ Cardinality(P) < max /\ P = S
     /\ \A p \in P, q \in S \ P : Rank(p) >= Rank(q)}

Answers(catalogue, end, max) ==
  LET S == Matching(catalogue, end)
  IN  IF IgnoresBounds THEN {S} ELSE Firsts(S, max)

-----------------------------------------------------------------------------
(* What the handler makes of an answer. *)

\* Mutant: nothing is filtered.
FilterNothing(items, cursor) == items

\* FilterSeenItems
FilterSeen(items, cursor) == items \ cursor.seen

\* BuildCursorPaginationLinks: the boundary items of the page, and those of the
\* previous cursor when it stands at the very same time.
Oldest(features) == Min({Stamp(i) : i \in features})

\* Mutant: the previous cursor's list is not accumulated.
SeenAtBoundary(features, cursor) == {i \in features : Stamp(i) = Oldest(features)}

SeenAt(features, cursor) ==
  LET boundary == {i \in features : Stamp(i) = Oldest(features)}
  IN  IF cursor.st = Oldest(features) THEN cursor.seen \cup boundary
                                      ELSE boundary

\* Mutant: a cursor that lists nothing.
NextCursorBare(features, cursor) == [st |-> Trunc(Oldest(features)), seen |-> {}]

NextCursor(features, cursor) ==
  [st |-> Trunc(Oldest(features)), seen |-> SeenAt(features, cursor)]

\* The next link exists when the upstream page or the served page was full,
\* and something was served.
HasNext(items, features, max, limit) ==
  /\ features # {}
  /\ Cardinality(items) >= max \/ Cardinality(features) >= limit

-----------------------------------------------------------------------------
(* What a cursor knows of a walk, and what that takes. *)

\* Start times the cursor can hold (whole seconds), and an upstream that reads
\* the end as the comment of ApplyCursorToDatetime says (exclusive) and is sent
\* it (no ids on ASF): no repeats without these.
WholeSeconds == \A i \in Item : Stamp(i) = Trunc(Start[i])
BoundsHeld == ~EndInclusive /\ ~IgnoresBounds

\* Cursor c knows all there is to know of the items D: none is older than the
\* cursor's second, and those of that second are in its list.
Remembers(c, D) ==
  IF c.st = NoTime THEN D = {}
  ELSE /\ Trunc(c.st) = c.st
       /\ \A x \in D : /\ c.st <= Stamp(x)
                       /\ c.st = Stamp(x) => x \in c.seen

\* An upstream page in the order of start times, every granule of which
\* translates, and fewer granules in any one second than the configured
\* maximum: without these something may be skipped.
NewestFirst == \A i \in Item : Rank(i) = Start[i]
AllTranslate == Untranslatable = {}
Uncrowded == \A i \in Item :
  Cardinality({j \in Item : Trunc(Start[j]) = Trunc(Start[i])}) < MaxLimit

Regular == WholeSeconds /\ BoundsHeld /\ NewestFirst /\ AllTranslate /\ Uncrowded

\* Cursor c lists only items of its own second that are among D.
ListsOnly(c, D) ==
  /\ c.seen \subseteq D
  /\ c.st = NoTime => c.seen = {}
  /\ \A x \in c.seen : Trunc(Start[x]) = c.st
=============================================================================
