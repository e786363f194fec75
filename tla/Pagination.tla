----------------------------- MODULE Pagination -----------------------------
(***************************************************************************)
(* One client following the next links of GET /collections/{id}/items or   *)
(* of GET|POST /search, while granules enter and leave the upstream        *)
(* catalogue between and during its requests.                              *)
(*                                                                         *)
(* A request passes through Ask (the handler decodes the cursor and fixes  *)
(* the upstream query), then Search or SearchFails (the upstream answers   *)
(* and the handler builds the page), then Receive or Lose (the client gets *)
(* the response, or has to follow the same link again).  The cursor rides  *)
(* in the link, so the service itself keeps no state between requests      *)
(* (PagedService adds the server-side store for large cursors).            *)
(***************************************************************************)
EXTENDS Cursors

CONSTANTS AskedLimits,   \* limit= values a client may start with
          AskedEnds      \* ends of the datetime= interval it may start with

ASSUME AskedAssumption == /\ AskedLimits \subseteq Nat
                          /\ AskedEnds \subseteq Time

VARIABLES
  catalogue,  \* granules the upstream holds for this query, times aside
  steady,     \* history: those that match and were there from the start
  end,        \* the end of the requested interval, carried by every link
  limit,      \* the limit= of the link to follow next
  cursor,     \* the cursor of the link to follow next
  delivered,  \* everything the client has received
  phase,      \* "ready", "asked", "answered" or "done"
  call,       \* what the handler asked of the upstream
  page        \* the response on its way to the client

upstream == <<catalogue, steady>>
link == <<end, limit, cursor>>
vars == <<catalogue, steady, end, limit, cursor, delivered, phase, call, page>>

Call == [limit : 0 .. MaxLimit, max : 0 .. MaxLimit, end : Time]
Page == [features : SUBSET Item, more : BOOLEAN, next : Cursor]
NoCall == [limit |-> 0, max |-> 0, end |-> NoTime]
NoPage == [features |-> {}, more |-> FALSE, next |-> FirstPage]

Listable == Item \ Untranslatable

Init == /\ catalogue \in SUBSET Item
        /\ end \in AskedEnds
        /\ steady = Matching(catalogue, end) \cap Listable
        /\ limit \in AskedLimits
        /\ cursor = FirstPage
        /\ delivered = {}
        /\ phase = "ready"
        /\ call = NoCall
        /\ page = NoPage

-----------------------------------------------------------------------------
(* The handler. *)

\* Items, Search up to the call of backend.Search, with buildBackendParams.
Ask == LET effective == EffectiveLimit(limit)
       IN  /\ phase = "ready"
           /\ call' = [limit |-> effective,
                       max   |-> BackendLimit(effective, cursor),
                       end   |-> ApplyCursor(cursor, end)]
           /\ phase' = "asked"
           /\ UNCHANGED <<upstream, link, delivered, page>>

\* The page made of an upstream answer: filter, trim, next link.
PageOf(items, features) ==
  IF HasNext(items, features, call.max, call.limit)
  THEN [features |-> features, more |-> TRUE,
        next |-> NextCursor(features, cursor)]
  ELSE [features |-> features, more |-> FALSE, next |-> FirstPage]

\* The upstream answers; granules that do not translate are skipped.
Search == /\ phase = "asked"
          /\ \E answer \in Answers(catalogue, call.end, call.max) :
               LET items == answer \ Untranslatable
               IN  \E features \in Firsts(FilterSeen(items, cursor), call.limit) :
                     page' = PageOf(items, features)
          /\ phase' = "answered"
          /\ UNCHANGED <<upstream, link, delivered, call>>

\* Upstream error or timeout: 502, and the client still holds its link.
SearchFails == /\ phase = "asked"
               /\ phase' = "ready"
               /\ call' = NoCall
               /\ UNCHANGED <<upstream, link, delivered, page>>

-----------------------------------------------------------------------------
(* The client and the world. *)

Receive == /\ phase = "answered"
           /\ delivered' = delivered \cup page.features
           /\ IF page.more
              THEN /\ phase' = "ready"
                   /\ cursor' = page.next
                   /\ limit' = call.limit
              ELSE /\ phase' = "done"
                   /\ UNCHANGED <<cursor, limit>>
           /\ call' = NoCall
           /\ page' = NoPage
           /\ UNCHANGED <<upstream, end>>

\* The response is lost; the client follows the same link again.
Lose == /\ phase = "answered"
        /\ phase' = "ready"
        /\ call' = NoCall
        /\ page' = NoPage
        /\ UNCHANGED <<upstream, link, delivered>>

Ingest(i) == /\ i \notin catalogue
             /\ catalogue' = catalogue \cup {i}
             /\ UNCHANGED <<steady, link, delivered, phase, call, page>>

Withdraw(i) == /\ i \in catalogue
               /\ catalogue' = catalogue \ {i}
               /\ steady' = steady \ {i}
               /\ UNCHANGED <<link, delivered, phase, call, page>>

Finished == phase = "done" /\ UNCHANGED vars

Next == \/ Ask \/ Search \/ SearchFails \/ Receive \/ Lose
        \/ \E i \in Item : Ingest(i) \/ Withdraw(i)
        \/ Finished

\* The client keeps asking; an upstream and a network that are tried again and
\* again do not fail every time.
Fairness == WF_vars(Ask) /\ SF_vars(Search) /\ SF_vars(Receive)

Spec == Init /\ [][Next]_vars
FairSpec == Spec /\ Fairness

-----------------------------------------------------------------------------
\* Every variable has its type; the upstream is never asked for more than the
\* configured maximum (handlers.go:215-217).
TypeOK == /\ catalogue \subseteq Item
          /\ steady \subseteq catalogue
          /\ end \in Time
          /\ limit \in Nat
          /\ cursor \in Cursor
          /\ delivered \subseteq Item
          /\ phase \in {"ready", "asked", "answered", "done"}
          /\ call \in Call
          /\ page \in Page

\* No page repeats an item the client has already received, whatever was
\* retried, ingested or withdrawn in between ("SeenIDs will filter
\* duplicates", pagination.go:278).
NoDuplicates == page.features \cap delivered = {}

\* The inductive invariant behind NoDuplicates: the cursor the client holds
\* remembers what it received, the one on its way will too, and the page is
\* what the former let through.
CursorInv ==
  /\ phase # "done" => Remembers(cursor, delivered)
  /\ phase = "asked" => call.end = ApplyCursor(cursor, end)
  /\ phase # "answered" => page = NoPage
  /\ \A f \in page.features :
       /\ f \notin cursor.seen
       /\ cursor.st # NoTime => Stamp(f) <= cursor.st
  /\ page.more => Remembers(page.next, delivered \cup page.features)

\* A granule that was there all along and has not been delivered is still
\* within reach of the link the client holds, and none is left when there is
\* no link: no position of a cursor jumps over an item.
NothingSkipped ==
  \A i \in steady \ delivered :
    /\ phase # "done"
    /\ cursor.st # NoTime => Trunc(Start[i]) <= cursor.st
    /\ phase = "answered" =>
         \/ i \in page.features
         \/ page.more /\ Trunc(Start[i]) <= page.next.st

\* The inductive invariant behind NothingSkipped.
ReachInv ==
  /\ steady \subseteq Matching(catalogue, end)
  /\ ListsOnly(cursor, delivered)
  /\ phase = "asked" => /\ call.limit \in 1 .. MaxLimit
                        /\ call.max = BackendLimit(call.limit, cursor)
  /\ page.more => /\ page.features # {}
                  /\ page.next.st # NoTime
                  /\ ListsOnly(page.next, delivered \cup page.features)
  /\ Cardinality(page.features) <= MaxLimit
  /\ NothingSkipped

\* The walk is a listing as a client understands one: pages of new items, each
\* no newer than the pages before, and an end that is the end.
Listed == INSTANCE Listing WITH When <- [i \in Item |-> Trunc(Start[i])],
                                MaxPage <- MaxLimit,
                                open <- (phase # "done")
ListsInOrder == Listed!Spec

\* Every walk comes to an end: pages are not served round and round.
WalkEnds == <>(phase = "done")
=============================================================================
