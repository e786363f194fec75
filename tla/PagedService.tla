---------------------------- MODULE PagedService ----------------------------
(***************************************************************************)
(* The two search handlers together with the cursor store: several clients *)
(* walk the same catalogue, cursors too large for a URL live in the store, *)
(* time passes, the store is cleaned and the process restarts.             *)
(*                                                                         *)
(* A handler reads the cursor of its link twice: Items and Search decode   *)
(* it to filter the page (a failure there is a 400), buildBackendParams    *)
(* decodes it again to bound the upstream query (a failure there is        *)
(* ignored).  For a "ref:" link each is a separate Retrieve, so the two    *)
(* are separate actions here.                                              *)
(***************************************************************************)
EXTENDS Cursors

CONSTANTS Client, AskedLimits,
          Token, TTL, Interval, Absent,  \* the store
          NoToken,                       \* the token of a link that holds its cursor
          InlineMax                      \* most items listed in MaxInlineCursorSize bytes

VARIABLES
  cursors, issued, untilTick, ticked, stopped, loop,  \* the store
  phase,      \* per client: "ready", "decoded", "asked", "answered", "done", "refused"
  limit,      \* the limit= of the client's link
  link,       \* the link the client holds: a token, or the cursor itself
  current,    \* the handler's currentCursor
  call,       \* what the handler asked of the upstream
  page,       \* the response on its way
  delivered,  \* what the client has received
  meant,      \* history: the cursor the client's link was made from
  slipped     \* history: clients a handler of which lost its upper bound

store == <<cursors, issued, untilTick, ticked, stopped, loop>>
handler == <<current, call, page>>
client == <<limit, link, delivered, meant>>
vars == <<cursors, issued, untilTick, ticked, stopped, loop, phase, limit,
          link, current, call, page, delivered, meant, slipped>>

\* No handler calls Delete.
Store == INSTANCE CursorStore WITH deleted <- {}

\* Store!StoreAssumption, restated where TLC evaluates it, and the handlers' own.
ASSUME ServiceAssumption == /\ {TTL, Interval} \subseteq Nat \ {0}
                            /\ Absent \notin Store!Entry \cup Cursor
                            /\ AskedLimits \subseteq Nat
                            /\ NoToken \notin Token
                            /\ InlineMax \in Nat

Link == [token : Token \cup {NoToken}, cursor : Cursor]
Inline(c) == [token |-> NoToken, cursor |-> c]
Ref(t) == [token |-> t, cursor |-> FirstPage]

NoCall == [limit |-> 0, max |-> 0, end |-> NoTime]
NoPage == [features |-> {}, more |-> FALSE, link |-> Inline(FirstPage),
           next |-> FirstPage]

Init == /\ Store!Init
        /\ phase = [k \in Client |-> "ready"]
        /\ limit \in [Client -> AskedLimits]
        /\ link = [k \in Client |-> Inline(FirstPage)]
        /\ current = [k \in Client |-> FirstPage]
        /\ call = [k \in Client |-> NoCall]
        /\ page = [k \in Client |-> NoPage]
        /\ delivered = [k \in Client |-> {}]
        /\ meant = [k \in Client |-> FirstPage]
        /\ slipped = {}

-----------------------------------------------------------------------------
(* A request. *)

\* DecodeCursorWithStore
Resolves(l) == l.token = NoToken \/ Store!Retrieve(l.token) = "ok"
Decoded(l) == IF l.token = NoToken THEN l.cursor ELSE cursors[l.token].cursor

\* Mutant: a cursor that is gone is answered as a failure worth retrying.
DecodeRetried(k) == /\ phase[k] = "ready"
                    /\ IF Resolves(link[k])
                       THEN /\ phase' = [phase EXCEPT ![k] = "decoded"]
                            /\ current' = [current EXCEPT ![k] = Decoded(link[k])]
                       ELSE UNCHANGED <<phase, current>>
                    /\ UNCHANGED <<store, client, call, page, slipped>>

\* Items, Search: the first decoding, and the 400 when it fails.
Decode(k) == /\ phase[k] = "ready"
             /\ IF Resolves(link[k])
                THEN /\ phase' = [phase EXCEPT ![k] = "decoded"]
                     /\ current' = [current EXCEPT ![k] = Decoded(link[k])]
                ELSE /\ phase' = [phase EXCEPT ![k] = "refused"]
                     /\ UNCHANGED current
             /\ UNCHANGED <<store, client, call, page, slipped>>

\* Mutant: the cursor does not bound the query.
BoundNone(l) == NoTime

\* buildBackendParams: the second decoding; when it fails the upstream query
\* has no upper bound.
BoundOf(l) == IF Resolves(l) THEN ApplyCursor(Decoded(l), NoTime) ELSE NoTime

Build(k) == LET effective == EffectiveLimit(limit[k])
            IN  /\ phase[k] = "decoded"
                /\ phase' = [phase EXCEPT ![k] = "asked"]
                /\ call' = [call EXCEPT ![k] =
                     [limit |-> effective,
                      max   |-> BackendLimit(effective, current[k]),
                      end   |-> BoundOf(link[k])]]
                /\ slipped' = IF Resolves(link[k]) THEN slipped
                              ELSE slipped \cup {k}
                /\ UNCHANGED <<store, client, current, page>>

\* Mutant: a large cursor with no token makes a page without a next link.
EncodeOrEnd(k, features, cursor) ==
  LET respond(l, more) == page' = [page EXCEPT ![k] =
        [features |-> features, more |-> more, link |-> l, next |-> cursor]]
  IN  IF Cardinality(cursor.seen) > InlineMax
      THEN \/ \E t \in Token : Store!Store(t, cursor) /\ respond(Ref(t), TRUE)
           \/ respond(Inline(FirstPage), FALSE) /\ UNCHANGED store
      ELSE respond(Inline(cursor), TRUE) /\ UNCHANGED store

\* EncodeCursorWithStore: a large cursor is stored, and travels inline only when
\* no token could be generated.
Encode(k, features, cursor) ==
  LET respond(l) == page' = [page EXCEPT ![k] =
        [features |-> features, more |-> TRUE, link |-> l, next |-> cursor]]
  IN  \/ /\ Cardinality(cursor.seen) > InlineMax
         /\ \E t \in Token : Store!Store(t, cursor) /\ respond(Ref(t))
      \/ /\ respond(Inline(cursor))
         /\ UNCHANGED store

Respond(k, items, features) ==
  IF HasNext(items, features, call[k].max, call[k].limit)
  THEN Encode(k, features, NextCursor(features, current[k]))
  ELSE /\ page' = [page EXCEPT ![k] = [NoPage EXCEPT !.features = features]]
       /\ UNCHANGED store

\* The upstream answers; granules that do not translate are skipped.
Search(k) == /\ phase[k] = "asked"
             /\ \E answer \in Answers(Item, call[k].end, call[k].max) :
                LET items == answer \ Untranslatable
                IN  \E features \in Firsts(FilterSeen(items, current[k]), call[k].limit) :
                      Respond(k, items, features)
             /\ phase' = [phase EXCEPT ![k] = "answered"]
             /\ UNCHANGED <<client, current, call, slipped>>

\* The handler is done with client k: answered, failed or dropped.
Forget(k) == /\ current' = [current EXCEPT ![k] = FirstPage]
             /\ call' = [call EXCEPT ![k] = NoCall]
             /\ page' = [page EXCEPT ![k] = NoPage]

\* A 502, or a response lost on the way: the client follows the link again.
Fail(k) == /\ phase[k] \in {"asked", "answered"}
           /\ phase' = [phase EXCEPT ![k] = "ready"]
           /\ Forget(k)
           /\ UNCHANGED <<store, client, slipped>>

Receive(k) == /\ phase[k] = "answered"
              /\ delivered' = [delivered EXCEPT ![k] = @ \cup page[k].features]
              /\ IF page[k].more
                 THEN /\ phase' = [phase EXCEPT ![k] = "ready"]
                      /\ limit' = [limit EXCEPT ![k] = call[k].limit]
                      /\ link' = [link EXCEPT ![k] = page[k].link]
                      /\ meant' = [meant EXCEPT ![k] = page[k].next]
                 ELSE /\ phase' = [phase EXCEPT ![k] = "done"]
                      /\ UNCHANGED <<limit, link, meant>>
              /\ Forget(k)
              /\ UNCHANGED <<store, slipped>>

-----------------------------------------------------------------------------
(* The process. *)

Elapse == Store!Elapse /\ UNCHANGED <<phase, client, handler, slipped>>
Cleanup == Store!Cleanup /\ UNCHANGED <<phase, client, handler, slipped>>

\* Server.Close of an embedding application: the goroutine ends, the routes stay.
Close == Store!Stop /\ UNCHANGED <<phase, client, handler, slipped>>
Exit == Store!Exit /\ UNCHANGED <<phase, client, handler, slipped>>

\* A crash or redeployment: the map is gone and so is every request in flight.
InFlight == {k \in Client : phase[k] \in {"decoded", "asked", "answered"}}

Restart == /\ cursors' = [t \in Token |-> Absent]
           /\ untilTick' = Interval
           /\ ticked' = FALSE
           /\ stopped' = FALSE
           /\ loop' = "select"
           /\ phase' = [k \in Client |-> IF k \in InFlight THEN "ready" ELSE phase[k]]
           /\ current' = [k \in Client |-> FirstPage]
           /\ call' = [k \in Client |-> NoCall]
           /\ page' = [k \in Client |-> NoPage]
           /\ UNCHANGED <<issued, client, slipped>>

Next == \/ \E k \in Client : \/ Decode(k) \/ Build(k) \/ Search(k)
                             \/ Fail(k) \/ Receive(k)
        \/ Elapse \/ Cleanup \/ Close \/ Exit \/ Restart

\* Handlers run, and an upstream, a network and a process that are tried again
\* and again do not fail every time.  Nothing is asked of the store's goroutine.
Fairness == \A k \in Client : /\ WF_vars(Decode(k)) /\ SF_vars(Build(k))
                              /\ SF_vars(Search(k)) /\ SF_vars(Receive(k))

Spec == Init /\ [][Next]_vars
FairSpec == Spec /\ Fairness

-----------------------------------------------------------------------------
Page == [features : SUBSET Item, more : BOOLEAN, link : Link, next : Cursor]
Call == [limit : 0 .. MaxLimit, max : 0 .. MaxLimit, end : Time]

\* Every variable has its type; no upstream query exceeds the maximum.
TypeOK ==
  /\ Store!TypeOK
  /\ phase \in [Client -> {"ready", "decoded", "asked", "answered", "done", "refused"}]
  /\ limit \in [Client -> Nat]
  /\ link \in [Client -> Link]
  /\ current \in [Client -> Cursor]
  /\ call \in [Client -> Call]
  /\ page \in [Client -> Page]
  /\ delivered \in [Client -> SUBSET Item]
  /\ meant \in [Client -> Cursor]
  /\ slipped \subseteq Client

\* A link means, for as long as it resolves, the cursor it was made from: no
\* other client's and no earlier page's (EncodeCursorWithStore, Retrieve).
LinksKeepMeaning ==
  \A k \in Client : Resolves(link[k]) => Decoded(link[k]) = meant[k]

\* A link stops resolving for two reasons only: the process restarted, or the
\* full lifetime of its cursor ran out.  No cleanup, no Close and no request of
\* another client breaks it (Retrieve, cleanup, Server.Close).
LinksDieOfAge ==
  [][\A k \in Client :
       Resolves(link[k]) /\ link'[k] = link[k] /\ ~Resolves(link[k])'
         => \/ Restart
            \/ Elapse /\ cursors[link[k].token].left = 0]_vars

\* Link l stands for cursor c, or for nothing any more.
Means(l, c) ==
  IF l.token = NoToken THEN l.cursor = c
  ELSE /\ l.token \in issued
       /\ cursors[l.token] # Absent => cursors[l.token].cursor = c

\* The inductive invariant behind LinksKeepMeaning and LinksDieOfAge.
LinkInv ==
  \A k \in Client : Means(link[k], meant[k]) /\ Means(page[k].link, page[k].next)

\* Sharing the process, its store and its restarts costs a walk nothing: unless
\* a handler of its own lost the bound, no page repeats an item.
NoRepeats ==
  \A k \in Client \ slipped : page[k].features \cap delivered[k] = {}

\* What a handler works with: the cursor its client's link was made from, and
\* the bound of that cursor unless it was lost between the two decodings.
HandlerInv ==
  \A k \in Client :
    /\ phase[k] \in {"decoded", "asked", "answered"} => current[k] = meant[k]
    /\ phase[k] = "asked" =>
         /\ call[k].limit \in 1 .. MaxLimit
         /\ call[k].max = BackendLimit(call[k].limit, current[k])
         /\ \/ call[k].end = ApplyCursor(current[k], NoTime)
            \/ call[k].end = NoTime /\ k \in slipped
    /\ phase[k] # "answered" => page[k] = NoPage

\* The inductive invariant behind NoRepeats, of a client whose handlers kept
\* their bounds: its cursor remembers what it received, the cursor on its way
\* will too, and the page is what the former let through.
MemoryInv ==
  \A k \in Client \ slipped :
    /\ phase[k] # "done" => Remembers(meant[k], delivered[k])
    /\ \A f \in page[k].features :
         /\ f \notin meant[k].seen
         /\ meant[k].st # NoTime => Stamp(f) <= meant[k].st
    /\ page[k].more => Remembers(page[k].next, delivered[k] \cup page[k].features)

\* Not even then is anything left out: a walk that is not refused ends with the
\* whole listing.
NoneLost ==
  \A k \in Client : phase[k] = "done" => delivered[k] = Item \ Untranslatable

\* Cursor c of a walk that has delivered D is at a whole second, lists only items
\* of that second among D, and still reaches every other item.
Reaches(c, D) ==
  /\ ListsOnly(c, D)
  /\ c.st # NoTime => Trunc(c.st) = c.st /\ \A i \in Item \ D : Trunc(Start[i]) <= c.st

\* The inductive invariant behind NoneLost, whether or not a bound was lost.
WalkInv ==
  \A k \in Client :
    /\ phase[k] = "done" => delivered[k] = Item
    /\ Reaches(meant[k], delivered[k])
    /\ phase[k] = "answered" =>
         IF page[k].more THEN Reaches(page[k].next, delivered[k] \cup page[k].features)
         ELSE delivered[k] \cup page[k].features = Item

\* ApplyCursorToDatetime: "we want items with startTime <= cursor time".
PagesAdvance ==
  \A k \in Client : \A f \in page[k].features :
    current[k].st # NoTime => Stamp(f) <= current[k].st

\* Every walk ends with the listing, or with a 400 that tells the client so.
WalksEnd == \A k \in Client : <>(phase[k] \in {"done", "refused"})
=============================================================================
