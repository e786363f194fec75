------------------------- MODULE PagedServiceProofs -------------------------
(* Walks that share the store and the process, for any number of clients,  *)
(* tokens, granules and restarts.                                          *)
EXTENDS PagedService, CursorsProofs

-----------------------------------------------------------------------------
(* The store, as every step of the service treats it. *)

\* All that a step may do to the store.
StoreStep == \/ UNCHANGED store
             \/ \E t \in Token, c \in Cursor : Store!Store(t, c)
             \/ Elapse \/ Cleanup \/ Close \/ Exit \/ Restart

\* An issued token stands for its cursor or, from some moment on, for nothing.
KeepsTokens ==
  /\ issued \subseteq issued'
  /\ \A t \in issued :
       cursors'[t] # Absent => /\ cursors[t] # Absent
                               /\ cursors'[t].cursor = cursors[t].cursor

\* Time takes nothing from an entry but its lifetime.
LEMMA EntryAges ==
  ASSUME NEW e \in Store!Entry \cup {Absent}
  PROVE  /\ Store!Aged(e) \in Store!Entry \cup {Absent}
         /\ Store!Aged(e) = Absent <=> e = Absent
         /\ e # Absent => Store!Aged(e).cursor = e.cursor
BY ServiceAssumption DEF Store!Aged, Store!Entry, Store!Expired

\* A sweep leaves an entry as it is or takes it away.
LEMMA EntrySwept ==
  ASSUME NEW e \in Store!Entry \cup {Absent}
  PROVE  Store!Sweep(e) \in {e, Absent}
BY DEF Store!Sweep

\* Whatever a step does to the store, its variables keep their types.
LEMMA StoreTyped ==
  ASSUME Store!TypeOK, StoreStep
  PROVE  Store!TypeOK'
<1>1. CASE UNCHANGED store
  BY <1>1 DEF store, Store!TypeOK
<1>2. ASSUME NEW t \in Token, NEW c \in Cursor, Store!Store(t, c)
      PROVE  Store!TypeOK'
  <2>1. [cursor |-> c, left |-> TTL] \in Store!Entry
    BY ServiceAssumption DEF Store!Entry
  <2>. QED
    BY <1>2, <2>1 DEF Store!Store, Store!FreshTokens, Store!TypeOK, Store!ticker
<1>3. CASE Elapse
  <2>1. /\ cursors' \in [Token -> Store!Entry \cup {Absent}]
        /\ \A t \in Token : cursors'[t] # Absent => t \in issued
    BY <1>3, EntryAges DEF Elapse, Store!Elapse, Store!TypeOK
  <2>2. untilTick' \in 1 .. Interval
    BY <1>3, ServiceAssumption DEF Elapse, Store!Elapse, Store!TypeOK, Store!ticker
  <2>3. ticked' \in BOOLEAN
    BY <1>3 DEF Elapse, Store!Elapse, Store!TypeOK, Store!ticker
  <2>. QED
    BY <1>3, <2>1, <2>2, <2>3 DEF Elapse, Store!Elapse, Store!TypeOK
<1>4. CASE Cleanup
  BY <1>4, EntrySwept DEF Cleanup, Store!Cleanup, Store!TypeOK
<1>5. CASE Close \/ Exit
  BY <1>5 DEF Close, Exit, Store!Stop, Store!Exit, Store!TypeOK, Store!table, Store!ticker
<1>6. CASE Restart
  <2>1. Interval \in 1 .. Interval
    BY ServiceAssumption
  <2>. QED
    BY <1>6, <2>1 DEF Restart, Store!TypeOK
<1>. QED
  BY <1>1, <1>2, <1>3, <1>4, <1>5, <1>6 DEF StoreStep

\* Whatever a step does to the store, no token comes to stand for another cursor.
LEMMA TokensKept ==
  ASSUME Store!TypeOK, StoreStep
  PROVE  KeepsTokens
<1>1. CASE UNCHANGED store
  BY <1>1 DEF store, KeepsTokens
<1>2. ASSUME NEW t \in Token, NEW c \in Cursor, Store!Store(t, c)
      PROVE  KeepsTokens
  BY <1>2 DEF Store!Store, Store!FreshTokens, Store!TypeOK, KeepsTokens
<1>3. CASE Elapse
  <2>1. \A t \in Token : /\ cursors[t] \in Store!Entry \cup {Absent}
                         /\ cursors'[t] = Store!Aged(cursors[t])
    BY <1>3 DEF Elapse, Store!Elapse, Store!TypeOK
  <2>. QED
    BY <1>3, <2>1, EntryAges DEF Elapse, Store!Elapse, Store!TypeOK, KeepsTokens
<1>4. CASE Cleanup
  BY <1>4, EntrySwept DEF Cleanup, Store!Cleanup, Store!TypeOK, KeepsTokens
<1>5. CASE Close \/ Exit
  BY <1>5 DEF Close, Exit, Store!Stop, Store!Exit, Store!table, KeepsTokens
<1>6. CASE Restart
  BY <1>6 DEF Restart, Store!TypeOK, KeepsTokens
<1>. QED
  BY <1>1, <1>2, <1>3, <1>4, <1>5, <1>6 DEF StoreStep

-----------------------------------------------------------------------------
(* What a step does to a handler. *)

\* The values of "nothing yet" are values of their types.
LEMMA BlankTypes ==
  FirstPage \in Cursor /\ NoCall \in Call /\ NoPage \in Page /\ Inline(FirstPage) \in Link
<1>1. FirstPage \in Cursor
  BY DEF FirstPage, Cursor, Time
<1>2. NoCall \in Call
  BY LimitAssumption DEF NoCall, Call, Time
<1>3. Inline(FirstPage) \in Link
  BY <1>1 DEF Inline, Link
<1>. QED
  BY <1>1, <1>2, <1>3 DEF NoPage, Page

\* What a link decodes to, when it does.
LEMMA DecodedType ==
  ASSUME Store!TypeOK, NEW l \in Link, Resolves(l)
  PROVE  Decoded(l) \in Cursor
<1>1. CASE l.token = NoToken
  BY <1>1 DEF Decoded, Link
<1>2. CASE l.token # NoToken
  <2>1. l.token \in Token /\ cursors[l.token] # Absent
    BY <1>2 DEF Resolves, Store!Retrieve, Link
  <2>2. cursors[l.token] \in Store!Entry
    BY <2>1 DEF Store!TypeOK
  <2>. QED
    BY <1>2, <2>2 DEF Decoded, Store!Entry
<1>. QED
  BY <1>1, <1>2

\* The page a search makes of an upstream answer, and the link it carries.
Made(k, answer, F, p) ==
  LET items == answer \ Untranslatable
  IN  /\ answer \in Answers(Item, call[k].end, call[k].max)
      /\ F \in Firsts(FilterSeen(items, current[k]), call[k].limit)
      /\ p.features = F
      /\ p.more = HasNext(items, F, call[k].max, call[k].limit)
      /\ p.more => F # {} /\ p.next = NextCursor(F, current[k])
      /\ \/ UNCHANGED store /\ p.link = Inline(p.next)
         \/ \E t \in Token : Store!Store(t, p.next) /\ p.link = Ref(t)

\* The page a search makes: its items, its cursor and its link.
LEMMA SearchMakes ==
  ASSUME TypeOK, NEW k \in Client, Search(k)
  PROVE  \E answer, F, p : /\ p \in Page
                           /\ page' = [page EXCEPT ![k] = p]
                           /\ F \in SUBSET Item
                           /\ Made(k, answer, F, p)
<1>1. PICK answer \in Answers(Item, call[k].end, call[k].max) :
        \E features \in Firsts(FilterSeen(answer \ Untranslatable, current[k]),
                               call[k].limit) :
           Respond(k, answer \ Untranslatable, features)
  BY DEF Search
<1>2. PICK F \in Firsts(FilterSeen(answer \ Untranslatable, current[k]), call[k].limit) :
        Respond(k, answer \ Untranslatable, F)
  BY <1>1
<1>. DEFINE items == answer \ Untranslatable
            next == NextCursor(F, current[k])
<1>3. F \in SUBSET Item
  <2>1. answer \subseteq Item
    BY DEF Answers, Firsts, Matching
  <2>. QED
    BY <2>1 DEF Firsts, FilterSeen
<1>4. CASE HasNext(items, F, call[k].max, call[k].limit)
  <2>1. F # {} /\ next \in Cursor
    BY <1>3, <1>4, NextCursorType DEF HasNext, TypeOK
  <2>2. Encode(k, F, next)
    BY <1>2, <1>4 DEF Respond
  <2>3. PICK l : /\ page' = [page EXCEPT ![k] =
                       [features |-> F, more |-> TRUE, link |-> l, next |-> next]]
                 /\ \/ UNCHANGED store /\ l = Inline(next)
                    \/ \E t \in Token : Store!Store(t, next) /\ l = Ref(t)
    BY <2>2 DEF Encode
  <2>. DEFINE p == [features |-> F, more |-> TRUE, link |-> l, next |-> next]
  <2>4. l \in Link
    BY <2>1, <2>3, BlankTypes DEF Inline, Ref, Link
  <2>5. p \in Page
    BY <1>3, <2>1, <2>4 DEF Page
  <2>6. Made(k, answer, F, p)
    BY <1>1, <1>2, <1>4, <2>1, <2>3 DEF Made
  <2>. QED
    BY <1>3, <2>3, <2>5, <2>6
<1>5. CASE ~HasNext(items, F, call[k].max, call[k].limit)
  <2>. DEFINE p == [NoPage EXCEPT !.features = F]
  <2>1. page' = [page EXCEPT ![k] = p] /\ UNCHANGED store
    BY <1>2, <1>5 DEF Respond
  <2>2. p \in Page /\ p.features = F /\ p.more = FALSE /\ p.link = Inline(p.next)
    BY <1>3, BlankTypes DEF NoPage, Page
  <2>3. HasNext(items, F, call[k].max, call[k].limit) = FALSE
    BY <1>5 DEF HasNext
  <2>4. Made(k, answer, F, p)
    BY <1>1, <1>2, <2>1, <2>2, <2>3 DEF Made
  <2>. QED
    BY <1>3, <2>1, <2>2, <2>4
<1>. QED
  BY <1>4, <1>5

\* Every step of the service is one of those of the store.
LEMMA StepsTheStore ==
  ASSUME TypeOK, [Next]_vars
  PROVE  StoreStep
<1>1. ASSUME NEW k \in Client, Decode(k) \/ Build(k) \/ Fail(k) \/ Receive(k)
      PROVE  StoreStep
  BY <1>1 DEF Decode, Build, Fail, Receive, StoreStep
<1>2. ASSUME NEW k \in Client, Search(k)
      PROVE  StoreStep
  <2>1. PICK answer, F, p : p \in Page /\ Made(k, answer, F, p)
    BY <1>2, SearchMakes
  <2>2. p.next \in Cursor
    BY <2>1 DEF Page
  <2>. QED
    BY <2>1, <2>2 DEF Made, StoreStep
<1>3. CASE Elapse \/ Cleanup \/ Close \/ Exit \/ Restart
  BY <1>3 DEF StoreStep
<1>4. CASE UNCHANGED vars
  BY <1>4 DEF vars, store, StoreStep
<1>. QED
  BY <1>1, <1>2, <1>3, <1>4 DEF Next

\* Whatever the clients, the store and the process do, every variable keeps its
\* type; in particular no upstream query exceeds the maximum.
THEOREM ServiceTypeCorrect == Spec => []TypeOK
<1>1. Init => TypeOK
  <2>. SUFFICES ASSUME Init PROVE TypeOK
    OBVIOUS
  <2>1. Store!TypeOK
    <3>1. Interval \in 1 .. Interval
      BY ServiceAssumption
    <3>. QED
      BY <3>1 DEF Init, Store!Init, Store!TypeOK
  <2>. QED
    BY <2>1, BlankTypes, ServiceAssumption DEF Init, TypeOK
<1>2. ASSUME TypeOK, [Next]_vars
      PROVE  TypeOK'
  <2>. USE <1>2
  <2>0. Store!TypeOK'
    BY StepsTheStore, StoreTyped DEF TypeOK
  <2>1. ASSUME NEW k \in Client, Decode(k)
        PROVE  TypeOK'
    <3>1. Resolves(link[k]) => Decoded(link[k]) \in Cursor
      BY DecodedType DEF TypeOK
    <3>2. current' \in [Client -> Cursor]
      BY <2>1, <3>1 DEF Decode, TypeOK
    <3>3. phase' \in [Client -> {"ready", "decoded", "asked", "answered", "done", "refused"}]
      BY <2>1 DEF Decode, TypeOK
    <3>. QED
      BY <2>0, <2>1, <3>2, <3>3 DEF Decode, TypeOK, client
  <2>2. ASSUME NEW k \in Client, Build(k)
        PROVE  TypeOK'
    <3>. DEFINE n == EffectiveLimit(limit[k])
    <3>1. n \in 1 .. MaxLimit
      BY EffectiveLimitType DEF TypeOK
    <3>2. BackendLimit(n, current[k]) \in 1 .. MaxLimit
      BY <3>1, BackendLimitType DEF TypeOK
    <3>3. BoundOf(link[k]) \in Time
      BY DecodedType, ApplyCursorType DEF BoundOf, TypeOK, Time
    <3>4. [limit |-> n, max |-> BackendLimit(n, current[k]), end |-> BoundOf(link[k])] \in Call
      BY <3>1, <3>2, <3>3, LimitAssumption DEF Call
    <3>5. call' \in [Client -> Call]
      BY <2>2, <3>4 DEF Build, TypeOK
    <3>6. slipped' \subseteq Client
      BY <2>2 DEF Build, TypeOK
    <3>7. phase' \in [Client -> {"ready", "decoded", "asked", "answered", "done", "refused"}]
      BY <2>2 DEF Build, TypeOK
    <3>. QED
      BY <2>0, <2>2, <3>5, <3>6, <3>7 DEF Build, TypeOK, client
  <2>3. ASSUME NEW k \in Client, Search(k)
        PROVE  TypeOK'
    <3>1. PICK p \in Page : page' = [page EXCEPT ![k] = p]
      BY <2>3, SearchMakes
    <3>2. page' \in [Client -> Page]
      BY <3>1 DEF TypeOK
    <3>3. phase' \in [Client -> {"ready", "decoded", "asked", "answered", "done", "refused"}]
      BY <2>3 DEF Search, TypeOK
    <3>. QED
      BY <2>0, <2>3, <3>2, <3>3 DEF Search, TypeOK, client
  <2>4. ASSUME NEW k \in Client, Fail(k)
        PROVE  TypeOK'
    BY <2>0, <2>4, BlankTypes DEF Fail, Forget, TypeOK, client
  <2>5. ASSUME NEW k \in Client, Receive(k)
        PROVE  TypeOK'
    <3>1. page[k] \in Page /\ call[k] \in Call
      BY DEF TypeOK
    <3>2. /\ page[k].features \in SUBSET Item /\ page[k].link \in Link
          /\ page[k].next \in Cursor /\ call[k].limit \in Nat
      BY <3>1, LimitAssumption DEF Page, Call
    <3>3. /\ limit' \in [Client -> Nat]
          /\ link' \in [Client -> Link]
          /\ meant' \in [Client -> Cursor]
      BY <2>5, <3>2 DEF Receive, TypeOK
    <3>4. delivered' \in [Client -> SUBSET Item]
      BY <2>5, <3>2 DEF Receive, TypeOK
    <3>5. phase' \in [Client -> {"ready", "decoded", "asked", "answered", "done", "refused"}]
      BY <2>5 DEF Receive, TypeOK
    <3>. QED
      BY <2>0, <2>5, <3>3, <3>4, <3>5, BlankTypes DEF Receive, Forget, TypeOK
  <2>6. CASE Elapse \/ Cleanup \/ Close \/ Exit
    BY <2>0, <2>6 DEF Elapse, Cleanup, Close, Exit, client, handler, TypeOK
  <2>7. CASE Restart
    BY <2>0, <2>7, BlankTypes DEF Restart, client, TypeOK
  <2>8. CASE UNCHANGED vars
    BY <2>0, <2>8 DEF vars, TypeOK
  <2>. QED
    BY <2>1, <2>2, <2>3, <2>4, <2>5, <2>6, <2>7, <2>8 DEF Next
<1>. QED
  BY <1>1, <1>2, PTL DEF Spec
-----------------------------------------------------------------------------
(* Links. *)

\* Links keep their meaning over every step.
LEMMA LinkInvInductive ==
  ASSUME TypeOK, LinkInv, [Next]_vars
  PROVE  LinkInv'
<1>0. KeepsTokens
  BY StepsTheStore, TokensKept DEF TypeOK
\* What a link means it means for good.
<1>1. ASSUME NEW k \in Client
      PROVE  /\ UNCHANGED <<link[k], meant[k]>> => Means(link[k], meant[k])'
             /\ UNCHANGED page[k] => Means(page[k].link, page[k].next)'
             /\ link'[k] = page[k].link /\ meant'[k] = page[k].next
                  => Means(link[k], meant[k])'
  BY <1>0 DEF LinkInv, Means, KeepsTokens
<1>2. ASSUME NEW k \in Client, page'[k] = NoPage
      PROVE  Means(page[k].link, page[k].next)'
  BY <1>2 DEF NoPage, Means, Inline
<1>3. ASSUME NEW j \in Client, Decode(j) \/ Build(j)
      PROVE  LinkInv'
  BY <1>1, <1>3 DEF Decode, Build, client, LinkInv
<1>4. ASSUME NEW j \in Client, Search(j)
      PROVE  LinkInv'
  <2>1. PICK answer, F, p : /\ p \in Page
                            /\ page' = [page EXCEPT ![j] = p]
                            /\ Made(j, answer, F, p)
    BY <1>4, SearchMakes
  <2>2. page'[j] = p
    BY <2>1 DEF TypeOK
  <2>3. CASE UNCHANGED store /\ p.link = Inline(p.next)
    <3>1. Means(page[j].link, page[j].next)'
      BY <2>2, <2>3 DEF Means, Inline
    <3>. QED
      BY <1>1, <1>4, <2>1, <3>1 DEF Search, client, LinkInv, TypeOK
  <2>4. ASSUME NEW t \in Token, Store!Store(t, p.next), p.link = Ref(t)
        PROVE  LinkInv'
    <3>1. /\ issued' = issued \cup {t}
          /\ cursors'[t] = [cursor |-> p.next, left |-> TTL]
      BY <2>4 DEF Store!Store, TypeOK, Store!TypeOK
    <3>2. p.link.token = t /\ t # NoToken
      BY <2>4, ServiceAssumption DEF Ref
    <3>3. Means(page[j].link, page[j].next)'
      BY <2>2, <3>1, <3>2 DEF Means
    <3>. QED
      BY <1>1, <1>4, <2>1, <3>3 DEF Search, client, LinkInv, TypeOK
  <2>. QED
    BY <2>1, <2>3, <2>4 DEF Made
<1>5. ASSUME NEW j \in Client, Fail(j)
      PROVE  LinkInv'
  <2>1. \A k \in Client : page'[k] = NoPage \/ UNCHANGED page[k]
    BY <1>5 DEF Fail, Forget, TypeOK
  <2>. QED
    BY <1>1, <1>2, <1>5, <2>1 DEF Fail, client, LinkInv
<1>6. ASSUME NEW j \in Client, Receive(j)
      PROVE  LinkInv'
  <2>1. \A k \in Client : page'[k] = NoPage \/ UNCHANGED page[k]
    BY <1>6 DEF Receive, Forget, TypeOK
  <2>2. \A k \in Client : \/ UNCHANGED <<link[k], meant[k]>>
                          \/ link'[k] = page[k].link /\ meant'[k] = page[k].next
    BY <1>6 DEF Receive, TypeOK
  <2>. QED
    BY <1>1, <1>2, <2>1, <2>2 DEF LinkInv
<1>7. CASE Elapse \/ Cleanup \/ Close \/ Exit
  BY <1>1, <1>7 DEF Elapse, Cleanup, Close, Exit, client, handler, LinkInv
<1>8. CASE Restart
  BY <1>1, <1>2, <1>8 DEF Restart, client, LinkInv
<1>9. CASE UNCHANGED vars
  BY <1>1, <1>9 DEF vars, LinkInv
<1>. QED
  BY <1>3, <1>4, <1>5, <1>6, <1>7, <1>8, <1>9 DEF Next

LEMMA LinkInvHolds == Spec => []LinkInv
<1>1. Init => LinkInv
  BY DEF Init, LinkInv, Means, Inline, NoPage
<1>. QED
  BY <1>1, LinkInvInductive, ServiceTypeCorrect, PTL DEF Spec

\* A link that resolves means the cursor it was made from.
LEMMA ResolvesToMeant ==
  ASSUME LinkInv, NEW k \in Client, Resolves(link[k])
  PROVE  Decoded(link[k]) = meant[k]
BY DEF LinkInv, Means, Resolves, Decoded, Store!Retrieve

\* Whoever else stores, whatever is cleaned and however often the process starts
\* again, a link yields the cursor it was made from or nothing.
THEOREM LinksMeanOneCursor == Spec => []LinksKeepMeaning
<1>1. LinkInv => LinksKeepMeaning
  BY ResolvesToMeant DEF LinksKeepMeaning
<1>. QED
  BY <1>1, LinkInvHolds, PTL

\* A link is broken by a restart or by the last unit of its lifetime, and by
\* nothing else.
THEOREM LinksLiveOut == Spec => LinksDieOfAge
<1>1. ASSUME TypeOK, LinkInv, [Next]_vars
      PROVE  [\A k \in Client :
                Resolves(link[k]) /\ link'[k] = link[k] /\ ~Resolves(link[k])'
                  => \/ Restart
                     \/ Elapse /\ cursors[link[k].token].left = 0]_vars
  <2>. SUFFICES ASSUME NEW k \in Client,
                       Resolves(link[k]), link'[k] = link[k], ~Resolves(link[k])',
                       ~Restart
                PROVE  Elapse /\ cursors[link[k].token].left = 0
    OBVIOUS
  <2>. DEFINE t == link[k].token
              entry == cursors[t]
  <2>1. /\ t \in Token /\ t \in issued
        /\ entry \in Store!Entry /\ entry # Absent /\ ~(entry.left < 0)
    BY <1>1 DEF TypeOK, Store!TypeOK, LinkInv, Means, Resolves, Store!Retrieve, Store!Expired,
                Link
  <2>2. entry.left \in -1 .. TTL
    BY <2>1 DEF Store!Entry
  <2>3. cursors'[t] = Absent \/ cursors'[t].left < 0
    BY <2>1 DEF Resolves, Store!Retrieve, Store!Expired
  <2>4. cursors'[t] # entry
    BY <2>1, <2>3
  <2>5. StoreStep
    BY <1>1, StepsTheStore
  <2>6. ASSUME NEW u \in Token, NEW c \in Cursor, Store!Store(u, c)
        PROVE  FALSE
    BY <2>1, <2>4, <2>6 DEF Store!Store, Store!FreshTokens
  <2>7. ~Cleanup
    BY <2>1, <2>4 DEF Cleanup, Store!Cleanup, Store!Sweep, Store!Expired
  <2>8. ~(UNCHANGED store \/ Close \/ Exit)
    BY <2>4 DEF store, Close, Exit, Store!Stop, Store!Exit, Store!table
  <2>9. Elapse
    BY <2>5, <2>6, <2>7, <2>8 DEF StoreStep
  <2>10. entry.left = 0
    <3>1. cursors'[t] = [entry EXCEPT !.left = @ - 1]
      BY <2>1, <2>9 DEF Elapse, Store!Elapse, Store!Aged, Store!Expired
    <3>2. cursors'[t] \in Store!Entry \cup {Absent} /\ cursors'[t] # Absent
      BY <2>1, <2>9, EntryAges DEF Elapse, Store!Elapse
    <3>3. cursors'[t].left = entry.left - 1
      BY <2>1, <3>1 DEF Store!Entry
    <3>. QED
      BY <2>1, <2>2, <2>3, <3>2, <3>3
  <2>. QED
    BY <2>9, <2>10
<1>. QED
  BY <1>1, ServiceTypeCorrect, LinkInvHolds, PTL DEF Spec, LinksDieOfAge
-----------------------------------------------------------------------------
(* What a handler works with. *)

\* A handler works with the cursor of its link over every step.
LEMMA HandlerInvInductive ==
  ASSUME TypeOK, LinkInv, HandlerInv, [Next]_vars
  PROVE  HandlerInv'
<1>1. ASSUME NEW j \in Client, Decode(j)
      PROVE  HandlerInv'
  <2>1. Resolves(link[j]) => Decoded(link[j]) = meant[j]
    BY ResolvesToMeant
  <2>. QED
    BY <1>1, <2>1 DEF Decode, client, HandlerInv, TypeOK
<1>2. ASSUME NEW j \in Client, Build(j)
      PROVE  HandlerInv'
  <2>. DEFINE n == EffectiveLimit(limit[j])
  <2>1. n \in 1 .. MaxLimit
    BY EffectiveLimitType DEF TypeOK
  <2>2. current[j] = meant[j]
    BY <1>2 DEF Build, HandlerInv
  <2>3. /\ call'[j].limit = n
        /\ call'[j].max = BackendLimit(n, current[j])
        /\ call'[j].end = BoundOf(link[j])
    BY <1>2 DEF Build, TypeOK
  <2>4. \/ BoundOf(link[j]) = ApplyCursor(current[j], NoTime)
        \/ BoundOf(link[j]) = NoTime /\ j \in slipped'
    BY <1>2, <2>2, ResolvesToMeant DEF Build, BoundOf
  <2>5. /\ UNCHANGED <<current, meant, page>>
        /\ slipped \subseteq slipped'
        /\ \A k \in Client \ {j} : UNCHANGED <<phase[k], call[k]>>
        /\ phase'[j] = "asked" /\ phase[j] = "decoded"
    BY <1>2 DEF Build, client, TypeOK
  <2>. QED
    BY <2>1, <2>2, <2>3, <2>4, <2>5 DEF HandlerInv
<1>3. ASSUME NEW j \in Client, Search(j)
      PROVE  HandlerInv'
  <2>1. PICK p \in Page : page' = [page EXCEPT ![j] = p]
    BY <1>3, SearchMakes
  <2>. QED
    BY <1>3, <2>1 DEF Search, client, HandlerInv, TypeOK
<1>4. ASSUME NEW j \in Client, Fail(j) \/ Receive(j)
      PROVE  HandlerInv'
  <2>1. /\ phase'[j] \in {"ready", "done"} /\ page'[j] = NoPage
        /\ \A k \in Client \ {j} :
             UNCHANGED <<phase[k], call[k], current[k], meant[k], page[k]>>
        /\ UNCHANGED slipped
    BY <1>4 DEF Fail, Receive, Forget, client, TypeOK
  <2>. QED
    BY <2>1 DEF HandlerInv
<1>5. CASE Elapse \/ Cleanup \/ Close \/ Exit
  BY <1>5 DEF Elapse, Cleanup, Close, Exit, client, handler, HandlerInv
<1>6. CASE Restart
  BY <1>6 DEF Restart, InFlight, client, HandlerInv, TypeOK
<1>7. CASE UNCHANGED vars
  BY <1>7 DEF vars, HandlerInv
<1>. QED
  BY <1>1, <1>2, <1>3, <1>4, <1>5, <1>6, <1>7 DEF Next

LEMMA HandlerInvHolds == Spec => []HandlerInv
<1>1. Init => HandlerInv
  BY DEF Init, HandlerInv
<1>. QED
  BY <1>1, HandlerInvInductive, LinkInvHolds, ServiceTypeCorrect, PTL DEF Spec

\* What of client k's walk a step of anybody else leaves alone.
Walk(k) == <<phase[k], meant[k], delivered[k], page[k]>>

\* Only searching and receiving touch a walk; the rest drops a page at most.
LEMMA WalkSteps ==
  ASSUME TypeOK, HandlerInv, [Next]_vars, NEW k \in Client, ~Search(k), ~Receive(k)
  PROVE  /\ UNCHANGED <<meant[k], delivered[k]>>
         /\ phase'[k] = "done" <=> phase[k] = "done"
         /\ phase'[k] = "answered" => phase[k] = "answered"
         /\ UNCHANGED page[k] \/ page'[k] = NoPage
         /\ phase'[k] = "answered" => UNCHANGED page[k]
         /\ slipped \subseteq slipped'
<1>1. ASSUME NEW j \in Client, j # k,
             Decode(j) \/ Build(j) \/ Search(j) \/ Fail(j) \/ Receive(j)
      PROVE  UNCHANGED Walk(k) /\ slipped \subseteq slipped'
  <2>1. CASE Decode(j) \/ Build(j) \/ Fail(j) \/ Receive(j)
    BY <1>1, <2>1 DEF Decode, Build, Fail, Receive, Forget, client, Walk, TypeOK
  <2>2. CASE Search(j)
    <3>1. PICK p \in Page : page' = [page EXCEPT ![j] = p]
      BY <2>2, SearchMakes
    <3>. QED
      BY <1>1, <2>2, <3>1 DEF Search, client, Walk, TypeOK
  <2>. QED
    BY <1>1, <2>1, <2>2
<1>2. CASE Decode(k) \/ Build(k) \/ Fail(k)
  BY <1>2 DEF Decode, Build, Fail, Forget, client, TypeOK
<1>3. CASE Elapse \/ Cleanup \/ Close \/ Exit
  BY <1>3 DEF Elapse, Cleanup, Close, Exit, client, handler
<1>4. CASE Restart
  BY <1>4 DEF Restart, InFlight, client, TypeOK
<1>5. CASE UNCHANGED vars
  BY <1>5 DEF vars
<1>. QED
  BY <1>1, <1>2, <1>3, <1>4, <1>5 DEF Next, Walk
-----------------------------------------------------------------------------
(* No repeats. *)

\* Cursors remember what was received over every step.
LEMMA MemoryInvInductive ==
  ASSUME WholeSeconds, BoundsHeld, TypeOK, HandlerInv, MemoryInv, [Next]_vars
  PROVE  MemoryInv'
<1>. SUFFICES ASSUME NEW k \in Client, k \notin slipped'
              PROVE  /\ phase'[k] # "done" => Remembers(meant'[k], delivered'[k])
                     /\ \A f \in page'[k].features :
                          /\ f \notin meant'[k].seen
                          /\ meant'[k].st # NoTime => Stamp(f) <= meant'[k].st
                     /\ page'[k].more =>
                          Remembers(page'[k].next, delivered'[k] \cup page'[k].features)
  BY DEF MemoryInv, Remembers
<1>1. CASE Search(k)
  <2>1. PICK answer, F, p : /\ p \in Page
                            /\ page' = [page EXCEPT ![k] = p]
                            /\ F \in SUBSET Item
                            /\ Made(k, answer, F, p)
    BY <1>1, SearchMakes
  <2>2. /\ phase[k] = "asked" /\ k \notin slipped
        /\ UNCHANGED <<meant[k], delivered[k]>>
        /\ page'[k] = p
    BY <1>1, <2>1 DEF Search, client, TypeOK
  <2>3. /\ current[k] = meant[k] /\ meant[k] \in Cursor /\ delivered[k] \in SUBSET Item
        /\ call[k].end = ApplyCursor(meant[k], NoTime)
    BY <2>2 DEF HandlerInv, TypeOK
  <2>4. Remembers(meant[k], delivered[k])
    BY <2>2 DEF MemoryInv
  <2>5. /\ answer \in Answers(Item, ApplyCursor(meant[k], NoTime), call[k].max)
        /\ F \in Firsts(FilterSeen(answer \ Untranslatable, meant[k]), call[k].limit)
    BY <2>1, <2>3 DEF Made
  <2>6. \A f \in F : /\ f \notin meant[k].seen
                     /\ meant[k].st # NoTime => Stamp(f) <= meant[k].st
    <3>1. NoTime \in Time /\ (meant[k].st # NoTime => Trunc(meant[k].st) = meant[k].st)
      BY <2>4 DEF Time, Remembers
    <3>. QED
      BY <2>3, <2>5, <3>1, PageWithin
  <2>7. p.more => Remembers(p.next, delivered[k] \cup F)
    <3>1. p.more => F # {} /\ p.next = NextCursor(F, meant[k])
      BY <2>1, <2>3 DEF Made
    <3>. QED
      BY <2>1, <2>3, <2>4, <2>6, <3>1, NextRemembers
  <2>8. p.features = F
    BY <2>1 DEF Made
  <2>. QED
    BY <2>2, <2>4, <2>6, <2>7, <2>8
<1>2. CASE Receive(k)
  <2>1. /\ page'[k].features = {} /\ ~page'[k].more
        /\ k \notin slipped
        /\ delivered'[k] = delivered[k] \cup page[k].features
        /\ phase'[k] # "done" => page[k].more /\ meant'[k] = page[k].next
    BY <1>2 DEF Receive, Forget, NoPage, TypeOK
  <2>. QED
    BY <2>1 DEF MemoryInv
<1>3. CASE ~Search(k) /\ ~Receive(k)
  <2>1. /\ UNCHANGED <<meant[k], delivered[k]>>
        /\ phase'[k] = "done" <=> phase[k] = "done"
        /\ UNCHANGED page[k] \/ page'[k] = NoPage
        /\ k \notin slipped
    BY <1>3, WalkSteps
  <2>2. NoPage.features = {} /\ ~NoPage.more
    BY DEF NoPage
  <2>. QED
    BY <2>1, <2>2 DEF MemoryInv
<1>. QED
  BY <1>1, <1>2, <1>3

\* What a cursor remembers its page does not hold.
LEMMA NoneRemembered ==
  ASSUME TypeOK, HandlerInv, MemoryInv
  PROVE  NoRepeats
<1>. SUFFICES ASSUME NEW k \in Client \ slipped, NEW f \in page[k].features,
                     f \in delivered[k]
              PROVE  FALSE
  BY DEF NoRepeats
<1>1. phase[k] = "answered"
  BY DEF HandlerInv, NoPage
<1>2. /\ meant[k].st # NoTime
      /\ meant[k].st <= Stamp(f)
      /\ meant[k].st = Stamp(f) => f \in meant[k].seen
  BY <1>1 DEF MemoryInv, Remembers
<1>3. Stamp(f) <= meant[k].st /\ f \notin meant[k].seen
  BY <1>2 DEF MemoryInv
<1>4. meant[k].st \in Nat /\ Stamp(f) \in Nat
  BY <1>2, StampNat DEF TypeOK, Cursor, Time
<1>. QED
  BY <1>2, <1>3, <1>4

\* Under WholeSeconds and BoundsHeld no page of a client repeats an item it has
\* received, however many walk at once and however often the process starts
\* again, unless a handler of its own lost the bound of its cursor.
THEOREM WalksNeverRepeat ==
  ASSUME WholeSeconds, BoundsHeld
  PROVE  Spec => []NoRepeats
<1>1. Init => MemoryInv
  BY DEF Init, MemoryInv, Remembers, FirstPage, NoPage
<1>2. TypeOK /\ HandlerInv /\ MemoryInv /\ [Next]_vars => MemoryInv'
  BY MemoryInvInductive
<1>3. TypeOK /\ HandlerInv /\ MemoryInv => NoRepeats
  BY NoneRemembered
<1>. QED
  BY <1>1, <1>2, <1>3, ServiceTypeCorrect, HandlerInvHolds, PTL DEF Spec

-----------------------------------------------------------------------------
(* None lost. *)

\* A cursor reaches the rest however much more is delivered.
LEMMA ReachesMore ==
  ASSUME NEW c, NEW D, NEW E, D \subseteq E, Reaches(c, D)
  PROVE  Reaches(c, E)
BY DEF Reaches, ListsOnly

\* What a search serves and what its next link still reaches is everything, and
\* that even when the cursor did not bound the query.
LEMMA SearchReaches ==
  ASSUME Regular, TypeOK, HandlerInv, WalkInv,
         NEW k \in Client, phase[k] = "asked",
         NEW answer, NEW F \in SUBSET Item, NEW p \in Page, Made(k, answer, F, p)
  PROVE  IF p.more THEN Reaches(p.next, delivered[k] \cup F)
         ELSE delivered[k] \cup F = Item
<1>. USE DEF Regular
<1>. DEFINE c == meant[k]
            D == delivered[k]
            n == call[k].limit
<1>1. /\ current[k] = c /\ c \in Cursor /\ D \in SUBSET Item
      /\ n \in 1 .. MaxLimit /\ call[k].max = BackendLimit(n, c)
  BY DEF HandlerInv, TypeOK
<1>2. /\ answer \in Answers(Item, call[k].end, BackendLimit(n, c))
      /\ F \in Firsts(FilterSeen(answer \ Untranslatable, c), n)
      /\ p.more = HasNext(answer \ Untranslatable, F, BackendLimit(n, c), n)
      /\ p.more => F # {} /\ p.next = NextCursor(F, c)
  BY <1>1 DEF Made
<1>3. ListsOnly(c, D)
  BY DEF WalkInv, Reaches
<1>4. ASSUME NEW i \in Item \ D
      PROVE  i \in F \/ (p.more /\ Trunc(Start[i]) <= NextCursor(F, c).st)
  <2>1. i \in Matching(Item, NoTime)
    BY DEF Matching, Before
  <2>2. i \in Matching(Item, ApplyCursor(c, NoTime))
    <3>1. c.st # NoTime => Trunc(c.st) = c.st /\ Trunc(Start[i]) <= c.st
      BY DEF WalkInv, Reaches
    <3>. QED
      BY <1>1, <2>1, <3>1, CursorReaches DEF Time
  <2>3. i \in Matching(Item, call[k].end) \ D
    BY <1>1, <2>1, <2>2 DEF HandlerInv
  <2>. QED
    BY <1>1, <1>2, <1>3, <2>3, PageReaches
<1>5. CASE p.more
  <2>1. p.next = NextCursor(F, c) /\ F # {}
    BY <1>2, <1>5
  <2>2. p.next.st # NoTime /\ ListsOnly(p.next, D \cup F)
    BY <1>1, <1>3, <2>1, NextLists
  <2>3. Trunc(p.next.st) = p.next.st
    BY <2>1, OldestOfPage, TruncIdempotent DEF NextCursor
  <2>4. \A i \in Item \ (D \cup F) : Trunc(Start[i]) <= p.next.st
    BY <1>4, <2>1
  <2>. QED
    BY <1>5, <2>2, <2>3, <2>4 DEF Reaches
<1>6. CASE ~p.more
  BY <1>1, <1>4, <1>6
<1>. QED
  BY <1>5, <1>6

\* Cursors reach what is left over every step.
LEMMA WalkInvInductive ==
  ASSUME Regular, TypeOK, HandlerInv, WalkInv, [Next]_vars
  PROVE  WalkInv'
<1>. SUFFICES ASSUME NEW k \in Client
              PROVE  /\ phase'[k] = "done" => delivered'[k] = Item
                     /\ Reaches(meant'[k], delivered'[k])
                     /\ phase'[k] = "answered" =>
                          IF page'[k].more
                          THEN Reaches(page'[k].next, delivered'[k] \cup page'[k].features)
                          ELSE delivered'[k] \cup page'[k].features = Item
  BY DEF WalkInv, Reaches, ListsOnly
<1>1. CASE Search(k)
  <2>1. PICK answer, F, p : /\ p \in Page
                            /\ page' = [page EXCEPT ![k] = p]
                            /\ F \in SUBSET Item
                            /\ Made(k, answer, F, p)
    BY <1>1, SearchMakes
  <2>2. /\ phase[k] = "asked" /\ phase'[k] = "answered"
        /\ UNCHANGED <<meant[k], delivered[k]>>
        /\ page'[k] = p /\ p.features = F
    BY <1>1, <2>1 DEF Search, client, TypeOK, Made
  <2>3. IF p.more THEN Reaches(p.next, delivered[k] \cup F)
        ELSE delivered[k] \cup F = Item
    BY <2>1, <2>2, SearchReaches
  <2>. QED
    BY <2>2, <2>3 DEF WalkInv
<1>2. CASE Receive(k)
  <2>1. /\ phase[k] = "answered" /\ phase'[k] # "answered"
        /\ delivered'[k] = delivered[k] \cup page[k].features
        /\ page[k].more => phase'[k] = "ready" /\ meant'[k] = page[k].next
        /\ ~page[k].more => meant'[k] = meant[k]
    BY <1>2 DEF Receive, TypeOK
  <2>2. CASE page[k].more
    BY <2>1, <2>2 DEF WalkInv
  <2>3. CASE ~page[k].more
    <3>1. delivered'[k] = Item
      BY <2>1, <2>3 DEF WalkInv
    <3>2. Reaches(meant'[k], delivered'[k])
      BY <2>1, <2>3, ReachesMore DEF WalkInv
    <3>. QED
      BY <2>1, <3>1, <3>2
  <2>. QED
    BY <2>2, <2>3
<1>3. CASE ~Search(k) /\ ~Receive(k)
  <2>1. /\ UNCHANGED <<meant[k], delivered[k]>>
        /\ phase'[k] = "done" <=> phase[k] = "done"
        /\ phase'[k] = "answered" => phase[k] = "answered" /\ UNCHANGED page[k]
    BY <1>3, WalkSteps
  <2>. QED
    BY <2>1 DEF WalkInv
<1>. QED
  BY <1>1, <1>2, <1>3

\* Under Regular every walk that comes to an end has delivered everything, lost
\* cursors, lost bounds and restarts notwithstanding.
THEOREM WalksLoseNone ==
  ASSUME Regular
  PROVE  Spec => []NoneLost
<1>1. Init => WalkInv
  BY DEF Init, WalkInv, Reaches, ListsOnly, FirstPage
<1>2. TypeOK /\ HandlerInv /\ WalkInv /\ [Next]_vars => WalkInv'
  BY WalkInvInductive
<1>3. WalkInv => NoneLost
  BY DEF WalkInv, NoneLost, Regular, AllTranslate
<1>. QED
  BY <1>1, <1>2, <1>3, ServiceTypeCorrect, HandlerInvHolds, PTL DEF Spec
=============================================================================
