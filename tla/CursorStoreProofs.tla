-------------------------- MODULE CursorStoreProofs --------------------------
(* The cursor store keeps its leases, for any tokens, lifetime and interval. *)
EXTENDS CursorStore, TLAPS

LEMMA SweepType ==
  ASSUME NEW e \in Entry \cup {Absent}
  PROVE  Sweep(e) \in Entry \cup {Absent} /\ (Sweep(e) # Absent => e # Absent)
BY DEF Sweep

LEMMA AgedType ==
  ASSUME NEW e \in Entry \cup {Absent}
  PROVE  /\ Aged(e) \in Entry \cup {Absent}
         /\ Aged(e) = Absent <=> e = Absent
BY StoreAssumption DEF Aged, Entry, Expired

LEMMA FreshEntry ==
  ASSUME NEW c \in Cursor
  PROVE  [cursor |-> c, left |-> TTL] \in Entry
BY StoreAssumption DEF Entry

\* Every variable keeps its type, the map holds issued tokens only and none that
\* was deleted, and the goroutine leaves only after Stop.
THEOREM StoreTypeCorrect == Spec => []TypeOK
<1>1. Init => TypeOK
  <2>. SUFFICES ASSUME Init PROVE TypeOK
    OBVIOUS
  <2>1. /\ cursors \in [Token -> Entry \cup {Absent}]
        /\ issued = {}
        /\ deleted = {}
        /\ \A t \in Token : cursors[t] = Absent
    BY DEF Init
  <2>2. untilTick \in 1 .. Interval
    <3>1. Interval \in 1 .. Interval
      BY StoreAssumption
    <3>. QED
      BY <3>1 DEF Init
  <2>. QED
    BY <2>1, <2>2 DEF Init, TypeOK
<1>2. ASSUME TypeOK, [Next]_vars
      PROVE  TypeOK'
  <2>. USE <1>2
  <2>1. ASSUME NEW t \in Token, NEW c \in Cursor, Store(t, c)
        PROVE  TypeOK'
    BY <2>1, FreshEntry DEF Store, FreshTokens, TypeOK, ticker
  <2>2. ASSUME NEW t \in Token, Delete(t)
        PROVE  TypeOK'
    BY <2>2 DEF Delete, TypeOK, ticker
  <2>3. CASE Stop
    BY <2>3 DEF Stop, TypeOK, table, ticker
  <2>4. CASE Cleanup
    BY <2>4, SweepType DEF Cleanup, TypeOK
  <2>5. CASE Exit
    BY <2>5 DEF Exit, TypeOK, table, ticker
  <2>6. CASE Elapse
    <3>1. /\ cursors' \in [Token -> Entry \cup {Absent}]
          /\ \A t \in Token : cursors'[t] # Absent => t \in issued \ deleted
      BY <2>6, AgedType DEF Elapse, TypeOK
    <3>2. untilTick' \in 1 .. Interval
      BY <2>6, StoreAssumption DEF Elapse, TypeOK, ticker
    <3>3. ticked' \in BOOLEAN
      BY <2>6 DEF Elapse, TypeOK, ticker
    <3>. QED
      BY <2>6, <3>1, <3>2, <3>3 DEF Elapse, TypeOK
  <2>7. CASE UNCHANGED vars
    BY <2>7 DEF vars, TypeOK
  <2>. QED
    BY <2>1, <2>2, <2>3, <2>4, <2>5, <2>6, <2>7 DEF Next
<1>. QED
  BY <1>1, <1>2, PTL DEF Spec

-----------------------------------------------------------------------------
(* What the map holds, seen as leases. *)

\* The lease an entry amounts to.
Lease(e) == IF e = Absent \/ Expired(e) THEN Absent ELSE e

\* Cleanup takes away no lease.
LEMMA SweepKeepsLease ==
  ASSUME NEW e \in Entry \cup {Absent}
  PROVE  Lease(Sweep(e)) = Lease(e)
BY DEF Lease, Sweep

\* A unit of time ages every lease alike, the last unit of its life included.
LEMMA AgedIsOlder ==
  ASSUME NEW e \in Entry \cup {Absent}
  PROVE  Lease(Aged(e)) = Leases!Older(Lease(e))
<1>1. CASE e = Absent
  BY <1>1 DEF Lease, Aged, Leases!Older
<1>2. CASE e # Absent
  <2>1. e \in Entry /\ e.left \in -1 .. TTL
    BY <1>2 DEF Entry
  <2>2. CASE e.left < 0
    BY <1>2, <2>2 DEF Lease, Aged, Expired, Leases!Older
  <2>3. CASE e.left = 0
    <3>1. Aged(e) = [e EXCEPT !.left = -1]
      BY <1>2, <2>1, <2>3 DEF Aged, Expired
    <3>2. Aged(e).left = -1
      BY <2>1, <3>1 DEF Entry
    <3>3. Lease(Aged(e)) = Absent
      BY <3>2 DEF Lease, Expired
    <3>4. Lease(e) = e
      BY <1>2, <2>3 DEF Lease, Expired
    <3>. QED
      BY <2>3, <3>3, <3>4 DEF Leases!Older
  <2>4. CASE e.left > 0
    <3>1. Aged(e) = [e EXCEPT !.left = @ - 1]
      BY <1>2, <2>1, <2>4 DEF Aged, Expired
    <3>2. Aged(e) \in Entry /\ Aged(e).left = e.left - 1
      BY <2>1, <2>4, <3>1, StoreAssumption DEF Entry
    <3>3. Lease(Aged(e)) = Aged(e)
      BY <2>1, <2>4, <3>2, StoreAssumption DEF Lease, Expired
    <3>4. Lease(e) = e
      BY <1>2, <2>1, <2>4 DEF Lease, Expired
    <3>. QED
      BY <1>2, <2>1, <2>4, <3>1, <3>3, <3>4 DEF Leases!Older
  <2>. QED
    BY <2>1, <2>2, <2>3, <2>4
<1>. QED
  BY <1>1, <1>2

\* The store implements the leases: what a handler may conclude from a token
\* does not depend on when, or whether, the goroutine runs, and a token nobody
\* deletes is good for the whole lifetime.
THEOREM ImplementsLeases == Spec => KeepsLeases
<1>. DEFINE lease == [t \in Token |-> IF Retrieve(t) = "ok" THEN cursors[t] ELSE Absent]
<1>1. Init => Leases!Init
  <2>. SUFFICES ASSUME Init PROVE Leases!Init
    OBVIOUS
  <2>1. \A t \in Token : cursors[t] = Absent
    BY DEF Init
  <2>2. lease = [t \in Token |-> Absent]
    BY <2>1 DEF Retrieve
  <2>. QED
    BY <2>2 DEF Init, Leases!Init
<1>2. ASSUME TypeOK, [Next]_vars
      PROVE  [Leases!Next]_Leases!vars
  <2>. USE <1>2
  <2>0. lease = [t \in Token |-> Lease(cursors[t])]
        /\ lease' = [t \in Token |-> Lease(cursors'[t])]
    BY DEF Lease, Retrieve, Expired
  <2>1. ASSUME NEW t \in Token, NEW c \in Cursor, Store(t, c)
        PROVE  Leases!Next
    <3>1. /\ t \in Token \ issued
          /\ cursors' = [cursors EXCEPT ![t] = [cursor |-> c, left |-> TTL]]
          /\ issued' = issued \cup {t}
          /\ deleted' = deleted
      BY <2>1 DEF Store, FreshTokens
    <3>2. Lease([cursor |-> c, left |-> TTL]) = [cursor |-> c, left |-> TTL]
      BY FreshEntry, StoreAssumption DEF Lease, Expired
    <3>3. lease' = [lease EXCEPT ![t] = [cursor |-> c, left |-> TTL]]
      BY <2>0, <3>1, <3>2 DEF TypeOK
    <3>4. Leases!Grant(t, c)
      BY <3>1, <3>3 DEF Leases!Grant
    <3>. QED
      BY <3>4 DEF Leases!Next
  <2>2. ASSUME NEW t \in Token, Delete(t)
        PROVE  [Leases!Next]_Leases!vars
    <3>1. lease' = [lease EXCEPT ![t] = Absent]
      BY <2>0, <2>2 DEF Delete, TypeOK, Lease
    <3>2. /\ issued' = issued
          /\ deleted' = deleted \cup ({t} \cap issued)
      BY <2>2 DEF Delete
    <3>3. CASE t \in issued \ deleted
      <4>1. Leases!Revoke(t)
        BY <3>1, <3>2, <3>3 DEF Leases!Revoke
      <4>. QED
        BY <4>1 DEF Leases!Next
    <3>4. CASE t \notin issued \ deleted
      <4>1. cursors[t] = Absent /\ deleted' = deleted
        BY <3>2, <3>4 DEF TypeOK
      <4>2. lease' = lease
        BY <2>0, <3>1, <4>1 DEF Lease
      <4>. QED
        BY <3>2, <4>1, <4>2 DEF Leases!vars
    <3>. QED
      BY <3>3, <3>4
  <2>3. CASE Stop \/ Exit \/ UNCHANGED vars
    BY <2>3 DEF Stop, Exit, vars, table, Leases!vars, Retrieve, Expired
  <2>4. CASE Cleanup
    <3>1. \A t \in Token : Lease(cursors'[t]) = Lease(cursors[t])
      BY <2>4, SweepKeepsLease DEF Cleanup, TypeOK
    <3>2. lease' = lease
      BY <2>0, <3>1
    <3>. QED
      BY <2>4, <3>2 DEF Cleanup, Leases!vars
  <2>5. CASE Elapse
    <3>1. \A t \in Token : Lease(cursors'[t]) = Leases!Older(Lease(cursors[t]))
      BY <2>5, AgedIsOlder DEF Elapse, TypeOK
    <3>2. lease' = [t \in Token |-> Leases!Older(lease[t])]
      BY <2>0, <3>1
    <3>3. Leases!Elapse
      BY <2>5, <3>2 DEF Elapse, Leases!Elapse
    <3>. QED
      BY <3>3 DEF Leases!Next
  <2>. QED
    BY <2>1, <2>2, <2>3, <2>4, <2>5 DEF Next
<1>. QED
  BY <1>1, <1>2, StoreTypeCorrect, PTL DEF Spec, KeepsLeases, Leases!Spec
=============================================================================
