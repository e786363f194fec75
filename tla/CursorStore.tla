---------------------------- MODULE CursorStore ----------------------------
(***************************************************************************)
(* MemoryCursorStore (internal/stac/cursorstore.go): the map of cursors    *)
(* behind "ref:" links, and the goroutine that clears it.                  *)
(*                                                                         *)
(* Every method holds the mutex for the whole of its body, so each is one  *)
(* action.  What interleaves is the goroutine's select, the ticker that    *)
(* feeds it, Stop, and time.  Time is kept relative: "left" is expiresAt   *)
(* minus now, so now.After(expiresAt) is left < 0; an expired entry stays  *)
(* at -1, for nothing distinguishes one expired instant from another.      *)
(***************************************************************************)
EXTENDS Integers

CONSTANTS Token,     \* the tokens generateToken can return
          Cursor,    \* the cursors handlers store
          TTL,       \* ttl, in clock units
          Interval,  \* cleanupInterval, in clock units
          Absent     \* a key the map does not hold

Entry == [cursor : Cursor, left : -1 .. TTL]

ASSUME StoreAssumption == /\ TTL \in Nat \ {0}
                          /\ Interval \in Nat \ {0}
                          /\ Absent \notin Entry
                          /\ Absent \notin Cursor

VARIABLES
  cursors,    \* the map: [Token -> an entry or Absent]
  issued,     \* history: tokens Store has returned
  deleted,    \* history: those of them Delete was called with
  untilTick,  \* time to the ticker's next tick
  ticked,     \* a tick waits in ticker.C, whose buffer holds one
  stopped,    \* stopChan is closed
  loop        \* the goroutine: "select" or "exited"

table == <<cursors, issued, deleted>>
ticker == <<untilTick, ticked>>
vars == <<cursors, issued, deleted, untilTick, ticked, stopped, loop>>

\* NewMemoryCursorStore
Init == /\ cursors = [t \in Token |-> Absent]
        /\ issued = {}
        /\ deleted = {}
        /\ untilTick = Interval
        /\ ticked = FALSE
        /\ stopped = FALSE
        /\ loop = "select"

Expired(entry) == entry.left < 0

\* Mutant: a token may come up again.
AnyToken == Token

\* 128 random bits: a token is taken never to come up twice.
FreshTokens == Token \ issued

\* A failing generateToken returns before the map is touched.
Store(t, c) ==
  /\ t \in FreshTokens
  /\ cursors' = [cursors EXCEPT ![t] = [cursor |-> c, left |-> TTL]]
  /\ issued' = issued \cup {t}
  /\ UNCHANGED <<deleted, ticker, stopped, loop>>

\* What Retrieve returns; it changes nothing.
Retrieve(t) == IF cursors[t] = Absent THEN "not found"
               ELSE IF Expired(cursors[t]) THEN "expired"
               ELSE "ok"

\* Of a token that is not in the map it changes nothing.
Delete(t) == /\ cursors' = [cursors EXCEPT ![t] = Absent]
             /\ deleted' = deleted \cup ({t} \cap issued)
             /\ UNCHANGED <<issued, ticker, stopped, loop>>

\* close(stopChan).  A second call would panic; every owner calls it once.
Stop == /\ ~stopped
        /\ stopped' = TRUE
        /\ UNCHANGED <<table, ticker, loop>>

-----------------------------------------------------------------------------
(* The goroutine. *)

\* Mutant: an entry is swept at its expiry instead of after it.
SweepEarly(entry) == IF entry # Absent /\ entry.left <= 0 THEN Absent ELSE entry

\* Mutant: so is one that would expire before the next tick.
SweepAhead(entry) == IF entry # Absent /\ entry.left < Interval THEN Absent ELSE entry

\* The entries cleanup deletes.
Sweep(entry) == IF entry # Absent /\ Expired(entry) THEN Absent ELSE entry

\* Mutant: the goroutine returns after its first cleanup.
CleanupOnce == /\ loop = "select"
               /\ ticked
               /\ ticked' = FALSE
               /\ cursors' = [t \in Token |-> Sweep(cursors[t])]
               /\ loop' = "exited"
               /\ UNCHANGED <<issued, deleted, untilTick, stopped>>

\* case <-ticker.C
Cleanup == /\ loop = "select"
           /\ ticked
           /\ ticked' = FALSE
           /\ cursors' = [t \in Token |-> Sweep(cursors[t])]
           /\ UNCHANGED <<issued, deleted, untilTick, stopped, loop>>

\* Mutants: the goroutine leaves by itself; stopChan is looked at only when no
\* tick is pending and the last one is due.
ExitUnasked == /\ loop = "select"
               /\ loop' = "exited"
               /\ UNCHANGED <<table, ticker, stopped>>
ExitBetweenTicks == /\ loop = "select"
                    /\ stopped
                    /\ ~ticked
                    /\ untilTick = Interval
                    /\ loop' = "exited"
                    /\ UNCHANGED <<table, ticker, stopped>>

\* case <-s.stopChan, with the deferred ticker.Stop
Exit == /\ loop = "select"
        /\ stopped
        /\ loop' = "exited"
        /\ UNCHANGED <<table, ticker, stopped>>

-----------------------------------------------------------------------------
(* Time. *)

Aged(entry) == IF entry = Absent \/ Expired(entry) THEN entry
               ELSE [entry EXCEPT !.left = @ - 1]

\* A tick that finds the channel full is dropped.
Elapse == /\ cursors' = [t \in Token |-> Aged(cursors[t])]
          /\ IF loop = "exited"
             THEN UNCHANGED ticker
             ELSE /\ untilTick' = IF untilTick = 1 THEN Interval ELSE untilTick - 1
                  /\ ticked' = (ticked \/ untilTick = 1)
          /\ UNCHANGED <<issued, deleted, stopped, loop>>

Next == \/ \E t \in Token : Delete(t) \/ \E c \in Cursor : Store(t, c)
        \/ Stop \/ Cleanup \/ Exit \/ Elapse

\* The clock advances and the goroutine is scheduled; select picks a ready case
\* at random, so neither case is passed over for ever.
Fairness == WF_vars(Elapse) /\ WF_vars(Cleanup) /\ WF_vars(Exit)

Spec == Init /\ [][Next]_vars
FairSpec == Spec /\ Fairness

-----------------------------------------------------------------------------
\* Every variable has its type, the map holds issued tokens only and none that
\* was deleted, and the goroutine leaves only after Stop.
TypeOK == /\ cursors \in [Token -> Entry \cup {Absent}]
          /\ issued \subseteq Token
          /\ deleted \subseteq issued
          /\ \A t \in Token : cursors[t] # Absent => t \in issued \ deleted
          /\ untilTick \in 1 .. Interval
          /\ ticked \in BOOLEAN
          /\ stopped \in BOOLEAN
          /\ loop \in {"select", "exited"}
          /\ loop = "exited" => stopped

\* A token that is not deleted stands for its cursor until exactly its expiry,
\* cleanup or no cleanup, and for nothing afterwards (Retrieve and cleanup both
\* test now.After(expiresAt)): time and Delete end a lease, and nothing else.
\* The lease of a token is what Retrieve makes of it.
Leases == INSTANCE CursorLease WITH
  lease <- [t \in Token |-> IF Retrieve(t) = "ok" THEN cursors[t] ELSE Absent],
  granted <- issued,
  revoked <- deleted
KeepsLeases == Leases!Spec

\* An expired entry does not stay in memory: the goroutine deletes it, as long
\* as the store is not stopped.
ExpiredAreSwept ==
  \A t \in Token : (cursors[t] # Absent /\ cursors[t].left < 0)
                     ~> (cursors[t] = Absent \/ stopped)

\* Stop ends the goroutine, whatever ticks are pending.
StopEndsLoop == stopped ~> loop = "exited"
=============================================================================
