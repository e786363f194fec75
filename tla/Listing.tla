------------------------------ MODULE Listing ------------------------------
(***************************************************************************)
(* What following next links promises a client, with no word of cursors:   *)
(* pages of granules not listed before, newest second first, and an end    *)
(* only when everything that was there from first to last has been listed. *)
(***************************************************************************)
EXTENDS Integers, FiniteSets

CONSTANTS Item,     \* the granules that can exist
          When,     \* [Item -> Nat]: the time an item is listed under
          MaxPage   \* no page is larger

VARIABLES steady,     \* matching granules present since the walk began
          delivered,  \* granules the client has been given
          open        \* the client still holds a next link

vars == <<steady, delivered, open>>

Init == /\ steady \in SUBSET Item
        /\ delivered = {}
        /\ open = TRUE

\* The archive may withdraw granules.  What it adds meanwhile is not promised.
Withdraw == /\ steady' \in SUBSET steady
            /\ UNCHANGED <<delivered, open>>

Serve(P) == /\ open
            /\ P # {}
            /\ P \cap delivered = {}
            /\ Cardinality(P) <= MaxPage
            /\ \A p \in P, d \in delivered : When[p] <= When[d]
            /\ delivered' = delivered \cup P
            /\ open' \in BOOLEAN
            /\ ~open' => steady \subseteq delivered'
            /\ UNCHANGED steady

\* The last page may be empty.
Close == /\ open
         /\ steady \subseteq delivered
         /\ open' = FALSE
         /\ UNCHANGED <<steady, delivered>>

Next == Withdraw \/ Close \/ \E P \in SUBSET Item : Serve(P)

Spec == Init /\ [][Next]_vars
=============================================================================
