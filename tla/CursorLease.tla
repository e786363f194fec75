---------------------------- MODULE CursorLease ----------------------------
(***************************************************************************)
(* What the service relies on when it hands out a token for a cursor: the  *)
(* token stands for that cursor for the whole lifetime, or until whoever   *)
(* holds it gives it back, for nothing at any other time, and no token is  *)
(* handed out twice.                                                       *)
(***************************************************************************)
EXTENDS Integers

CONSTANTS Token, Cursor,
          TTL,      \* lifetime of a lease, in clock units
          Absent    \* no lease

VARIABLES lease,    \* what each token stands for: [Token -> a lease or Absent]
          granted,  \* tokens handed out so far
          revoked   \* those given back

vars == <<lease, granted, revoked>>

Init == /\ lease = [t \in Token |-> Absent]
        /\ granted = {}
        /\ revoked = {}

Grant(t, c) == /\ t \notin granted
               /\ granted' = granted \cup {t}
               /\ lease' = [lease EXCEPT ![t] = [cursor |-> c, left |-> TTL]]
               /\ UNCHANGED revoked

\* A unit of time goes by.  A lease with nothing left has ended.
Older(l) == IF l = Absent \/ l.left = 0 THEN Absent
            ELSE [l EXCEPT !.left = @ - 1]

Elapse == /\ lease' = [t \in Token |-> Older(lease[t])]
          /\ UNCHANGED <<granted, revoked>>

\* A lease ends before its time only for who gives its token back.
Revoke(t) == /\ t \in granted \ revoked
             /\ revoked' = revoked \cup {t}
             /\ lease' = [lease EXCEPT ![t] = Absent]
             /\ UNCHANGED granted

Next == \/ \E t \in Token : Revoke(t) \/ \E c \in Cursor : Grant(t, c)
        \/ Elapse

Spec == Init /\ [][Next]_vars
=============================================================================
