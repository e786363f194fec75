--------------------------- MODULE MCPagedService ---------------------------
(* Four granules, two of them of one second.  A page of two cuts that       *)
(* second either way, so the stored cursors of two clients differ.          *)
EXTENDS PagedService, TLC

CONSTANTS a, b, c, d

Starts == (a :> 2) @@ (b :> 1) @@ (c :> 1) @@ (d :> 0)

\* With fractions of a second, of two ticks: the same seconds.
FineStarts == (a :> 5) @@ (b :> 3) @@ (c :> 2) @@ (d :> 1)

\* The granules of one second, the clients and the tokens.
Interchangeable ==
  Permutations({b, c}) \cup Permutations(Client) \cup Permutations(Token)

\* The hypothesis of WalksLoseNone, which includes those of WalksNeverRepeat.
ASSUME RegularInstance == Regular
=============================================================================
