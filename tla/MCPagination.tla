---------------------------- MODULE MCPagination ----------------------------
(* Instances of Pagination.  Two ticks make a second. *)
EXTENDS Pagination, TLC

CONSTANTS a, b, c, d, e

\* Whole seconds: three granules of one second, one older and one newer.
WholeStart == (a :> 4) @@ (b :> 2) @@ (c :> 2) @@ (d :> 2) @@ (e :> 0)

\* Fractions of a second, as upstream catalogues hold them: two granules of one
\* second, three of the second before.
FineStart == (a :> 5) @@ (b :> 4) @@ (c :> 3) @@ (d :> 3) @@ (e :> 2)

\* Another sortable field, unrelated to time.
Frames == (a :> 1) @@ (b :> 3) @@ (c :> 2) @@ (d :> 1) @@ (e :> 3)

\* No bound, one at a granule's own second, and one inside a second.
SomeEnds == {NoTime, 4, 3}
=============================================================================
