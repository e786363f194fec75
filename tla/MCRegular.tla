----------------------------- MODULE MCRegular -----------------------------
(* The instances that meet the hypothesis of the theorems NeverSkips and   *)
(* ImplementsListing: TLC evaluates it before each run of this module.     *)
EXTENDS MCPagination

ASSUME RegularInstance == Regular
=============================================================================
