---------------------------- MODULE MCQuoteIssue ----------------------------
(***************************************************************************)
(* An instance of QuoteIssue for TLC: four requests of one merchant, as    *)
(* many as could pass the bound of a window that admits two, and one tool  *)
(* call of another.  The first merchant's other policies are one without   *)
(* the route and one whose quotes would live too long.                     *)
(***************************************************************************)
EXTENDS QuoteIssue, TLC

CONSTANTS r1, r2, r3, r4, r5, shop, agent, open, bare, long

MCClientOf == [r \in Requests |-> IF r = r5 THEN agent ELSE shop]
MCFirstPolicy == [m \in Merchants |-> open]
MCServes == open :> Requests @@ bare :> {} @@ long :> Requests
MCTtl == open :> 2 @@ bare :> 1 @@ long :> 3
Symmetry == Permutations({r1, r2, r3, r4})
=============================================================================
