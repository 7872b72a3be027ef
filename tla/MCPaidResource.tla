--------------------------- MODULE MCPaidResource ---------------------------
(***************************************************************************)
(* An instance of PaidResource for TLC: two retries through the x402       *)
(* resource and one call through the MPP resource, whose body differs, for *)
(* one settlement; a server of the same merchant that uses the ledger      *)
(* directly; and one of another merchant.                                  *)
(***************************************************************************)
EXTENDS PaidResource, TLC

CONSTANTS c1, c2, c3, c4, c5, s1, m1, m2, x402Body, mppBody

MCCaller == [c \in Calls |-> IF c = c5 THEN m2 ELSE m1]
MCSubject == [c \in Calls |-> s1]
MCBody == [c \in Calls |-> IF c = c3 THEN mppBody ELSE x402Body]
MCOwner == [s \in Settlements |-> m1]
MCSymmetry == Permutations({c1, c2})
=============================================================================
