-------------------------- MODULE MCEvidenceAccess --------------------------
(***************************************************************************)
(* An instance of EvidenceAccess for TLC: the provider writes, twice, and *)
(* the evaluator reads.  b2 and b3 follow b1; the work is submitted in b2, *)
(* in b3 the escrow is paid out instead.                                   *)
(***************************************************************************)
EXTENDS EvidenceAccess, TLC

CONSTANTS b1, b2, b3, alice, bob, carol, c1, c2, c3

MCChain == b1 :> {b1} @@ b2 :> {b1, b2} @@ b3 :> {b1, b3}
JobAt(s) == [client |-> alice, provider |-> bob, evaluator |-> carol, status |-> s]
MCJob == b1 :> JobAt(1) @@ b2 :> JobAt(2) @@ b3 :> JobAt(1)
MCEscrow == b1 :> 1 @@ b2 :> 1 @@ b3 :> 0
MCActor == c1 :> bob @@ c2 :> carol @@ c3 :> bob
MCOperation == c1 :> "prepare" @@ c2 :> "download" @@ c3 :> "prepare"
MCLimit == [o \in Operations |-> 1]
MCProvider == [c \in Requests |-> bob]
=============================================================================
