--------------------------- MODULE MCEvidenceStore ---------------------------
(***************************************************************************)
(* An instance of EvidenceStore for TLC: two puts of one record and one of *)
(* another, which fit the limits only with the smaller envelope; a         *)
(* get; two processes, each of which may serve calls and maintenance.      *)
(***************************************************************************)
EXTENDS EvidenceStore, TLC

CONSTANTS r1, r2, p1, p2, p3, g1, s1, s2, k1, k2, j1

MCHost == p1 :> s1 @@ p2 :> s1 @@ p3 :> s2 @@ g1 :> s1
MCSubject == p1 :> r1 @@ p2 :> r1 @@ p3 :> r2 @@ g1 :> r1
MCJobOf == [r \in Records |-> j1]
MCLives == [r \in Records |-> IF r = r1 THEN 2 ELSE 1]
MCSize == [r \in Records |-> 1]
MCEnvelope == [r \in Records, k \in Keys |-> IF k = k1 THEN 2 ELSE 3]
=============================================================================
