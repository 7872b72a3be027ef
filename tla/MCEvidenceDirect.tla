-------------------------- MODULE MCEvidenceDirect --------------------------
(***************************************************************************)
(* An instance of EvidenceDirect for TLC: two prepares for one job, which  *)
(* fit its quota of objects but not of bytes together; two completes and a *)
(* download of the first record; one cleanup.                              *)
(***************************************************************************)
EXTENDS EvidenceDirect, TLC

CONSTANTS r1, r2, c1, c2, d1, k1, j1

MCJobOf == [r \in Records |-> j1]
MCSize == [r \in Records |-> IF r = r1 THEN 1 ELSE 2]
MCSubject == [c \in Calls |-> r1]
MCRank == [r \in Records |-> IF r = r1 THEN 1 ELSE 2]
MCMaxUploads == [r \in Records |-> IF r = r1 THEN 2 ELSE 0]
=============================================================================
