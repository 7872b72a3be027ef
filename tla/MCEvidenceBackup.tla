-------------------------- MODULE MCEvidenceBackup --------------------------
(***************************************************************************)
(* An instance of EvidenceBackup for TLC: one record, uploaded, completed, *)
(* lost twice; two passes that may overlap, two recoveries, both           *)
(* retentions.                                                             *)
(***************************************************************************)
EXTENDS EvidenceBackup, TLC

CONSTANTS r1, c1, k1, j1, p1, p2, q1, q2, t1

MCJobOf == [r \in Records |-> j1]
MCSize == [r \in Records |-> 1]
MCSubject == [c \in Calls |-> r1]
MCRank == [r \in Records |-> 1]
MCMaxUploads == [r \in Records |-> 1]
MCRecoveryOf == [q \in Recoveries |-> r1]
\* The last check of a complete call reads and writes nothing that the backup
\* does: it is taken at once, to save interleavings.
MCAnswersAtOnce == \A c \in Calls : pc[c] = "confirm" => pc'[c] # "confirm"
MCSymmetry == Permutations({p1, p2}) \union Permutations({q1, q2})
=============================================================================
