---------------------------- MODULE MCSettlement ----------------------------
(***************************************************************************)
(* Instances of Settlement for TLC.                                        *)
(***************************************************************************)
EXTENDS Settlement, TLC

CONSTANTS r1, r2, w1, w2, q1, q2, t1, t2

Carry(p1, p2) == (r1 :> p1) @@ (r2 :> p2)

\* A retry; a quote offered two transactions; a transaction offered for two
\* quotes.  Payments that share neither do not interact.
MCContended == {Carry(<<q1, t1>>, <<q1, t1>>), Carry(<<q1, t1>>, <<q1, t2>>),
                Carry(<<q1, t1>>, <<q2, t1>>)}

\* The same without a second transaction.
MCOneTx == {Carry(<<q1, t1>>, <<q1, t1>>), Carry(<<q1, t1>>, <<q2, t1>>)}

\* One payment, retried.
MCRetry == {Carry(<<q1, t1>>, <<q1, t1>>)}

\* One payment, sent once.
MCSingle == {r1 :> <<q1, t1>>}

MCSymmetry == Permutations({w1, w2})
=============================================================================
