--------------------------- MODULE MCPartnerOAuth ---------------------------
(***************************************************************************)
(* An instance of PartnerOAuth for TLC: one merchant with one invitation   *)
(* for one of two scopes; a challenge for each of two wallets; two         *)
(* registrations, which may name and sign either; a token, a request, and  *)
(* two API keys.                                                           *)
(***************************************************************************)
EXTENDS PartnerOAuth, TLC

CONSTANTS m1, i1, k1, k2, g1, g2, t1, a1, w1, w2, read, settle, old, new

MCInviter == [i \in Invitations |-> m1]
MCGranted == [i \in Invitations |-> {read}]
MCPresents == [k \in Challenges |-> i1]
MCForWallet == k1 :> w1 @@ k2 :> w2
MCAsClient == [t \in Tokens |-> g1]
MCFirstKey == [m \in Merchants |-> old]
=============================================================================
