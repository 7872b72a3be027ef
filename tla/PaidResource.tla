---------------------------- MODULE PaidResource ----------------------------
(***************************************************************************)
(* The paid resource servers and the delivery ledger they share.  A call   *)
(* of a buyer reads the settlement, claims its delivery and records the    *)
(* digest of the body it is about to return; the body is released only     *)
(* after that.  Between server and facilitator, requests and responses may *)
(* be lost, and a request may be handled after its sender has given up.    *)
(*                                                                         *)
(* Other merchants' servers use the same ledger without the service of     *)
(* this repository: their calls go to it directly, in any order.           *)
(***************************************************************************)
EXTENDS Naturals

CONSTANTS
  Calls,        \* handler invocations at resource servers
  Settlements,
  Merchants,
  Digests,      \* SHA-256 digests of response bodies
  Caller,       \* call -> merchant whose credential it carries
  Subject,      \* call -> settlement it names
  Body,         \* call -> digest of the body it would return
  Direct,       \* calls that use the ledger without the paid resource service
  Owner,        \* settlement -> merchant of its quote
  None

ASSUME PaidResourceAssumption ==
  /\ Caller \in [Calls -> Merchants]
  /\ Subject \in [Calls -> Settlements]
  /\ Body \in [Calls -> Digests]
  /\ Direct \subseteq Calls
  /\ Owner \in [Settlements -> Merchants]
  /\ None \notin Digests

VARIABLES
  settlement, \* settlement -> status, as far as delivery depends on it
  delivery,   \* settlement -> deliveries.status, "none" without a row
  digest,     \* settlement -> deliveries.response_digest
  attempts,   \* settlement -> deliveries.attempt_count
  pc,         \* call -> where its handler stands
  wire        \* call -> request of it on its way to the facilitator

ledgerVars == <<settlement, delivery, digest, attempts>>
vars == <<ledgerVars, pc, wire>>

Init ==
  /\ settlement = [s \in Settlements |-> "active"]
  /\ delivery   = [s \in Settlements |-> "none"]
  /\ digest     = [s \in Settlements |-> None]
  /\ attempts   = [s \in Settlements |-> 0]
  /\ pc   = [c \in Calls |-> "idle"]
  /\ wire = [c \in Calls |-> "none"]

-----------------------------------------------------------------------------
(* Settlement outcomes, as the reconciliation worker commits them: the     *)
(* delivery row comes with the confirmation.                               *)

ConfirmSettlement(s) ==
  /\ settlement[s] = "active"
  /\ settlement' = [settlement EXCEPT ![s] = "confirmed"]
  /\ delivery'   = [delivery EXCEPT ![s] = "delivery_pending"]
  /\ UNCHANGED <<digest, attempts, pc, wire>>

\* Mutant: the delivery is marked failed as well.
FailDeliveryToo(s) ==
  /\ settlement[s] = "active"
  /\ settlement' = [settlement EXCEPT ![s] = "failed"]
  /\ delivery'   = [delivery EXCEPT ![s] = "failed"]
  /\ UNCHANGED <<digest, attempts, pc, wire>>

FailSettlement(s) ==
  /\ settlement[s] = "active"
  /\ settlement' = [settlement EXCEPT ![s] = "failed"]
  /\ UNCHANGED <<delivery, digest, attempts, pc, wire>>

-----------------------------------------------------------------------------
(* The resource server.                                                    *)

\* The rows a merchant's credential selects.
Visible(c) == Owner[Subject[c]] = Caller[c]

Send(c, request) ==
  /\ wire' = [wire EXCEPT ![c] = request]
  /\ pc' = [pc EXCEPT ![c] = request]

(* submit and retrieve up to normalizeSettlement: the settlement comes     *)
(* from a settle call or a status call.  Confirmed, the delivery is        *)
(* claimed; failed or dropped is an error, anything else is answered as    *)
(* pending; a settlement that is not found, and a facilitator that does    *)
(* not answer, are errors.                                                 *)
NormalizeSettlement(c) ==
  /\ c \notin Direct
  /\ pc[c] = "idle"
  /\ \/ /\ Visible(c) /\ settlement[Subject[c]] = "confirmed"
        /\ Send(c, "claim")
     \/ /\ Visible(c) /\ settlement[Subject[c]] = "active"
        /\ pc' = [pc EXCEPT ![c] = "pending"]
        /\ UNCHANGED wire
     \/ /\ pc' = [pc EXCEPT ![c] = "error"]
        /\ UNCHANGED wire
  /\ UNCHANGED ledgerVars

(* A server of another make turns to the ledger at once.                   *)
CallLedger(c) ==
  /\ c \in Direct
  /\ pc[c] = "idle"
  /\ \E request \in {"claim", "complete"} : Send(c, request)
  /\ UNCHANGED ledgerVars

(* The facilitator's answer reaches a caller that still waits for it: the  *)
(* handler goes on to "complete" or "released", or it ends with the code   *)
(* it was told.  A transaction whose COMMIT breaks off is answered with an *)
(* error, whether it took effect or not.  An answer may be lost, and       *)
(* nobody reads that of an abandoned request.                              *)
Respond(c, answer) ==
  \/ /\ pc[c] = wire[c]
     /\ \E told \in {answer, "error"} :
          /\ pc' = [pc EXCEPT ![c] = told]
          /\ wire' = [wire EXCEPT ![c] = IF told = "complete" THEN told ELSE "none"]
  \/ /\ wire' = [wire EXCEPT ![c] = "none"]
     /\ UNCHANGED pc

(* AbortSignal.timeout in the facilitator client, or a crash of the        *)
(* server: the handler ends, its request may still arrive.                 *)
GiveUp(c) ==
  /\ pc[c] \in {"claim", "complete"}
  /\ pc' = [pc EXCEPT ![c] = "error"]
  /\ UNCHANGED <<ledgerVars, wire>>

LoseRequest(c) ==
  /\ wire[c] # "none"
  /\ wire' = [wire EXCEPT ![c] = "none"]
  /\ UNCHANGED <<ledgerVars, pc>>

-----------------------------------------------------------------------------
(* The facilitator: each handler is one transaction under the row lock of  *)
(* the delivery.                                                           *)

\* Mutant: every claim is an attempt.
StartableAgain(s) == delivery[s] \in {"delivery_pending", "delivering"}

Startable(s) == delivery[s] = "delivery_pending"

\* Mutant: the service does not look at the status of what it claimed.
StartedOrExpired(s) == delivery[s] \in {"delivering", "delivered", "expired"}

Started(s) == delivery[s] \in {"delivering", "delivered"}

(* claimDelivery: a first claim starts the delivery, or finds that         *)
(* retry_expires_at is past and records the expiry; later claims of a      *)
(* delivery that was started return it as it is.  Whether the first claim  *)
(* is in time depends on the clock, here a free choice.                    *)
ClaimDelivery(c) ==
  LET s == Subject[c] IN
  /\ wire[c] = "claim"
  /\ \/ /\ Visible(c) /\ Startable(s)
        /\ delivery' = [delivery EXCEPT ![s] = "expired"]
        /\ UNCHANGED attempts
        /\ Respond(c, "expired")
     \/ /\ Visible(c) /\ Startable(s)
        /\ delivery' = [delivery EXCEPT ![s] = "delivering"]
        /\ attempts' = [attempts EXCEPT ![s] = @ + 1]
        /\ Respond(c, "complete")
     \/ /\ Visible(c) /\ Started(s)
        /\ UNCHANGED <<delivery, attempts>>
        /\ Respond(c, "complete")
     \/ /\ ~Visible(c) \/ ~(Startable(s) \/ Started(s))
        /\ UNCHANGED <<delivery, attempts>>
        /\ Respond(c, IF Visible(c) /\ delivery[s] = "expired"
                        THEN "expired" ELSE "not_found")
  /\ UNCHANGED <<settlement, digest>>

\* Mutant: a repeated completion is not compared with the first.
AnyDigest(c) == TRUE

SameDigest(c) == digest[Subject[c]] = Body[c]

\* Mutant: whatever has a row can be completed.
CompletableUnclaimed(s) == delivery[s] \notin {"none", "delivered"}

Completable(s) == delivery[s] = "delivering"

(* completeDelivery: the first digest is recorded, the same one again is   *)
(* fine, another one conflicts, and a delivery nobody claimed is refused.  *)
CompleteDelivery(c) ==
  LET s == Subject[c] IN
  /\ wire[c] = "complete"
  /\ \/ /\ Visible(c) /\ delivery[s] = "delivered"
        /\ UNCHANGED <<delivery, digest>>
        /\ Respond(c, IF SameDigest(c) THEN "released" ELSE "conflict")
     \/ /\ Visible(c) /\ Completable(s)
        /\ delivery' = [delivery EXCEPT ![s] = "delivered"]
        /\ digest'   = [digest EXCEPT ![s] = Body[c]]
        /\ Respond(c, "released")
     \/ /\ ~Visible(c) \/ ~(delivery[s] = "delivered" \/ Completable(s))
        /\ UNCHANGED <<delivery, digest>>
        /\ Respond(c, IF Visible(c) /\ delivery[s] # "none"
                        THEN "not_claimed" ELSE "not_found")
  /\ UNCHANGED <<settlement, attempts>>

(* Both authenticate first: the credential may be refused (401, 403), the  *)
(* merchant's rate be spent (429), or the database fail; nothing is read   *)
(* or written then, whatever the delivery is.                              *)
RefuseCall(c) ==
  /\ wire[c] # "none"
  /\ Respond(c, "error")
  /\ UNCHANGED ledgerVars

Facilitator(c) == RefuseCall(c) \/ ClaimDelivery(c) \/ CompleteDelivery(c)

Next ==
  \/ \E s \in Settlements : ConfirmSettlement(s) \/ FailSettlement(s)
  \/ \E c \in Calls :
       \/ NormalizeSettlement(c) \/ CallLedger(c)
       \/ GiveUp(c) \/ LoseRequest(c)
       \/ Facilitator(c)

Spec == Init /\ [][Next]_vars

-----------------------------------------------------------------------------
(* Properties.                                                             *)

\* Where a handler can stand, and the codes by which the ledger refuses one.
Refusals == {"not_found", "expired", "not_claimed", "conflict"}
Steps == {"idle", "pending", "claim", "complete", "released", "error"} \union Refusals

TypeOK ==
  /\ settlement \in [Settlements -> {"active", "confirmed", "failed"}]
  /\ delivery \in [Settlements -> {"none", "delivery_pending", "delivering",
                                   "delivered", "expired"}]
  /\ digest \in [Settlements -> Digests \union {None}]
  /\ attempts \in [Settlements -> Nat]
  /\ pc \in [Calls -> Steps]
  /\ wire \in [Calls -> {"none", "claim", "complete"}]

(* A body leaves a server only for a confirmed settlement of its own       *)
(* merchant, and only the one whose digest the ledger holds: timeouts,     *)
(* lost answers and late requests never release an unrecorded body.        *)
ReleaseIsRecorded ==
  \A c \in Calls : pc[c] = "released" =>
    /\ settlement[Subject[c]] = "confirmed"
    /\ Visible(c)
    /\ delivery[Subject[c]] = "delivered"
    /\ digest[Subject[c]] = Body[c]

(* However many calls claim a delivery and retry it, it was started once,  *)
(* and is complete only if it was started.                                 *)
StartedOnce ==
  \A s \in Settlements :
    attempts[s] = IF delivery[s] \in {"delivering", "delivered"} THEN 1 ELSE 0

(* A delivery that was started can only be completed, it does not expire   *)
(* under a slow server; a completed one keeps its first digest; an expired *)
(* one is not revived by a claim that was sent before.                     *)
DeliveryLifecycle ==
  [][\A s \in Settlements :
       /\ delivery[s] = "delivering" => delivery'[s] \in {"delivering", "delivered"}
       /\ delivery[s] = "delivered" =>
            delivery'[s] = "delivered" /\ digest'[s] = digest[s]
       /\ delivery[s] = "expired" => delivery'[s] = "expired"]_vars

(* What the ledger may tell a handler of this repository, which read a     *)
(* confirmed settlement: its claim, only that the delivery had expired     *)
(* before anyone started it; its completion, only that another body was    *)
(* recorded.  However its calls were lost, late, limited or repeated, a    *)
(* retry with the same body is never told delivery_not_claimed or an       *)
(* expiry, and the ledger is unchanged by a call that it refuses, but for  *)
(* the expiry a first claim finds.                                         *)
RefusedOnlyOnConflict ==
  [][\A c \in Calls \ Direct :
       (pc'[c] # pc[c] /\ pc'[c] \in Refusals) =>
         \/ /\ pc[c] = "claim" /\ pc'[c] = "expired"
            /\ delivery'[Subject[c]] = "expired" /\ attempts'[Subject[c]] = 0
         \/ /\ pc[c] = "complete" /\ pc'[c] = "conflict"
            /\ digest[Subject[c]] \notin {None, Body[c]}
            /\ UNCHANGED ledgerVars]_vars
=============================================================================
