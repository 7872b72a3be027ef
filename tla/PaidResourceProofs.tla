------------------------- MODULE PaidResourceProofs -------------------------
(***************************************************************************)
(* Proofs about PaidResource, for any number of calls, settlements,        *)
(* merchants and bodies.                                                   *)
(***************************************************************************)
EXTENDS PaidResource, TLAPS

\* A delivery exists for exactly the confirmed settlements; a digest for
\* exactly the completed ones.
DeliveryRows ==
  \A s \in Settlements :
    /\ delivery[s] = "none" <=> settlement[s] # "confirmed"
    /\ delivery[s] = "delivered" <=> digest[s] # None

\* A handler of the paid resource service claims only what it may see and has
\* found confirmed, and completes only what it has found started; its own
\* claim is no longer under way then.
ClaimedFirst ==
  \A c \in Calls \ Direct :
    /\ wire[c] # "none" => pc[c] # "idle"
    /\ pc[c] = "claim" => Visible(c) /\ settlement[Subject[c]] = "confirmed"
                           /\ wire[c] # "complete"
    /\ pc[c] = "complete" => Visible(c) /\ Started(Subject[c]) /\ wire[c] # "claim"

IInv == TypeOK /\ DeliveryRows /\ ClaimedFirst /\ StartedOnce /\ ReleaseIsRecorded

LEMMA InitInv == Init => IInv
  BY PaidResourceAssumption
  DEF Init, IInv, TypeOK, DeliveryRows, ClaimedFirst, StartedOnce, ReleaseIsRecorded, Steps

\* Settlement outcomes touch only what has no delivery yet.
LEMMA SettleInv ==
  ASSUME IInv, NEW s \in Settlements, ConfirmSettlement(s) \/ FailSettlement(s)
  PROVE  IInv'
<1>0. /\ UNCHANGED <<digest, attempts, pc, wire>>
      /\ settlement[s] = "active" /\ delivery[s] = "none"
  BY DEF ConfirmSettlement, FailSettlement, IInv, DeliveryRows
<1>1. TypeOK'
  BY DEF ConfirmSettlement, FailSettlement, IInv, TypeOK
<1>2. DeliveryRows' /\ StartedOnce'
  BY <1>0 DEF ConfirmSettlement, FailSettlement, IInv, TypeOK, DeliveryRows, StartedOnce
<1>3. ClaimedFirst'
  BY <1>0, PaidResourceAssumption
  DEF ConfirmSettlement, FailSettlement, IInv, TypeOK, ClaimedFirst, Visible, Started
<1>4. ReleaseIsRecorded'
  BY <1>0, PaidResourceAssumption
  DEF ConfirmSettlement, FailSettlement, IInv, TypeOK, ReleaseIsRecorded, Visible
<1> QED
  BY <1>1, <1>2, <1>3, <1>4 DEF IInv

\* Steps of a handler and of the network leave the ledger alone.
LEMMA HandlerInv ==
  ASSUME IInv, NEW c \in Calls,
         NormalizeSettlement(c) \/ CallLedger(c) \/ GiveUp(c) \/ LoseRequest(c)
  PROVE  IInv'
<1>0. UNCHANGED ledgerVars
  BY DEF NormalizeSettlement, CallLedger, GiveUp, LoseRequest
<1>1. TypeOK'
  BY DEF NormalizeSettlement, CallLedger, GiveUp, LoseRequest, Send, ledgerVars, IInv, TypeOK, Steps
<1>2. DeliveryRows' /\ StartedOnce'
  BY <1>0 DEF ledgerVars, IInv, DeliveryRows, StartedOnce
<1>3. ClaimedFirst'
  BY <1>0 DEF NormalizeSettlement, CallLedger, GiveUp, LoseRequest, Send, ledgerVars,
       IInv, TypeOK, ClaimedFirst, Visible, Started
<1>4. ReleaseIsRecorded'
  BY <1>0 DEF NormalizeSettlement, CallLedger, GiveUp, LoseRequest, Send, ledgerVars,
       IInv, TypeOK, ReleaseIsRecorded, Visible
<1> QED
  BY <1>1, <1>2, <1>3, <1>4 DEF IInv

\* What an answer does to the handler that waits for it, or to the wire alone.
LEMMA RespondEffect ==
  ASSUME TypeOK, NEW c \in Calls, NEW answer \in Steps, wire[c] \in {"claim", "complete"},
         Respond(c, answer)
  PROVE  /\ \A d \in Calls \ {c} : pc'[d] = pc[d] /\ wire'[d] = wire[d]
         /\ pc' \in [Calls -> Steps]
         /\ wire' \in [Calls -> {"none", "claim", "complete"}]
         /\ \/ pc'[c] = pc[c] /\ wire'[c] = "none"
            \/ pc[c] = wire[c] /\ pc'[c] = "error" /\ wire'[c] = "none"
            \/ /\ pc[c] = wire[c] /\ pc'[c] = answer
               /\ wire'[c] = IF answer = "complete" THEN "complete" ELSE "none"
  BY DEF TypeOK, Respond, Steps

\* A call that is turned away leaves the ledger alone.
LEMMA RefuseInv ==
  ASSUME IInv, NEW c \in Calls, RefuseCall(c)
  PROVE  IInv'
<1>0. /\ TypeOK /\ UNCHANGED ledgerVars
      /\ wire[c] \in {"claim", "complete"} /\ Respond(c, "error")
  BY DEF IInv, TypeOK, RefuseCall
<1>1. /\ \A d \in Calls \ {c} : pc'[d] = pc[d] /\ wire'[d] = wire[d]
      /\ pc' \in [Calls -> Steps]
      /\ wire' \in [Calls -> {"none", "claim", "complete"}]
      /\ wire'[c] = "none"
      /\ pc'[c] = pc[c] \/ pc'[c] = "error"
  BY <1>0, RespondEffect DEF Steps
<1>2. TypeOK'
  BY <1>0, <1>1 DEF TypeOK, ledgerVars
<1>3. DeliveryRows' /\ StartedOnce'
  BY <1>0 DEF ledgerVars, IInv, DeliveryRows, StartedOnce
<1>4. ClaimedFirst'
  BY <1>0, <1>1 DEF ledgerVars, IInv, ClaimedFirst, Visible, Started
<1>5. ReleaseIsRecorded'
  BY <1>0, <1>1 DEF ledgerVars, IInv, ReleaseIsRecorded, Visible
<1> QED
  BY <1>2, <1>3, <1>4, <1>5 DEF IInv

LEMMA ClaimInv ==
  ASSUME IInv, NEW c \in Calls, ClaimDelivery(c)
  PROVE  IInv'
<1> DEFINE s == Subject[c]
<1>0. s \in Settlements /\ TypeOK /\ wire[c] = "claim" /\ UNCHANGED <<settlement, digest>>
  BY PaidResourceAssumption DEF IInv, ClaimDelivery
<1>1. PICK answer \in {"complete", "expired", "not_found"} :
        /\ Respond(c, answer)
        /\ \/ /\ delivery[s] = "delivery_pending" /\ answer # "complete"
              /\ delivery' = [delivery EXCEPT ![s] = "expired"]
              /\ UNCHANGED attempts
           \/ /\ delivery[s] = "delivery_pending" /\ Visible(c)
              /\ delivery' = [delivery EXCEPT ![s] = "delivering"]
              /\ attempts' = [attempts EXCEPT ![s] = @ + 1]
           \/ /\ answer = "complete" => Visible(c) /\ Started(s)
              /\ UNCHANGED <<delivery, attempts>>
  BY DEF ClaimDelivery, Startable
<1>2. /\ \A d \in Calls \ {c} : pc'[d] = pc[d] /\ wire'[d] = wire[d]
      /\ pc' \in [Calls -> Steps]
      /\ wire' \in [Calls -> {"none", "claim", "complete"}]
      /\ \/ pc'[c] = pc[c] /\ wire'[c] = "none"
         \/ /\ pc[c] = "claim" /\ answer = "complete"
            /\ pc'[c] = "complete" /\ wire'[c] = "complete"
         \/ /\ pc'[c] \in {"expired", "not_found", "error"} /\ wire'[c] = "none"
  BY <1>0, <1>1, RespondEffect DEF Steps, Refusals
<1>3. TypeOK'
  BY <1>0, <1>1, <1>2 DEF TypeOK
<1>4. DeliveryRows'
  BY <1>0, <1>1 DEF IInv, TypeOK, DeliveryRows
<1>5. StartedOnce'
  BY <1>0, <1>1 DEF IInv, TypeOK, StartedOnce
<1>6. /\ \A x \in Settlements : Started(x) => Started(x)'
      /\ answer = "complete" => Visible(c) /\ Started(s)'
      /\ \A x \in Settlements : delivery[x] = "delivered" => delivery'[x] = "delivered"
  BY <1>0, <1>1 DEF TypeOK, Started
<1>7. ClaimedFirst'
  BY <1>0, <1>2, <1>6, PaidResourceAssumption DEF IInv, ClaimedFirst, Visible
<1>8. ReleaseIsRecorded'
  BY <1>0, <1>2, <1>6, PaidResourceAssumption DEF IInv, ReleaseIsRecorded, Visible
<1> QED
  BY <1>3, <1>4, <1>5, <1>7, <1>8 DEF IInv

LEMMA CompleteInv ==
  ASSUME IInv, NEW c \in Calls, CompleteDelivery(c)
  PROVE  IInv'
<1> DEFINE s == Subject[c]
<1>0. /\ s \in Settlements /\ Body[c] \in Digests /\ Body[c] # None
      /\ TypeOK /\ wire[c] = "complete" /\ UNCHANGED <<settlement, attempts>>
  BY PaidResourceAssumption DEF IInv, CompleteDelivery
<1>1. PICK answer \in {"released", "conflict", "not_claimed", "not_found"} :
        /\ Respond(c, answer)
        /\ \/ /\ delivery[s] = "delivering" /\ Visible(c)
              /\ delivery' = [delivery EXCEPT ![s] = "delivered"]
              /\ digest'   = [digest EXCEPT ![s] = Body[c]]
           \/ /\ answer = "released"
                    => Visible(c) /\ delivery[s] = "delivered" /\ digest[s] = Body[c]
              /\ UNCHANGED <<delivery, digest>>
  BY DEF CompleteDelivery, Completable, SameDigest
<1>2. /\ \A d \in Calls \ {c} : pc'[d] = pc[d] /\ wire'[d] = wire[d]
      /\ pc' \in [Calls -> Steps]
      /\ wire' \in [Calls -> {"none", "claim", "complete"}]
      /\ wire'[c] = "none"
      /\ \/ pc'[c] = pc[c]
         \/ answer = "released" /\ pc'[c] = "released"
         \/ pc'[c] \in {"conflict", "not_claimed", "not_found", "error"}
  BY <1>0, <1>1, RespondEffect DEF Steps, Refusals
<1>3. TypeOK'
  BY <1>0, <1>1, <1>2 DEF TypeOK
<1>4. DeliveryRows'
  BY <1>0, <1>1 DEF IInv, TypeOK, DeliveryRows
<1>5. StartedOnce'
  BY <1>0, <1>1 DEF IInv, TypeOK, StartedOnce
<1>6. /\ \A x \in Settlements : Started(x) => Started(x)'
      /\ \A x \in Settlements : delivery[x] = "delivered"
                                  => delivery'[x] = "delivered" /\ digest'[x] = digest[x]
      /\ answer = "released"
           => Visible(c) /\ delivery'[s] = "delivered" /\ digest'[s] = Body[c]
  BY <1>0, <1>1 DEF TypeOK, Started
<1>7. ClaimedFirst'
  BY <1>0, <1>2, <1>6, PaidResourceAssumption DEF IInv, ClaimedFirst, Visible
<1>8. ReleaseIsRecorded'
  BY <1>0, <1>2, <1>4, <1>6, PaidResourceAssumption
  DEF IInv, ReleaseIsRecorded, Visible, DeliveryRows
<1> QED
  BY <1>3, <1>4, <1>5, <1>7, <1>8 DEF IInv

LEMMA NextInv ==
  ASSUME IInv, [Next]_vars
  PROVE  IInv'
<1>1. CASE UNCHANGED vars
  BY <1>1 DEF vars, ledgerVars, IInv, TypeOK, DeliveryRows, ClaimedFirst, StartedOnce,
       ReleaseIsRecorded, Visible, Started
<1>2. CASE Next
  BY <1>2, SettleInv, HandlerInv, RefuseInv, ClaimInv, CompleteInv DEF Next, Facilitator
<1> QED
  BY <1>1, <1>2

LEMMA Invariance == Spec => []IInv
  BY InitInv, NextInv, PTL DEF Spec

(* Every variable keeps its type.                                          *)
THEOREM TypeCorrect == Spec => []TypeOK
<1>1. IInv => TypeOK
  BY DEF IInv
<1> QED
  BY <1>1, Invariance, PTL

(* No body is released unless the ledger holds its digest for a confirmed  *)
(* settlement of the server's merchant, however many servers, retries,     *)
(* lost answers and late requests there are.                               *)
THEOREM ReleasesRecorded == Spec => []ReleaseIsRecorded
<1>1. IInv => ReleaseIsRecorded
  BY DEF IInv
<1> QED
  BY <1>1, Invariance, PTL

(* A delivery is started once, over all claims of all calls.               *)
THEOREM DeliveriesStartOnce == Spec => []StartedOnce
<1>1. IInv => StartedOnce
  BY DEF IInv
<1> QED
  BY <1>1, Invariance, PTL

(* A delivery that was started only completes, and keeps its first digest. *)
THEOREM LifecycleHolds == Spec => DeliveryLifecycle
<1> DEFINE Keeps ==
      \A s \in Settlements :
        /\ delivery[s] = "delivering" => delivery'[s] \in {"delivering", "delivered"}
        /\ delivery[s] = "delivered" =>
             delivery'[s] = "delivered" /\ digest'[s] = digest[s]
        /\ delivery[s] = "expired" => delivery'[s] = "expired"
<1>1. IInv /\ [Next]_vars => [Keeps]_vars
  <2> SUFFICES ASSUME IInv, Next PROVE Keeps
    BY DEF vars
  <2>1. ASSUME NEW s \in Settlements, ConfirmSettlement(s) \/ FailSettlement(s)
        PROVE  Keeps
    BY <2>1 DEF ConfirmSettlement, FailSettlement, IInv, TypeOK, DeliveryRows
  <2>2. ASSUME NEW c \in Calls, ClaimDelivery(c)
        PROVE  Keeps
    BY <2>2, PaidResourceAssumption DEF ClaimDelivery, Startable, IInv, TypeOK
  <2>3. ASSUME NEW c \in Calls, CompleteDelivery(c)
        PROVE  Keeps
    BY <2>3, PaidResourceAssumption DEF CompleteDelivery, Completable, IInv, TypeOK
  <2>4. CASE UNCHANGED ledgerVars
    BY <2>4 DEF ledgerVars
  <2> QED
    BY <2>1, <2>2, <2>3, <2>4 DEF Next, NormalizeSettlement, CallLedger, GiveUp,
       LoseRequest, RefuseCall, Facilitator
<1> QED
  BY <1>1, Invariance, PTL DEF Spec, DeliveryLifecycle

(* What the ledger tells a handler of this repository: an expiry only of   *)
(* what nobody started, then a conflict only with another recorded body.   *)
THEOREM RefusalsAreConflicts == Spec => RefusedOnlyOnConflict
<1> DEFINE Told(c) ==
      (pc'[c] # pc[c] /\ pc'[c] \in Refusals) =>
        \/ /\ pc[c] = "claim" /\ pc'[c] = "expired"
           /\ delivery'[Subject[c]] = "expired" /\ attempts'[Subject[c]] = 0
        \/ /\ pc[c] = "complete" /\ pc'[c] = "conflict"
           /\ digest[Subject[c]] \notin {None, Body[c]}
           /\ UNCHANGED ledgerVars
<1>1. IInv /\ [Next]_vars => [\A c \in Calls \ Direct : Told(c)]_vars
  <2> SUFFICES ASSUME IInv, Next, NEW c \in Calls \ Direct,
                      pc'[c] # pc[c], pc'[c] \in Refusals
               PROVE  Told(c)
    BY DEF vars
  <2>0. Subject[c] \in Settlements /\ TypeOK
    BY PaidResourceAssumption DEF IInv
  <2>1. ClaimDelivery(c) \/ CompleteDelivery(c)
    <3>1. \A s \in Settlements : ~ConfirmSettlement(s) /\ ~FailSettlement(s)
      BY DEF ConfirmSettlement, FailSettlement
    <3>2. \A d \in Calls : /\ ~NormalizeSettlement(d) /\ ~CallLedger(d)
                           /\ ~GiveUp(d) /\ ~LoseRequest(d) /\ ~RefuseCall(d)
      BY <2>0 DEF NormalizeSettlement, CallLedger, GiveUp, LoseRequest, RefuseCall,
           Respond, Send, TypeOK, Refusals
    <3>3. ASSUME NEW d \in Calls \ {c} PROVE ~ClaimDelivery(d) /\ ~CompleteDelivery(d)
      BY <2>0, <3>3 DEF ClaimDelivery, CompleteDelivery, Respond, TypeOK
    <3> QED
      BY <3>1, <3>2, <3>3 DEF Next, Facilitator
  <2>2. CASE ClaimDelivery(c)
    <3>1. pc[c] = "claim" /\ Visible(c) /\ settlement[Subject[c]] = "confirmed"
      BY <2>0, <2>2 DEF ClaimDelivery, Respond, IInv, ClaimedFirst, TypeOK
    <3>2. delivery[Subject[c]] # "none" /\ ~Started(Subject[c])
      BY <2>0, <2>2, <3>1 DEF ClaimDelivery, Respond, IInv, DeliveryRows, TypeOK,
           Started, Startable, Refusals
    <3>3. delivery'[Subject[c]] = "expired" /\ pc'[c] = "expired" /\ UNCHANGED attempts
      BY <2>0, <2>2, <3>1, <3>2 DEF ClaimDelivery, Respond, TypeOK, Started, Startable,
           Refusals
    <3>4. attempts[Subject[c]] = 0
      BY <2>0, <3>2 DEF IInv, StartedOnce, Started
    <3> QED
      BY <3>1, <3>3, <3>4
  <2>3. CASE CompleteDelivery(c)
    <3>1. pc[c] = "complete" /\ Visible(c) /\ Started(Subject[c])
      BY <2>0, <2>3 DEF CompleteDelivery, Respond, IInv, ClaimedFirst, TypeOK
    <3>2. /\ delivery[Subject[c]] = "delivered" /\ ~SameDigest(c)
          /\ pc'[c] = "conflict" /\ UNCHANGED ledgerVars
      BY <2>0, <2>3, <3>1 DEF CompleteDelivery, Respond, Completable, Started, Refusals,
           TypeOK, ledgerVars
    <3>3. digest[Subject[c]] # None
      BY <2>0, <3>2 DEF IInv, DeliveryRows
    <3> QED
      BY <3>1, <3>2, <3>3 DEF SameDigest
  <2> QED
    BY <2>1, <2>2, <2>3
<1> QED
  BY <1>1, Invariance, PTL DEF Spec, RefusedOnlyOnConflict
=============================================================================
