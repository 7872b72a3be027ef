------------------------- MODULE PartnerOAuthProofs -------------------------
(***************************************************************************)
(* Proofs about PartnerOAuth, for any number of invitations, calls,        *)
(* merchants, wallets and scopes, in both modes.                           *)
(***************************************************************************)
EXTENDS PartnerOAuth, FiniteSetTheorems, TLAPS

\* What a registration is about to do, and has done.
RegisteredFor(g) ==
  /\ pc[g] \in {"select", "lock challenge", "lock invitation", "commit", "answer", "done"} =>
       named[g] \in Challenges /\ signer[g] = ForWallet[named[g]]
  /\ pc[g] = "commit" => invitation[InvitationOf(g)] = "open"
  /\ pc[g] \in {"answer", "done"} => client[g] # None
  /\ client[g] # None =>
       /\ pc[g] \in {"answer", "done", "denied"}
       /\ named[g] \in Challenges /\ signer[g] = ForWallet[named[g]]
       /\ client[g].merchant = Inviter[InvitationOf(g)]
       /\ client[g].wallet = ForWallet[named[g]]
       /\ client[g].scopes = Granted[InvitationOf(g)]
       /\ invitation[InvitationOf(g)] = "used"

Registered == \A g \in Clients : RegisteredFor(g)

\* The row lock lets one registration commit, and the test after it lets nobody
\* commit again.
OneEach ==
  \A g, h \in Clients :
    /\ pc[g] = "commit" /\ pc[h] = "commit" /\ InvitationOf(g) = InvitationOf(h) => g = h
    /\ client[g] # None /\ client[h] # None /\ InvitationOf(g) = InvitationOf(h) => g = h

UsedByClient ==
  \A i \in Invitations : invitation[i] = "used" =>
    \E g \in Clients : client[g] # None /\ InvitationOf(g) = i

\* The service's tokens claim what their client has.
TokensClaim ==
  \A t \in Tokens :
    /\ pc[t] = "sign" =>
         /\ mode = "embedded" /\ token[t] = None /\ client[AsClient[t]] # None
         /\ asked[t] \subseteq client[AsClient[t]].scopes /\ asked[t] # {}
    /\ mode = "embedded" /\ token[t] # None =>
         /\ pc[t] = "done" /\ token[t].client \in Clients /\ client[token[t].client] # None
         /\ token[t].merchant = client[token[t].client].merchant
         /\ token[t].wallet = client[token[t].client].wallet
         /\ token[t].scopes \subseteq client[token[t].client].scopes

\* A request that has got past its token carries one that allows the endpoint.
RequestsCarry ==
  \A a \in Requests :
    /\ pc[a] = "client" => mode = "embedded"
    /\ pc[a] \in {"client", "merchant"} => carried[a] \in Tokens
    /\ pc[a] \in {"client", "merchant", "passed"} /\ carried[a] \in Tokens =>
         token[carried[a]] # None /\ required[a] \in token[carried[a]].scopes

OInv == TypeOK /\ Registered /\ OneEach /\ UsedByClient /\ TokensClaim /\ RequestsCarry

\* What the histories of a step have to be for its types.
HistoriesTyped ==
  seen' \in [Requests -> SUBSET Grounds] /\ missed' \in [Requests -> SUBSET Grounds]

LEMMA InitInv == Init => OInv
<1> SUFFICES ASSUME Init
             PROVE  OInv
  OBVIOUS
<1>1. /\ provisions \in 0 .. Provisions /\ merchant \in [Merchants -> {"active", "disabled"}]
      /\ apiKey \in [Merchants -> ApiKeys]
  BY PartnerOAuthAssumption DEF Init
<1>2. TypeOK
  BY <1>1 DEF Init, TypeOK, Steps
<1>3. Registered
  BY DEF Init, Registered, RegisteredFor, Calls
<1>4. OneEach /\ UsedByClient
  BY DEF Init, OneEach, UsedByClient, Calls
<1>5. TokensClaim /\ RequestsCarry
  BY DEF Init, TokensClaim, RequestsCarry, Calls
<1> QED
  BY <1>2, <1>3, <1>4, <1>5 DEF OInv

LEMMA HistoryTypes == TypeOK /\ Next => HistoriesTyped
<1> SUFFICES ASSUME TypeOK, Next
             PROVE  HistoriesTyped
  OBVIOUS
<1>1. seen' = [a \in Requests |-> IF pc'[a] \in Ended \union {"idle"} THEN {}
                                  ELSE seen[a] \union InForce(a)]
  BY DEF Next, Noted
<1>2. missed' = [a \in Requests |-> IF pc'[a] \in Ended \union {"idle"} THEN {}
                                    ELSE missed[a] \union (Grounds \ InForce(a))]
  BY DEF Next, Noted
<1>3. \A a \in Requests : InForce(a) \subseteq Grounds
  BY DEF InForce, Grounds
<1>4. \A a \in Requests : seen[a] \subseteq Grounds /\ missed[a] \subseteq Grounds
  BY DEF TypeOK
<1>5. seen' \in [Requests -> SUBSET Grounds]
  BY <1>1, <1>3, <1>4
<1>6. missed' \in [Requests -> SUBSET Grounds]
  BY <1>2, <1>4
<1> QED
  BY <1>5, <1>6 DEF HistoriesTyped

\* Calls of one kind are none of another.
LEMMA CallsApart ==
  /\ \A k \in Challenges : k \notin Clients /\ k \notin Tokens /\ k \notin Requests
  /\ \A g \in Clients : g \notin Challenges /\ g \notin Tokens /\ g \notin Requests
  /\ \A t \in Tokens : t \notin Challenges /\ t \notin Clients /\ t \notin Requests
  /\ \A a \in Requests : a \notin Challenges /\ a \notin Clients /\ a \notin Tokens
  /\ \A t \in Tokens : t \notin ApiKeys
  BY PartnerOAuthAssumption

\* A step moves one call.
LEMMA OneMoves ==
  ASSUME TypeOK, NEW c \in Calls, NEW s \in Steps, pc' = [pc EXCEPT ![c] = s]
  PROVE  /\ pc' \in [Calls -> Steps] /\ pc'[c] = s
         /\ \A d \in Calls : d # c => pc'[d] = pc[d]
<1>1. pc \in [Calls -> Steps]
  BY DEF TypeOK
<1> QED
  BY <1>1

-----------------------------------------------------------------------------
(* Operator and time.                                                      *)

LEMMA OperatorInv ==
  ASSUME OInv, HistoriesTyped,
         \/ \E m \in Merchants : ProvisionMerchant(m)
         \/ Lapse
  PROVE  OInv'
<1>0. /\ mode' = mode /\ invitation' = invitation /\ challenge' = challenge /\ client' = client
      /\ token' = token /\ tokened' = tokened /\ pc' = pc /\ named' = named /\ signer' = signer
      /\ asked' = asked /\ carried' = carried /\ required' = required
  BY DEF ProvisionMerchant, Lapse, inputVars
<1>1. TypeOK
  BY DEF OInv
<1>2. /\ merchant' \in [Merchants -> {"active", "disabled"}]
      /\ apiKey' \in [Merchants -> ApiKeys] /\ provisions' \in 0 .. Provisions
      /\ lapsed' \subseteq Invitations \union Challenges \union Tokens
  <2>1. ASSUME NEW m \in Merchants, ProvisionMerchant(m)
        PROVE  /\ merchant' \in [Merchants -> {"active", "disabled"}]
               /\ apiKey' \in [Merchants -> ApiKeys]
               /\ lapsed' = lapsed
    BY <1>1, <2>1 DEF ProvisionMerchant, TypeOK
  <2>2. ASSUME NEW m \in Merchants, ProvisionMerchant(m)
        PROVE  provisions' \in 0 .. Provisions
    <3>1. provisions \in 0 .. Provisions /\ provisions < Provisions
          /\ provisions' = provisions + 1 /\ Provisions \in Nat
      BY <1>1, <2>2, PartnerOAuthAssumption DEF ProvisionMerchant, TypeOK
    <3> QED
      BY <3>1
  <2>3. CASE Lapse
    BY <1>1, <2>3 DEF Lapse, merchantVars, TypeOK
  <2>4. lapsed \subseteq Invitations \union Challenges \union Tokens
    BY <1>1 DEF TypeOK
  <2> QED
    BY <2>1, <2>2, <2>3, <2>4
<1>3. TypeOK'
  BY <1>0, <1>1, <1>2 DEF TypeOK, HistoriesTyped
<1>4. Registered' /\ OneEach' /\ UsedByClient' /\ TokensClaim' /\ RequestsCarry'
  <2>1. Registered'
    BY <1>0 DEF OInv, Registered, RegisteredFor, InvitationOf
  <2>2. OneEach' /\ UsedByClient'
    BY <1>0 DEF OInv, OneEach, UsedByClient, InvitationOf
  <2>3. TokensClaim' /\ RequestsCarry'
    BY <1>0 DEF OInv, TokensClaim, RequestsCarry
  <2> QED
    BY <2>1, <2>2, <2>3
<1> QED
  BY <1>3, <1>4 DEF OInv

LEMMA InviteInv ==
  ASSUME OInv, HistoriesTyped, NEW i \in Invitations, Invite(i)
  PROVE  OInv'
<1>0. /\ mode' = mode /\ challenge' = challenge /\ client' = client /\ merchant' = merchant
      /\ apiKey' = apiKey /\ provisions' = provisions /\ lapsed' = lapsed
      /\ token' = token /\ tokened' = tokened /\ pc' = pc /\ named' = named /\ signer' = signer
      /\ asked' = asked /\ carried' = carried /\ required' = required
      /\ invitation' = [invitation EXCEPT ![i] = "open"] /\ invitation[i] = "absent"
  BY DEF Invite, inputVars, merchantVars
<1>1. TypeOK
  BY DEF OInv
<1>2. /\ invitation' \in [Invitations -> {"absent", "open", "used"}]
      /\ \A j \in Invitations : invitation[j] # "absent" => invitation'[j] = invitation[j]
      /\ \A j \in Invitations : invitation'[j] = "used" => invitation[j] = "used"
  BY <1>0, <1>1 DEF TypeOK
<1>3. TypeOK'
  BY <1>0, <1>1, <1>2 DEF TypeOK, HistoriesTyped
<1>4. Registered'
  <2>1. \A g \in Clients : RegisteredFor(g) => RegisteredFor(g)'
    <3>1. \A g \in Clients : named[g] \in Challenges => InvitationOf(g) \in Invitations
      BY PartnerOAuthAssumption DEF InvitationOf
    <3>2. \A g \in Clients : InvitationOf(g)' = InvitationOf(g)
      BY <1>0 DEF InvitationOf
    <3> QED
      BY <1>0, <1>2, <3>1, <3>2 DEF RegisteredFor
  <2> QED
    BY <2>1 DEF OInv, Registered
<1>5. OneEach' /\ UsedByClient'
  BY <1>0, <1>2 DEF OInv, OneEach, UsedByClient, InvitationOf
<1>6. TokensClaim' /\ RequestsCarry'
  BY <1>0 DEF OInv, TokensClaim, RequestsCarry
<1> QED
  BY <1>3, <1>4, <1>5, <1>6 DEF OInv

\* A disabled client is what it was, but for its status.
LEMMA DisableInv ==
  ASSUME OInv, HistoriesTyped, NEW g \in Clients, DisableClient(g)
  PROVE  OInv'
<1> DEFINE C == [merchant : Merchants, wallet : Wallets, scopes : SUBSET Scopes,
                 status : {"active", "disabled"}]
<1>0. /\ mode' = mode /\ challenge' = challenge /\ invitation' = invitation /\ merchant' = merchant
      /\ apiKey' = apiKey /\ provisions' = provisions /\ lapsed' = lapsed
      /\ token' = token /\ tokened' = tokened /\ pc' = pc /\ named' = named /\ signer' = signer
      /\ asked' = asked /\ carried' = carried /\ required' = required
      /\ client' = [client EXCEPT ![g].status = "disabled"] /\ client[g] # None
  BY DEF DisableClient, ActiveClient, inputVars, merchantVars
<1>1. TypeOK
  BY DEF OInv
<1>2. client \in [Clients -> {None} \union C] /\ client[g] \in C
  BY <1>0, <1>1 DEF TypeOK
<1>3. client'[g] = [client[g] EXCEPT !.status = "disabled"]
  BY <1>0, <1>2
<1>4. /\ client'[g] \in C /\ client'[g].merchant = client[g].merchant
      /\ client'[g].wallet = client[g].wallet /\ client'[g].scopes = client[g].scopes
  BY <1>2, <1>3
<1>5. client'[g] # None
  BY <1>4, PartnerOAuthAssumption
<1> HIDE DEF C
<1>6. /\ client' \in [Clients -> {None} \union C]
      /\ \A h \in Clients \ {g} : client'[h] = client[h]
  BY <1>0, <1>2, <1>3, <1>4
<1>7. \A h \in Clients :
        /\ client[h] # None <=> client'[h] # None
        /\ client'[h].merchant = client[h].merchant
        /\ client'[h].wallet = client[h].wallet /\ client'[h].scopes = client[h].scopes
  BY <1>0, <1>4, <1>5, <1>6
<1>8. TypeOK'
  BY <1>0, <1>1, <1>6 DEF C, TypeOK, HistoriesTyped
<1>9. Registered'
  <2>1. ASSUME NEW h \in Clients, RegisteredFor(h)
        PROVE  RegisteredFor(h)'
    <3>1. InvitationOf(h)' = InvitationOf(h)
      BY <1>0 DEF InvitationOf
    <3> QED
      BY <1>0, <1>7, <2>1, <3>1 DEF RegisteredFor
  <2> QED
    BY <2>1 DEF OInv, Registered
<1>10. OneEach' /\ UsedByClient'
  BY <1>0, <1>7 DEF OInv, OneEach, UsedByClient, InvitationOf
<1>11. TokensClaim'
  BY <1>0, <1>7, PartnerOAuthAssumption DEF OInv, TokensClaim
<1>12. RequestsCarry'
  BY <1>0 DEF OInv, RequestsCarry
<1> QED
  BY <1>8, <1>9, <1>10, <1>11, <1>12 DEF OInv

-----------------------------------------------------------------------------
(* Challenges and registrations.                                           *)

LEMMA ChallengeInv ==
  ASSUME OInv, HistoriesTyped, NEW k \in Challenges, ChallengeStep(k)
  PROVE  OInv'
<1>0. /\ mode' = mode /\ invitation' = invitation /\ client' = client /\ merchant' = merchant
      /\ apiKey' = apiKey /\ provisions' = provisions /\ lapsed' = lapsed
      /\ token' = token /\ tokened' = tokened /\ named' = named /\ signer' = signer
      /\ asked' = asked /\ carried' = carried /\ required' = required
      /\ challenge' = challenge \/ challenge' = [challenge EXCEPT ![k] = "open"]
  BY DEF ChallengeStep, FindInvitation, FindInviter, InsertChallenge, inputVars, merchantVars
<1>1. TypeOK
  BY DEF OInv
<1>2. PICK step \in {"merchant", "insert", "done", "denied"} : pc' = [pc EXCEPT ![k] = step]
  BY DEF ChallengeStep, FindInvitation, FindInviter, InsertChallenge, Goto
<1>3. k \in Calls /\ step \in Steps
  BY DEF Calls, Steps
<1>4. /\ pc' \in [Calls -> Steps]
      /\ \A d \in Calls : d # k => pc'[d] = pc[d]
  BY <1>1, <1>2, <1>3, OneMoves
<1>5. \A c \in Clients \union Tokens \union Requests : pc'[c] = pc[c]
  BY <1>4, CallsApart DEF Calls
<1>6. challenge' \in [Challenges -> {"absent", "open", "used"}]
  BY <1>0, <1>1 DEF TypeOK
<1>7. TypeOK'
  BY <1>0, <1>1, <1>4, <1>6 DEF TypeOK, HistoriesTyped
<1>8. Registered'
  BY <1>0, <1>5 DEF OInv, Registered, RegisteredFor, InvitationOf
<1>9. OneEach' /\ UsedByClient'
  BY <1>0, <1>5 DEF OInv, OneEach, UsedByClient, InvitationOf
<1>10. TokensClaim' /\ RequestsCarry'
  BY <1>0, <1>5 DEF OInv, TokensClaim, RequestsCarry
<1> QED
  BY <1>7, <1>8, <1>9, <1>10 DEF OInv

LEMMA FindChallengeInv ==
  ASSUME OInv, HistoriesTyped, NEW g \in Clients, FindChallenge(g)
  PROVE  OInv'
<1>0. /\ mode' = mode /\ invitation' = invitation /\ client' = client /\ merchant' = merchant
      /\ apiKey' = apiKey /\ provisions' = provisions /\ lapsed' = lapsed
      /\ token' = token /\ tokened' = tokened /\ challenge' = challenge
      /\ asked' = asked /\ carried' = carried /\ required' = required
      /\ pc[g] = "idle"
      /\ \/ \E k \in Challenges :
              /\ pc' = [pc EXCEPT ![g] = "select"]
              /\ named' = [named EXCEPT ![g] = k]
              /\ signer' = [signer EXCEPT ![g] = ForWallet[k]]
         \/ pc' = [pc EXCEPT ![g] = "denied"] /\ named' = named /\ signer' = signer
  BY DEF FindChallenge, ValidSignature, Goto, merchantVars
<1>1. TypeOK
  BY DEF OInv
<1>2. PICK step \in {"select", "denied"} : pc' = [pc EXCEPT ![g] = step]
  BY <1>0
<1>3. g \in Calls /\ step \in Steps
  BY DEF Calls, Steps
<1>4. /\ pc' \in [Calls -> Steps] /\ pc'[g] = step
      /\ \A d \in Calls : d # g => pc'[d] = pc[d]
  BY <1>1, <1>2, <1>3, OneMoves
<1>5. /\ \A c \in Tokens \union Requests : pc'[c] = pc[c]
      /\ \A h \in Clients \ {g} : pc'[h] = pc[h]
  BY <1>4, CallsApart DEF Calls
<1>6. named \in [Clients -> Challenges \union {None}] /\ signer \in [Clients -> Wallets \union {None}]
  BY <1>1 DEF TypeOK
<1>7. /\ named' \in [Clients -> Challenges \union {None}]
      /\ \A h \in Clients \ {g} : named'[h] = named[h] /\ signer'[h] = signer[h]
      /\ pc'[g] = "select" => named'[g] \in Challenges /\ signer'[g] = ForWallet[named'[g]]
  <2>1. ASSUME NEW k \in Challenges, named' = [named EXCEPT ![g] = k],
               signer' = [signer EXCEPT ![g] = ForWallet[k]]
        PROVE  /\ named' \in [Clients -> Challenges \union {None}]
               /\ \A h \in Clients \ {g} : named'[h] = named[h] /\ signer'[h] = signer[h]
               /\ named'[g] \in Challenges /\ signer'[g] = ForWallet[named'[g]]
    BY <1>6, <2>1
  <2>2. CASE pc' = [pc EXCEPT ![g] = "denied"] /\ named' = named /\ signer' = signer
    <3>1. pc'[g] = "denied"
      BY <1>1, <1>3, <2>2 DEF TypeOK
    <3> QED
      BY <1>6, <2>2, <3>1
  <2> QED
    BY <1>0, <2>1, <2>2
<1>8. signer' \in [Clients -> Wallets \union {None}]
  BY <1>0, <1>6, PartnerOAuthAssumption
<1>9. client[g] = None
  BY <1>0 DEF OInv, Registered, RegisteredFor
<1>10. TypeOK'
  BY <1>0, <1>1, <1>4, <1>7, <1>8 DEF TypeOK, HistoriesTyped
<1>11. Registered'
  <2>1. RegisteredFor(g)'
    BY <1>0, <1>4, <1>7, <1>9 DEF RegisteredFor
  <2>2. ASSUME NEW h \in Clients \ {g}
        PROVE  RegisteredFor(h)'
    <3>1. RegisteredFor(h) /\ InvitationOf(h)' = InvitationOf(h)
      BY <1>7 DEF OInv, Registered, InvitationOf
    <3>2. pc'[h] = pc[h] /\ named'[h] = named[h] /\ signer'[h] = signer[h]
      BY <1>5, <1>7
    <3> QED
      BY <1>0, <3>1, <3>2 DEF RegisteredFor
  <2> QED
    BY <2>1, <2>2 DEF Registered
<1>12. OneEach' /\ UsedByClient'
  BY <1>0, <1>4, <1>5, <1>7, <1>9 DEF OInv, OneEach, UsedByClient, InvitationOf
<1>13. TokensClaim' /\ RequestsCarry'
  BY <1>0, <1>5 DEF OInv, TokensClaim, RequestsCarry
<1> QED
  BY <1>10, <1>11, <1>12, <1>13 DEF OInv

\* Steps of a registration that only wait, test, lock or give up.
LEMMA LockInv ==
  ASSUME OInv, HistoriesTyped, NEW g \in Clients,
         \/ SnapshotRows(g) \/ LockChallenge(g) \/ LockInvitation(g) \/ ReturnSecret(g)
         \/ LoseRegistration(g)
  PROVE  OInv'
<1>0. /\ mode' = mode /\ invitation' = invitation /\ client' = client /\ merchant' = merchant
      /\ apiKey' = apiKey /\ provisions' = provisions /\ lapsed' = lapsed
      /\ token' = token /\ tokened' = tokened /\ challenge' = challenge
      /\ asked' = asked /\ carried' = carried /\ required' = required
      /\ named' = named /\ signer' = signer
  BY DEF SnapshotRows, LockChallenge, LockInvitation, ReturnSecret, LoseRegistration,
         inputVars, merchantVars
<1>1. PICK step \in {"lock challenge", "lock invitation", "commit", "done", "denied"} :
        /\ pc' = [pc EXCEPT ![g] = step]
        /\ step = "lock challenge" => pc[g] = "select"
        /\ step = "lock invitation" => pc[g] = "lock challenge"
        /\ step = "commit" => pc[g] = "lock invitation" /\ InvitationFree(g) /\ StillUnused(g)
        /\ step = "done" => pc[g] = "answer"
        /\ step = "denied" => pc[g] \notin {"idle", "done", "denied"}
  BY DEF SnapshotRows, LockChallenge, LockInvitation, ReturnSecret, LoseRegistration, Goto
<1>2. TypeOK
  BY DEF OInv
<1>3. g \in Calls /\ step \in Steps
  BY DEF Calls, Steps
<1>4. /\ pc' \in [Calls -> Steps] /\ pc'[g] = step
      /\ \A d \in Calls : d # g => pc'[d] = pc[d]
  BY <1>1, <1>2, <1>3, OneMoves
<1>5. /\ \A c \in Tokens \union Requests : pc'[c] = pc[c]
      /\ \A h \in Clients \ {g} : pc'[h] = pc[h]
  BY <1>4, CallsApart DEF Calls
<1>6. TypeOK'
  BY <1>0, <1>2, <1>4 DEF TypeOK, HistoriesTyped
<1>11. \A h \in Clients : InvitationOf(h)' = InvitationOf(h)
  BY <1>0 DEF InvitationOf
<1>7. Registered'
  <2>1. \A h \in Clients : RegisteredFor(h)
    BY DEF OInv, Registered
  <2>2. ASSUME NEW h \in Clients, h # g
        PROVE  RegisteredFor(h)'
    <3>1. pc'[h] = pc[h]
      BY <1>5, <2>2
    <3> QED
      BY <1>0, <1>11, <2>1, <3>1 DEF RegisteredFor
  <2>3. RegisteredFor(g)'
    <3>1. step = "commit" => invitation[InvitationOf(g)] = "open"
      BY <1>1 DEF StillUnused
    <3>2. pc'[g] = step
      BY <1>4
    <3> QED
      BY <1>0, <1>1, <1>11, <2>1, <3>1, <3>2 DEF RegisteredFor
  <2> QED
    BY <2>2, <2>3 DEF Registered
<1>8. OneEach'
  <2>1. \A h \in Clients : InvitationOf(h)' = InvitationOf(h)
    BY <1>11
  <2>2. ASSUME NEW h \in Clients \ {g}, pc'[g] = "commit", pc'[h] = "commit"
        PROVE  InvitationOf(h) # InvitationOf(g)
    <3>1. InvitationFree(g)
      BY <1>1, <1>4, <2>2
    <3>2. pc[h] = "commit"
      BY <1>5, <2>2
    <3> QED
      BY <3>1, <3>2 DEF InvitationFree
  <2>3. \A h, j \in Clients :
          pc'[h] = "commit" /\ pc'[j] = "commit" /\ InvitationOf(h) = InvitationOf(j) => h = j
    BY <1>5, <2>2 DEF OInv, OneEach
  <2> QED
    BY <1>0, <2>1, <2>3 DEF OInv, OneEach
<1>9. UsedByClient'
  BY <1>0 DEF OInv, UsedByClient, InvitationOf
<1>10. TokensClaim' /\ RequestsCarry'
  BY <1>0, <1>5 DEF OInv, TokensClaim, RequestsCarry
<1> QED
  BY <1>6, <1>7, <1>8, <1>9, <1>10 DEF OInv

LEMMA CommitInv ==
  ASSUME OInv, HistoriesTyped, NEW g \in Clients, CommitClient(g)
  PROVE  OInv'
<1> DEFINE i == InvitationOf(g)
           row == [merchant |-> Inviter[i], wallet |-> ForWallet[named[g]],
                   scopes |-> Granted[i], status |-> "active"]
<1>0. /\ mode' = mode /\ merchant' = merchant
      /\ apiKey' = apiKey /\ provisions' = provisions /\ lapsed' = lapsed
      /\ token' = token /\ tokened' = tokened
      /\ asked' = asked /\ carried' = carried /\ required' = required
      /\ named' = named /\ signer' = signer
      /\ pc[g] = "commit" /\ pc' = [pc EXCEPT ![g] = "answer"]
      /\ challenge' = [challenge EXCEPT ![named[g]] = "used"]
      /\ invitation' = [invitation EXCEPT ![i] = "used"]
      /\ client' = [client EXCEPT ![g] = row]
  BY DEF CommitClient, InvitedScopes, Goto, inputVars, merchantVars
<1>1. TypeOK
  BY DEF OInv
<1>2. /\ named[g] \in Challenges /\ signer[g] = ForWallet[named[g]]
      /\ invitation[i] = "open" /\ client[g] = None
  BY <1>0 DEF OInv, Registered, RegisteredFor
<1>3. i \in Invitations
  BY <1>2, PartnerOAuthAssumption DEF InvitationOf
<1>4. row \in [merchant : Merchants, wallet : Wallets, scopes : SUBSET Scopes,
               status : {"active", "disabled"}]
  BY <1>2, <1>3, PartnerOAuthAssumption
<1>5. row # None
  BY <1>4, PartnerOAuthAssumption
<1>6. g \in Calls /\ "answer" \in Steps
  BY DEF Calls, Steps
<1>7. /\ pc' \in [Calls -> Steps] /\ pc'[g] = "answer"
      /\ \A d \in Calls : d # g => pc'[d] = pc[d]
  BY <1>0, <1>1, <1>6, OneMoves
<1>8. /\ \A c \in Tokens \union Requests : pc'[c] = pc[c]
      /\ \A h \in Clients \ {g} : pc'[h] = pc[h]
  BY <1>7, CallsApart DEF Calls
<1>9. row.merchant = Inviter[i] /\ row.wallet = ForWallet[named[g]] /\ row.scopes = Granted[i]
  OBVIOUS
<1> HIDE DEF row
<1>10. /\ client'[g] = row
       /\ \A h \in Clients \ {g} : client'[h] = client[h]
       /\ client' \in [Clients -> {None} \union
            [merchant : Merchants, wallet : Wallets, scopes : SUBSET Scopes,
             status : {"active", "disabled"}]]
  BY <1>0, <1>1, <1>4 DEF TypeOK
<1> HIDE DEF i
<1>11. /\ invitation' \in [Invitations -> {"absent", "open", "used"}]
       /\ invitation'[i] = "used"
       /\ \A j \in Invitations \ {i} : invitation'[j] = invitation[j]
       /\ challenge' \in [Challenges -> {"absent", "open", "used"}]
  BY <1>0, <1>1, <1>3 DEF TypeOK
<1>12. \A h \in Clients : InvitationOf(h)' = InvitationOf(h)
  BY <1>0 DEF InvitationOf
<1>13. \A h \in Clients \ {g} : (client[h] # None \/ pc[h] = "commit") => InvitationOf(h) # i
  BY <1>0, <1>2 DEF i, OInv, Registered, RegisteredFor, OneEach
<1>14. TypeOK'
  BY <1>0, <1>1, <1>7, <1>10, <1>11 DEF TypeOK, HistoriesTyped
<1>15. Registered'
  <2> SUFFICES ASSUME NEW h \in Clients
               PROVE  RegisteredFor(h)'
    BY DEF Registered
  <2>1. CASE h = g
    BY <1>0, <1>2, <1>5, <1>7, <1>9, <1>10, <1>11, <1>12, <2>1 DEF i, RegisteredFor
  <2>2. CASE h # g
    <3>1. RegisteredFor(h)
      BY DEF OInv, Registered
    <3>2. (client[h] # None \/ pc[h] = "commit") =>
            InvitationOf(h) \in Invitations \ {i}
      BY <1>13, <2>2, <3>1, PartnerOAuthAssumption DEF InvitationOf, RegisteredFor
    <3>3. pc'[h] = pc[h] /\ client'[h] = client[h]
      BY <1>8, <1>10, <2>2
    <3> QED
      BY <1>0, <1>11, <1>12, <3>1, <3>2, <3>3 DEF RegisteredFor
  <2> QED
    BY <2>1, <2>2
<1>16. OneEach'
  BY <1>7, <1>8, <1>10, <1>12, <1>13 DEF i, OInv, OneEach
<1>17. UsedByClient'
  BY <1>2, <1>5, <1>10, <1>11, <1>12 DEF i, OInv, UsedByClient
<1>18. TokensClaim'
  BY <1>0, <1>2, <1>8, <1>10, PartnerOAuthAssumption DEF OInv, TokensClaim
<1>19. RequestsCarry'
  BY <1>0, <1>8 DEF OInv, RequestsCarry
<1> QED
  BY <1>14, <1>15, <1>16, <1>17, <1>18, <1>19 DEF OInv

-----------------------------------------------------------------------------
(* Tokens.                                                                 *)

LEMMA FindClientInv ==
  ASSUME OInv, HistoriesTyped, NEW t \in Tokens, FindClient(t)
  PROVE  OInv'
<1>0. /\ mode' = mode /\ invitation' = invitation /\ client' = client /\ merchant' = merchant
      /\ apiKey' = apiKey /\ provisions' = provisions /\ lapsed' = lapsed
      /\ token' = token /\ tokened' = tokened /\ challenge' = challenge
      /\ carried' = carried /\ required' = required
      /\ named' = named /\ signer' = signer
      /\ mode = "embedded" /\ pc[t] = "idle"
  BY DEF FindClient, merchantVars
<1>1. TypeOK
  BY DEF OInv
<1>2. PICK scopes \in SUBSET Scopes :
        \/ /\ ActiveClient(AsClient[t]) /\ scopes \subseteq client[AsClient[t]].scopes
           /\ pc' = [pc EXCEPT ![t] = "sign"]
           /\ asked' = [asked EXCEPT ![t] = TokenScopes(scopes, client[AsClient[t]].scopes)]
        \/ pc' = [pc EXCEPT ![t] = "denied"] /\ asked' = asked
  BY DEF FindClient, Goto
<1>3. PICK step \in {"sign", "denied"} : pc' = [pc EXCEPT ![t] = step]
  BY <1>2
<1>4. t \in Calls /\ step \in Steps
  BY DEF Calls, Steps
<1>5. /\ pc' \in [Calls -> Steps] /\ pc'[t] = step
      /\ \A d \in Calls : d # t => pc'[d] = pc[d]
  BY <1>1, <1>3, <1>4, OneMoves
<1>6. /\ \A c \in Clients \union Requests : pc'[c] = pc[c]
      /\ \A u \in Tokens \ {t} : pc'[u] = pc[u]
  BY <1>5, CallsApart DEF Calls
<1>7. AsClient[t] \in Clients /\ asked \in [Tokens -> SUBSET Scopes]
  BY <1>1, PartnerOAuthAssumption DEF TypeOK
<1>8. client[AsClient[t]] # None =>
        /\ client[AsClient[t]].scopes \in SUBSET Scopes
        /\ client[AsClient[t]].scopes = Granted[InvitationOf(AsClient[t])]
        /\ InvitationOf(AsClient[t]) \in Invitations
  <2>1. client[AsClient[t]] # None => client[AsClient[t]].scopes \in SUBSET Scopes
    BY <1>1, <1>7 DEF TypeOK
  <2>2. client[AsClient[t]] # None =>
          named[AsClient[t]] \in Challenges
          /\ client[AsClient[t]].scopes = Granted[InvitationOf(AsClient[t])]
    BY <1>7 DEF OInv, Registered, RegisteredFor
  <2> QED
    BY <2>1, <2>2, PartnerOAuthAssumption DEF InvitationOf
<1>9. client[AsClient[t]] # None => client[AsClient[t]].scopes # {}
  BY <1>8, PartnerOAuthAssumption
<1>10. /\ asked' \in [Tokens -> SUBSET Scopes]
       /\ \A u \in Tokens \ {t} : asked'[u] = asked[u]
       /\ pc'[t] = "sign" => /\ client[AsClient[t]] # None
                             /\ asked'[t] \subseteq client[AsClient[t]].scopes /\ asked'[t] # {}
  <2>1. CASE /\ ActiveClient(AsClient[t]) /\ scopes \subseteq client[AsClient[t]].scopes
             /\ asked' = [asked EXCEPT ![t] = TokenScopes(scopes, client[AsClient[t]].scopes)]
    <3>1. client[AsClient[t]] # None
      BY <2>1 DEF ActiveClient
    <3>2. /\ TokenScopes(scopes, client[AsClient[t]].scopes) \in SUBSET Scopes
          /\ TokenScopes(scopes, client[AsClient[t]].scopes) \subseteq client[AsClient[t]].scopes
          /\ TokenScopes(scopes, client[AsClient[t]].scopes) # {}
      BY <1>8, <1>9, <2>1, <3>1 DEF TokenScopes
    <3> QED
      BY <1>7, <2>1, <3>1, <3>2
  <2>2. CASE pc' = [pc EXCEPT ![t] = "denied"] /\ asked' = asked
    <3>1. pc'[t] = "denied"
      BY <1>1, <1>4, <2>2 DEF TypeOK
    <3> QED
      BY <1>7, <2>2, <3>1
  <2> QED
    BY <1>2, <2>1, <2>2
<1>11. TypeOK'
  BY <1>0, <1>1, <1>5, <1>10 DEF TypeOK, HistoriesTyped
<1>12. Registered'
  BY <1>0, <1>6 DEF OInv, Registered, RegisteredFor, InvitationOf
<1>13. OneEach' /\ UsedByClient'
  BY <1>0, <1>6 DEF OInv, OneEach, UsedByClient, InvitationOf
<1>14. token[t] = None
  BY <1>0 DEF OInv, TokensClaim
<1>15. TokensClaim'
  BY <1>0, <1>6, <1>10, <1>14 DEF OInv, TokensClaim
<1>16. RequestsCarry'
  BY <1>0, <1>6 DEF OInv, RequestsCarry
<1> QED
  BY <1>11, <1>12, <1>13, <1>15, <1>16 DEF OInv

\* A token handed out does not change; a new one was none before.
LEMMA NewToken ==
  ASSUME OInv, HistoriesTyped, NEW t \in Tokens, token[t] = None,
         NEW row \in [client : Clients \union {None}, merchant : Merchants,
                      wallet : Wallets \union {None}, scopes : (SUBSET Scopes) \ {{}}],
         token' = [token EXCEPT ![t] = row],
         tokened' \subseteq Clients, pc' \in [Calls -> Steps],
         mode' = mode, invitation' = invitation, client' = client, merchant' = merchant,
         apiKey' = apiKey, provisions' = provisions, lapsed' = lapsed, challenge' = challenge,
         asked' = asked, carried' = carried, required' = required,
         named' = named, signer' = signer,
         \A c \in Clients \union Requests : pc'[c] = pc[c]
  PROVE  /\ TypeOK' /\ Registered' /\ OneEach' /\ UsedByClient' /\ RequestsCarry'
         /\ token'[t] = row /\ row # None
         /\ \A u \in Tokens \ {t} : token'[u] = token[u]
<1>1. TypeOK
  BY DEF OInv
<1>2. row # None
  BY PartnerOAuthAssumption
<1>3. /\ token' \in [Tokens -> {None} \union
           [client : Clients \union {None}, merchant : Merchants,
            wallet : Wallets \union {None}, scopes : (SUBSET Scopes) \ {{}}]]
      /\ token'[t] = row
      /\ \A u \in Tokens \ {t} : token'[u] = token[u]
  BY <1>1 DEF TypeOK
<1>4. TypeOK'
  BY <1>1, <1>3 DEF TypeOK, HistoriesTyped
<1>5. Registered'
  <2>1. ASSUME NEW g \in Clients
        PROVE  RegisteredFor(g)'
    <3>1. RegisteredFor(g) /\ pc'[g] = pc[g] /\ InvitationOf(g)' = InvitationOf(g)
      BY DEF OInv, Registered, InvitationOf
    <3> QED
      BY <3>1 DEF RegisteredFor
  <2> QED
    BY <2>1 DEF Registered
<1>6. OneEach' /\ UsedByClient'
  BY DEF OInv, OneEach, UsedByClient, InvitationOf
<1>7. RequestsCarry'
  BY <1>3 DEF OInv, RequestsCarry
<1> QED
  BY <1>2, <1>3, <1>4, <1>5, <1>6, <1>7

LEMMA ReturnTokenInv ==
  ASSUME OInv, HistoriesTyped, NEW t \in Tokens, ReturnToken(t)
  PROVE  OInv'
<1> DEFINE g == AsClient[t]
           row == [client |-> g, merchant |-> client[g].merchant, wallet |-> client[g].wallet,
                   scopes |-> asked[t]]
<1>0. /\ mode' = mode /\ invitation' = invitation /\ client' = client /\ merchant' = merchant
      /\ apiKey' = apiKey /\ provisions' = provisions /\ lapsed' = lapsed
      /\ challenge' = challenge /\ asked' = asked /\ carried' = carried /\ required' = required
      /\ named' = named /\ signer' = signer
      /\ pc[t] = "sign" /\ pc' = [pc EXCEPT ![t] = "done"]
      /\ token' = [token EXCEPT ![t] = row]
      /\ tokened' \in {tokened, tokened \union {g}}
  BY DEF ReturnToken, Goto, inputVars, merchantVars
<1>1. TypeOK
  BY DEF OInv
<1>2. g \in Clients
  BY PartnerOAuthAssumption
<1>3. /\ mode = "embedded" /\ token[t] = None /\ client[g] # None
      /\ asked[t] \subseteq client[g].scopes /\ asked[t] # {}
  BY <1>0 DEF OInv, TokensClaim
<1>4. /\ client[g].merchant \in Merchants /\ client[g].wallet \in Wallets
      /\ asked[t] \in SUBSET Scopes
  BY <1>1, <1>2, <1>3 DEF TypeOK
<1>5. row \in [client : Clients \union {None}, merchant : Merchants,
               wallet : Wallets \union {None}, scopes : (SUBSET Scopes) \ {{}}]
  BY <1>2, <1>3, <1>4
<1>6. t \in Calls /\ "done" \in Steps
  BY DEF Calls, Steps
<1>7. /\ pc' \in [Calls -> Steps] /\ pc'[t] = "done"
      /\ \A d \in Calls : d # t => pc'[d] = pc[d]
  BY <1>0, <1>1, <1>6, OneMoves
<1>8. /\ \A c \in Clients \union Requests : pc'[c] = pc[c]
      /\ \A u \in Tokens \ {t} : pc'[u] = pc[u]
  BY <1>7, CallsApart DEF Calls
<1>9. tokened' \subseteq Clients
  BY <1>0, <1>1, <1>2 DEF TypeOK
<1>10. /\ row.client = g /\ row.merchant = client[g].merchant
       /\ row.wallet = client[g].wallet /\ row.scopes = asked[t]
  OBVIOUS
<1> HIDE DEF row
<1>11. /\ TypeOK' /\ Registered' /\ OneEach' /\ UsedByClient' /\ RequestsCarry'
       /\ token'[t] = row /\ row # None
       /\ \A u \in Tokens \ {t} : token'[u] = token[u]
  BY <1>0, <1>3, <1>5, <1>7, <1>8, <1>9, NewToken
<1>12. TokensClaim'
  BY <1>0, <1>2, <1>3, <1>7, <1>8, <1>10, <1>11 DEF OInv, TokensClaim
<1> QED
  BY <1>11, <1>12 DEF OInv

LEMMA IssueExternallyInv ==
  ASSUME OInv, HistoriesTyped, NEW t \in Tokens, IssueExternally(t)
  PROVE  OInv'
<1>0. /\ mode' = mode /\ invitation' = invitation /\ client' = client /\ merchant' = merchant
      /\ apiKey' = apiKey /\ provisions' = provisions /\ lapsed' = lapsed
      /\ challenge' = challenge /\ asked' = asked /\ carried' = carried /\ required' = required
      /\ named' = named /\ signer' = signer /\ tokened' = tokened /\ pc' = pc
      /\ mode = "external" /\ token[t] = None
  BY DEF IssueExternally, inputVars, merchantVars
<1>1. PICK m \in Merchants, s \in (SUBSET Scopes) \ {{}} :
        token' = [token EXCEPT ![t] = [client |-> None, merchant |-> m, wallet |-> None,
                                       scopes |-> s]]
  BY DEF IssueExternally
<1>2. [client |-> None, merchant |-> m, wallet |-> None, scopes |-> s] \in
        [client : Clients \union {None}, merchant : Merchants,
         wallet : Wallets \union {None}, scopes : (SUBSET Scopes) \ {{}}]
  OBVIOUS
<1>3. tokened' \subseteq Clients /\ pc' \in [Calls -> Steps]
  BY <1>0 DEF OInv, TypeOK
<1>4. \A c \in Clients \union Requests : pc'[c] = pc[c]
  BY <1>0
<1>5. /\ TypeOK' /\ Registered' /\ OneEach' /\ UsedByClient' /\ RequestsCarry'
      /\ \A u \in Tokens \ {t} : token'[u] = token[u]
  BY <1>0, <1>1, <1>2, <1>3, <1>4, NewToken
<1>6. TokensClaim'
  BY <1>0, <1>5 DEF OInv, TokensClaim
<1> QED
  BY <1>5, <1>6 DEF OInv

-----------------------------------------------------------------------------
(* Requests.                                                               *)

LEMMA RequestInv ==
  ASSUME OInv, HistoriesTyped, NEW a \in Requests, RequestStep(a)
  PROVE  OInv'
<1>0. /\ mode' = mode /\ invitation' = invitation /\ client' = client /\ merchant' = merchant
      /\ apiKey' = apiKey /\ provisions' = provisions /\ lapsed' = lapsed
      /\ challenge' = challenge /\ asked' = asked
      /\ token' = token /\ tokened' = tokened
      /\ named' = named /\ signer' = signer
  BY DEF RequestStep, VerifyToken, FailVerification, ReadClient, ReadMerchant, FailRead,
       FindApiKey, inputVars, merchantVars
<1>1. TypeOK
  BY DEF OInv
<1>2. PICK step \in {"client", "merchant"} \union Ended : pc' = [pc EXCEPT ![a] = step]
  BY DEF RequestStep, VerifyToken, FailVerification, ReadClient, ReadMerchant, FailRead,
       FindApiKey, Goto, Ended
<1>3. a \in Calls /\ step \in Steps
  BY DEF Calls, Steps
<1>4. /\ pc' \in [Calls -> Steps] /\ pc'[a] = step
      /\ \A d \in Calls : d # a => pc'[d] = pc[d]
  BY <1>1, <1>2, <1>3, OneMoves
<1>5. /\ \A c \in Clients \union Tokens : pc'[c] = pc[c]
      /\ \A b \in Requests \ {a} : pc'[b] = pc[b]
  BY <1>4, CallsApart DEF Calls
<1>6. /\ carried \in [Requests -> Tokens \union ApiKeys \union {None}]
      /\ required \in [Requests -> Scopes \union {None}]
  BY <1>1 DEF TypeOK
<1>7. /\ carried' \in [Requests -> Tokens \union ApiKeys \union {None}]
      /\ required' \in [Requests -> Scopes \union {None}]
      /\ \A b \in Requests \ {a} : carried'[b] = carried[b] /\ required'[b] = required[b]
      /\ pc'[a] = "client" => mode = "embedded"
      /\ pc'[a] \in {"client", "merchant"} => carried'[a] \in Tokens
      /\ pc'[a] \in {"client", "merchant", "passed"} /\ carried'[a] \in Tokens =>
           token[carried'[a]] # None /\ required'[a] \in token[carried'[a]].scopes
  <2>1. CASE VerifyToken(a)
    <3>1. PICK t \in Tokens, s \in Scopes :
            /\ token[t] # None
            /\ carried' = [carried EXCEPT ![a] = t] /\ required' = [required EXCEPT ![a] = s]
            /\ pc' = [pc EXCEPT ![a] = IF ~Verified(t) THEN "refused"
                  ELSE IF s \notin token[t].scopes THEN "insufficient"
                  ELSE IF mode = "external" THEN "merchant" ELSE "client"]
      BY <2>1 DEF VerifyToken, Carry, Goto
    <3>2. mode \in {"embedded", "external"}
      BY <1>1 DEF TypeOK
    <3>3. /\ pc'[a] = "client" => mode = "embedded"
          /\ pc'[a] \in {"client", "merchant", "passed"} => s \in token[t].scopes
      BY <1>1, <1>3, <3>1, <3>2 DEF TypeOK
    <3>4. carried'[a] = t /\ required'[a] = s
      BY <1>6, <3>1
    <3> QED
      BY <1>6, <3>1, <3>3, <3>4
  <2>2. CASE ReadClient(a) \/ ReadMerchant(a) \/ FailRead(a)
    <3>1. carried' = carried /\ required' = required /\ pc[a] \in {"client", "merchant"}
      BY <2>2 DEF ReadClient, ReadMerchant, FailRead, inputVars
    <3>2. pc'[a] # "client"
      BY <1>1, <1>3, <2>2 DEF ReadClient, ReadMerchant, FailRead, Goto, TypeOK
    <3>3. /\ carried[a] \in Tokens /\ token[carried[a]] # None
          /\ required[a] \in token[carried[a]].scopes
      BY <3>1 DEF OInv, RequestsCarry
    <3> QED
      BY <1>6, <3>1, <3>2, <3>3
  <2>3. CASE FindApiKey(a)
    <3>1. PICK k \in ApiKeys :
            /\ carried' = [carried EXCEPT ![a] = k] /\ required' = [required EXCEPT ![a] = None]
            /\ \/ pc' = [pc EXCEPT ![a] = IF KeyHolds(k) THEN "passed" ELSE "refused"]
               \/ pc' = [pc EXCEPT ![a] = "failed"]
      BY <2>3 DEF FindApiKey, Carry, Goto
    <3>2. pc'[a] \in {"passed", "refused", "failed"}
      BY <1>1, <1>3, <3>1 DEF TypeOK
    <3>3. carried'[a] = k
      BY <1>6, <3>1
    <3> QED
      BY <1>6, <3>1, <3>2, <3>3, CallsApart
  <2>4. CASE FailVerification(a)
    <3>1. PICK t \in Tokens, s \in Scopes :
            carried' = [carried EXCEPT ![a] = t] /\ required' = [required EXCEPT ![a] = s]
      BY <2>4 DEF FailVerification, Carry
    <3>2. pc'[a] = "refused"
      BY <1>1, <1>3, <2>4 DEF FailVerification, Goto, TypeOK
    <3> QED
      BY <1>6, <3>1, <3>2
  <2> QED
    BY <2>1, <2>2, <2>3, <2>4 DEF RequestStep
<1>8. TypeOK'
  BY <1>0, <1>1, <1>4, <1>7 DEF TypeOK, HistoriesTyped
<1>9. Registered'
  BY <1>0, <1>5 DEF OInv, Registered, RegisteredFor, InvitationOf
<1>10. OneEach' /\ UsedByClient'
  BY <1>0, <1>5 DEF OInv, OneEach, UsedByClient, InvitationOf
<1>11. TokensClaim'
  BY <1>0, <1>5 DEF OInv, TokensClaim
<1>12. RequestsCarry'
  BY <1>0, <1>5, <1>7 DEF OInv, RequestsCarry
<1> QED
  BY <1>8, <1>9, <1>10, <1>11, <1>12 DEF OInv

-----------------------------------------------------------------------------
(* The invariant, and what it is for.                                      *)

LEMMA StepInv == OInv /\ [Next]_vars => OInv'
<1> SUFFICES ASSUME OInv, [Next]_vars
             PROVE  OInv'
  OBVIOUS
<1>1. CASE Next
  <2>1. HistoriesTyped
    BY <1>1, HistoryTypes DEF OInv
  <2>2. Operation
    BY <1>1 DEF Next
  <2>3. CASE (\E m \in Merchants : ProvisionMerchant(m)) \/ Lapse
    BY <2>1, <2>3, OperatorInv
  <2>4. ASSUME NEW i \in Invitations, Invite(i)
        PROVE  OInv'
    BY <2>1, <2>4, InviteInv
  <2>5. ASSUME NEW g \in Clients, RegisterStep(g) \/ LoseRegistration(g) \/ DisableClient(g)
        PROVE  OInv'
    BY <2>1, <2>5, DisableInv, FindChallengeInv, LockInv, CommitInv DEF RegisterStep
  <2>6. ASSUME NEW k \in Challenges, ChallengeStep(k)
        PROVE  OInv'
    BY <2>1, <2>6, ChallengeInv
  <2>7. ASSUME NEW t \in Tokens, TokenStep(t) \/ IssueExternally(t)
        PROVE  OInv'
    BY <2>1, <2>7, FindClientInv, ReturnTokenInv, IssueExternallyInv DEF TokenStep
  <2>8. ASSUME NEW a \in Requests, RequestStep(a)
        PROVE  OInv'
    BY <2>1, <2>8, RequestInv
  <2> QED
    BY <2>2, <2>3, <2>4, <2>5, <2>6, <2>7, <2>8 DEF Operation
<1>2. CASE UNCHANGED vars
  <2>0. /\ mode' = mode /\ invitation' = invitation /\ client' = client /\ merchant' = merchant
        /\ apiKey' = apiKey /\ provisions' = provisions /\ lapsed' = lapsed
        /\ challenge' = challenge /\ asked' = asked /\ carried' = carried /\ required' = required
        /\ named' = named /\ signer' = signer /\ tokened' = tokened /\ pc' = pc
        /\ token' = token /\ seen' = seen /\ missed' = missed
    BY <1>2 DEF vars, merchantVars, inputVars, historyVars
  <2>1. TypeOK'
    BY <2>0 DEF OInv, TypeOK
  <2>2. \A g \in Clients : InvitationOf(g)' = InvitationOf(g)
    BY <2>0 DEF InvitationOf
  <2>3. Registered'
    BY <2>0, <2>2 DEF OInv, Registered, RegisteredFor
  <2>4. OneEach'
    BY <2>0, <2>2 DEF OInv, OneEach
  <2>5. UsedByClient'
    BY <2>0, <2>2 DEF OInv, UsedByClient
  <2>6. TokensClaim'
    BY <2>0 DEF OInv, TokensClaim
  <2>7. RequestsCarry'
    BY <2>0 DEF OInv, RequestsCarry
  <2> QED
    BY <2>1, <2>3, <2>4, <2>5, <2>6, <2>7 DEF OInv
<1> QED
  BY <1>1, <1>2

\* The inductive invariant holds of every reachable state.
THEOREM OAuthInvariant == Spec => []OInv
  BY InitInv, StepInv, PTL DEF Spec

\* Every variable stays in its type: what registerOAuthClient, issueToken and
\* authenticate store and return has the columns and claims they say.
THEOREM OAuthTypesHold == Spec => []TypeOK
<1>1. OInv => TypeOK
  BY DEF OInv
<1> QED
  BY <1>1, OAuthInvariant, PTL

\* However many registrations of an invitation run at once, fail half way or lose
\* their answer, registerOAuthClient makes one client of it, and uses the
\* invitation with that client and not otherwise.
THEOREM InvitationsMakeOneClient == Spec => []OneClientPerInvitation
<1>1. ASSUME OInv
      PROVE  OneClientPerInvitation
  <2> SUFFICES ASSUME NEW i \in Invitations
               PROVE  LET made == {g \in {h \in Clients : client[h] # None} : InvitationOf(g) = i} IN
                        Cardinality(made) <= 1 /\ (invitation[i] = "used" <=> made # {})
    BY DEF OneClientPerInvitation
  <2> DEFINE made == {g \in {h \in Clients : client[h] # None} : InvitationOf(g) = i}
  <2>1. \A g, h \in made : g = h
    BY <1>1 DEF OInv, OneEach
  <2>2. Cardinality(made) <= 1
    <3>1. CASE made = {}
      BY <3>1, FS_EmptySet
    <3>2. ASSUME NEW g \in made
          PROVE  Cardinality(made) <= 1
      <4>1. made = {g}
        BY <2>1, <3>2
      <4>2. Cardinality({g}) = 1
        BY FS_Singleton
      <4> QED
        BY <4>1, <4>2
    <3> QED
      BY <3>1, <3>2
  <2>3. invitation[i] = "used" => made # {}
    BY <1>1 DEF OInv, UsedByClient
  <2>4. ASSUME NEW g \in made
        PROVE  invitation[i] = "used"
    <3>1. RegisteredFor(g)
      BY <1>1 DEF OInv, Registered
    <3> QED
      BY <3>1 DEF RegisteredFor
  <2> QED
    BY <2>2, <2>3, <2>4
<1> QED
  BY <1>1, OAuthInvariant, PTL

\* A client is its signer's, and what a token of the service opens was granted by
\* an invitation of the merchant it acts for.
THEOREM AccessIsGranted == Spec => []AccessAsGranted
<1>1. ASSUME OInv
      PROVE  AccessAsGranted
  <2>1. \A g \in Clients : /\ client[g] # None => client[g].wallet = signer[g]
                           /\ pc[g] = "done" => client[g] # None
    BY <1>1 DEF OInv, Registered, RegisteredFor
  <2>2. ASSUME NEW a \in Requests, mode = "embedded", pc[a] = "passed", carried[a] \in Tokens
        PROVE  \E g \in Clients :
                 /\ token[carried[a]].client = g
                 /\ Inviter[InvitationOf(g)] = token[carried[a]].merchant
                 /\ required[a] \in Granted[InvitationOf(g)]
    <3>1. token[carried[a]] # None /\ required[a] \in token[carried[a]].scopes
      BY <1>1, <2>2 DEF OInv, RequestsCarry
    <3>2. PICK g \in Clients :
            /\ token[carried[a]].client = g /\ client[g] # None
            /\ token[carried[a]].merchant = client[g].merchant
            /\ token[carried[a]].scopes \subseteq client[g].scopes
      BY <1>1, <2>2, <3>1 DEF OInv, TokensClaim
    <3>3. /\ client[g].merchant = Inviter[InvitationOf(g)]
          /\ client[g].scopes = Granted[InvitationOf(g)]
      BY <1>1, <3>2 DEF OInv, Registered, RegisteredFor
    <3> QED
      BY <3>1, <3>2, <3>3
  <2> QED
    BY <2>1, <2>2 DEF AccessAsGranted
<1> QED
  BY <1>1, OAuthInvariant, PTL

-----------------------------------------------------------------------------
(* What a request was judged by.                                           *)

\* A request that reads its client or its merchant has had its token in force
\* since it began; one that reads its merchant, its client too.
SeenSoFar ==
  \A a \in Requests :
    /\ pc[a] = "client" => "token" \in seen[a]
    /\ pc[a] = "merchant" => {"token", "client"} \subseteq seen[a]

LEMMA OnlyItsOwnSteps ==
  ASSUME TypeOK, Operation, NEW a \in Requests
  PROVE  pc'[a] = pc[a] \/ RequestStep(a)
<1>1. ASSUME NEW c \in Calls, NEW s \in Steps, pc' = [pc EXCEPT ![c] = s], c # a
      PROVE  pc'[a] = pc[a]
  BY <1>1, OneMoves DEF Calls
<1>2. ASSUME NEW k \in Challenges, ChallengeStep(k)
      PROVE  pc'[a] = pc[a]
  <2>1. \E s \in Steps : pc' = [pc EXCEPT ![k] = s]
    BY <1>2 DEF ChallengeStep, FindInvitation, FindInviter, InsertChallenge, Goto, Steps
  <2> QED
    BY <1>1, <2>1, CallsApart DEF Calls
<1>3. ASSUME NEW g \in Clients, RegisterStep(g) \/ LoseRegistration(g)
      PROVE  pc'[a] = pc[a]
  <2>1. \E s \in Steps : pc' = [pc EXCEPT ![g] = s]
    BY <1>3 DEF RegisterStep, FindChallenge, SnapshotRows, LockChallenge, LockInvitation,
                CommitClient, ReturnSecret, LoseRegistration, Goto, Steps
  <2> QED
    BY <1>1, <2>1, CallsApart DEF Calls
<1>4. ASSUME NEW t \in Tokens, TokenStep(t)
      PROVE  pc'[a] = pc[a]
  <2>1. \E s \in Steps : pc' = [pc EXCEPT ![t] = s]
    BY <1>4 DEF TokenStep, FindClient, ReturnToken, Goto, Steps
  <2> QED
    BY <1>1, <2>1, CallsApart DEF Calls
<1>5. ASSUME NEW b \in Requests \ {a}, RequestStep(b)
      PROVE  pc'[a] = pc[a]
  <2>1. \E s \in Steps : pc' = [pc EXCEPT ![b] = s]
    BY <1>5 DEF RequestStep, VerifyToken, FailVerification, ReadClient, ReadMerchant,
         FailRead, FindApiKey, Goto, Steps, Ended
  <2> QED
    BY <1>1, <2>1 DEF Calls
<1>6. ASSUME \/ \E m \in Merchants : ProvisionMerchant(m)
             \/ \E i \in Invitations : Invite(i)
             \/ \E g \in Clients : DisableClient(g)
             \/ \E t \in Tokens : IssueExternally(t)
             \/ Lapse
      PROVE  pc' = pc
  BY <1>6 DEF ProvisionMerchant, Invite, DisableClient, IssueExternally, Lapse
<1> QED
  BY <1>2, <1>3, <1>4, <1>5, <1>6 DEF Operation

\* What a request's own step adds to what has been in force, and what it ends on.
LEMMA Judged ==
  ASSUME OInv, SeenSoFar, NEW a \in Requests, RequestStep(a)
  PROVE  /\ pc'[a] = "client" => "token" \in InForce(a)
         /\ pc'[a] = "merchant" => {"token", "client"} \subseteq seen[a] \union InForce(a)
         /\ pc'[a] = "passed" => seen[a] \union InForce(a) = Grounds
         /\ pc'[a] = "refused" => InForce(a) # Grounds \/ AtVerifier(a)
<1>1. TypeOK
  BY DEF OInv
<1>2. a \in Calls /\ pc \in [Calls -> Steps]
  BY <1>1 DEF Calls, TypeOK
<1>3. InForce(a) \subseteq Grounds /\ seen[a] \subseteq Grounds
  BY <1>1 DEF InForce, Grounds, TypeOK
<1>4. carried \in [Requests -> Tokens \union ApiKeys \union {None}]
  BY <1>1 DEF TypeOK
<1>5. CASE VerifyToken(a)
  <2>1. PICK t \in Tokens, s \in Scopes :
          /\ carried' = [carried EXCEPT ![a] = t]
          /\ pc' = [pc EXCEPT ![a] = IF ~Verified(t) THEN "refused"
                ELSE IF s \notin token[t].scopes THEN "insufficient"
                ELSE IF mode = "external" THEN "merchant" ELSE "client"]
    BY <1>5 DEF VerifyToken, Carry, Goto
  <2>2. carried'[a] = t /\ t \notin ApiKeys
    BY <1>4, <2>1, CallsApart
  <2>3. /\ Verified(t) => "token" \in InForce(a)
        /\ ~Verified(t) => "token" \notin InForce(a)
        /\ mode = "external" => "client" \in InForce(a)
    BY <2>2 DEF InForce
  <2>4. /\ pc'[a] \in {"refused", "insufficient", "merchant", "client"}
        /\ pc'[a] = "refused" => ~Verified(t)
        /\ pc'[a] \in {"merchant", "client"} => Verified(t)
        /\ pc'[a] = "merchant" => mode = "external"
    BY <1>2, <2>1
  <2> QED
    BY <2>3, <2>4 DEF Grounds
<1>6. CASE ReadClient(a)
  <2>1. /\ carried' = carried /\ pc[a] = "client"
        /\ pc' = [pc EXCEPT ![a] = IF ClientAllows(a) THEN "merchant" ELSE "refused"]
    BY <1>6 DEF ReadClient, Goto, inputVars
  <2>2. /\ mode = "embedded" /\ carried[a] \in Tokens /\ token[carried[a]] # None
        /\ required[a] \in token[carried[a]].scopes
    BY <2>1 DEF OInv, RequestsCarry
  <2>3. /\ client[token[carried[a]].client].merchant = token[carried[a]].merchant
        /\ client[token[carried[a]].client].wallet = token[carried[a]].wallet
        /\ token[carried[a]].scopes \subseteq client[token[carried[a]].client].scopes
    BY <2>2 DEF OInv, TokensClaim
  <2>4. ClientAllows(a) <=> ActiveClient(token[carried[a]].client)
    BY <2>2, <2>3 DEF ClientAllows
  <2>5. "client" \in InForce(a) <=> ActiveClient(token[carried[a]].client)
    BY <2>1, <2>2, CallsApart DEF InForce
  <2>6. "token" \in seen[a]
    BY <2>1 DEF SeenSoFar
  <2>7. /\ pc'[a] \in {"merchant", "refused"}
        /\ pc'[a] = "merchant" <=> ClientAllows(a)
    BY <1>2, <2>1
  <2> QED
    BY <2>4, <2>5, <2>6, <2>7 DEF Grounds
<1>7. CASE ReadMerchant(a)
  <2>1. /\ carried' = carried /\ pc[a] = "merchant"
        /\ pc' = [pc EXCEPT ![a] = IF ActiveMerchant(token[carried[a]].merchant)
                                     THEN "passed" ELSE "refused"]
    BY <1>7 DEF ReadMerchant, Goto, inputVars
  <2>2. carried[a] \in Tokens /\ token[carried[a]] # None
    BY <2>1 DEF OInv, RequestsCarry
  <2>3. "merchant" \in InForce(a) <=> ActiveMerchant(token[carried[a]].merchant)
    BY <2>1, <2>2, CallsApart DEF InForce
  <2>4. {"token", "client"} \subseteq seen[a]
    BY <2>1 DEF SeenSoFar
  <2>5. /\ pc'[a] \in {"passed", "refused"}
        /\ pc'[a] = "passed" <=> ActiveMerchant(token[carried[a]].merchant)
    BY <1>2, <2>1
  <2> QED
    BY <1>3, <2>3, <2>4, <2>5 DEF Grounds
<1>8. CASE FindApiKey(a)
  <2>1. PICK k \in ApiKeys :
          /\ carried' = [carried EXCEPT ![a] = k]
          /\ \/ pc' = [pc EXCEPT ![a] = IF KeyHolds(k) THEN "passed" ELSE "refused"]
             \/ pc' = [pc EXCEPT ![a] = "failed"]
    BY <1>8 DEF FindApiKey, Carry, Goto
  <2>2. carried'[a] = k
    BY <1>4, <2>1
  <2>3. /\ {"token", "client"} \subseteq InForce(a)
        /\ "merchant" \in InForce(a) <=> KeyHolds(k)
    BY <2>1, <2>2 DEF InForce, KeyHolds, ActiveMerchant
  <2>4. \/ pc'[a] \in {"passed", "refused"} /\ (pc'[a] = "passed" <=> KeyHolds(k))
        \/ pc'[a] = "failed"
    BY <1>2, <2>1
  <2> QED
    BY <1>3, <2>3, <2>4 DEF Grounds
<1>9. CASE FailVerification(a)
  <2>1. pc'[a] = "refused" /\ mode = "external" /\ pc[a] = "idle"
    BY <1>2, <1>9 DEF FailVerification, Goto
  <2>2. PICK t \in Tokens : carried' = [carried EXCEPT ![a] = t]
    BY <1>9 DEF FailVerification, Carry
  <2> QED
    BY <1>4, <2>1, <2>2 DEF AtVerifier
<1>10. CASE FailRead(a)
  BY <1>2, <1>10 DEF FailRead, Goto
<1> QED
  BY <1>5, <1>6, <1>7, <1>8, <1>9, <1>10 DEF RequestStep

LEMMA SeenStep == OInv /\ SeenSoFar /\ [Next]_vars => SeenSoFar'
<1> SUFFICES ASSUME OInv, SeenSoFar, [Next]_vars, NEW a \in Requests
             PROVE  /\ pc'[a] = "client" => "token" \in seen'[a]
                    /\ pc'[a] = "merchant" => {"token", "client"} \subseteq seen'[a]
  BY DEF SeenSoFar
<1>1. CASE Next
  <2>1. pc'[a] \in {"client", "merchant"} => seen'[a] = seen[a] \union InForce(a)
    BY <1>1 DEF Next, Noted, Ended
  <2>2. CASE pc'[a] = pc[a]
    BY <2>1, <2>2 DEF SeenSoFar
  <2>3. CASE RequestStep(a)
    BY <2>1, <2>3, Judged
  <2> QED
    BY <1>1, <2>2, <2>3, OnlyItsOwnSteps DEF Next, OInv
<1>2. CASE UNCHANGED vars
  BY <1>2 DEF vars, historyVars, SeenSoFar
<1> QED
  BY <1>1, <1>2

\* authenticate, which reads token, client and merchant one after the other, passes
\* a request on what was in force during it, and refuses none without a ground but
\* one whose external token it could not verify.
THEOREM RequestsJudgedByGrounds == Spec => JudgedByGrounds
<1>1. Init => SeenSoFar
  BY DEF Init, SeenSoFar, Calls
<1>2. ASSUME OInv, SeenSoFar, [Next]_vars
      PROVE  [\A a \in Requests :
               /\ pc[a] # "passed" /\ pc'[a] = "passed" => seen[a] \union InForce(a) = Grounds
               /\ pc[a] # "refused" /\ pc'[a] = "refused" =>
                    missed[a] # {} \/ InForce(a) # Grounds \/ AtVerifier(a)]_vars
  <2>1. ASSUME Next, NEW a \in Requests, pc'[a] # pc[a]
        PROVE  RequestStep(a)
    BY <2>1, <1>2, OnlyItsOwnSteps DEF Next, OInv
  <2>2. ASSUME Next, NEW a \in Requests
        PROVE  /\ pc[a] # "passed" /\ pc'[a] = "passed" => seen[a] \union InForce(a) = Grounds
               /\ pc[a] # "refused" /\ pc'[a] = "refused" =>
                    InForce(a) # Grounds \/ AtVerifier(a)
    <3>1. CASE pc'[a] = pc[a]
      BY <3>1
    <3>2. CASE pc'[a] # pc[a]
      BY <1>2, <2>1, <2>2, <3>2, Judged
    <3> QED
      BY <3>1, <3>2
  <2> QED
    BY <1>2, <2>2
<1> QED
  BY <1>1, <1>2, InitInv, StepInv, SeenStep, PTL DEF Spec, JudgedByGrounds
=============================================================================
