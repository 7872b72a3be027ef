---------------------------- MODULE PartnerOAuth ----------------------------
(***************************************************************************)
(* Partner registration and access.  An operator invites a partner for a   *)
(* merchant; the partner asks for challenges, signs one with its wallet,   *)
(* and registers: the challenge and the invitation are consumed and an     *)
(* OAuth client is created in one transaction.  The client's secret gets   *)
(* tokens; each request with a token reads client and merchant again.      *)
(* Requests may carry a merchant's API key instead, and the service may be *)
(* configured for an external issuer, whose tokens name the merchant only. *)
(*                                                                         *)
(* Calls mint what they store, so challenges, clients and tokens are named *)
(* by their calls.  Rows change in nothing but what the variables hold:    *)
(* what a call has read of the rest of a row stays true.                   *)
(***************************************************************************)
EXTENDS Naturals, FiniteSets

CONSTANTS
  Invitations,
  Challenges,   \* issueChallenge calls
  Clients,      \* register calls
  Tokens,       \* issueToken calls, and the tokens of an external issuer
  Requests,     \* authenticate calls
  Merchants, Wallets, Scopes,
  ApiKeys,
  Inviter,      \* invitation -> merchant
  Granted,      \* invitation -> scopes
  Presents,     \* challenge -> invitation whose token the call presents
  ForWallet,    \* challenge -> wallet it asks a challenge for
  AsClient,     \* token -> client id the call presents
  Knows,        \* tokens whose call presents that client's secret
  FirstKey,     \* merchant -> its API key at first
  Provisions,   \* bound: operator's changes of merchants
  None

ASSUME PartnerOAuthAssumption ==
  /\ Inviter \in [Invitations -> Merchants]
  /\ Granted \in [Invitations -> (SUBSET Scopes) \ {{}}]
  /\ Presents \in [Challenges -> Invitations]
  /\ ForWallet \in [Challenges -> Wallets]
  /\ AsClient \in [Tokens -> Clients]
  /\ Knows \subseteq Tokens
  /\ Challenges \intersect (Clients \union Tokens \union Requests) = {}
  /\ Clients \intersect (Tokens \union Requests) = {}
  /\ Tokens \intersect (Requests \union ApiKeys) = {}
  /\ FirstKey \in [Merchants -> ApiKeys]
  /\ Provisions \in Nat
  /\ None \notin [merchant : Merchants, wallet : Wallets, scopes : SUBSET Scopes,
                status : {"active", "disabled"}]
  /\ None \notin [client : Clients \union {None}, merchant : Merchants,
                wallet : Wallets \union {None}, scopes : SUBSET Scopes]
  /\ None \notin Clients \union Challenges \union Wallets \union Tokens \union ApiKeys \union Scopes

VARIABLES
  mode,       \* "embedded" or "external", from the configuration
  merchant,   \* merchant -> status
  apiKey,     \* merchant -> the key its row has the hash of
  provisions,
  invitation, \* invitation -> "absent", "open" or "used"
  challenge,  \* challenge -> "absent", "open" or "used"
  client,     \* client -> its row: None, or merchant, wallet, scopes, status
  token,      \* token -> None, or the claims of a token that was handed out
  tokened,    \* clients with a last_token_at
  lapsed,     \* invitations, challenges and tokens whose expiry has passed
  named,      \* client -> challenge its call names, None if it was denied at once
  signer,     \* client -> wallet whose key signed that call, None likewise
  asked,      \* token -> the scopes its call asks for and will get
  carried,    \* request -> the token or API key it carries, None before it comes
  required,   \* request -> the scope of its endpoint, None before it comes
  pc,         \* challenge, client, token or request -> where its call stands
  seen,       \* history: request -> what was in force some time during it
  missed      \* history: request -> what was not, some time during it

merchantVars == <<merchant, apiKey, provisions>>
inputVars    == <<named, signer, asked, carried, required>>
historyVars  == <<seen, missed>>
vars == <<mode, merchantVars, invitation, challenge, client, token, tokened,
          lapsed, inputVars, pc, historyVars>>

Calls == Challenges \union Clients \union Tokens \union Requests

Init ==
  /\ mode \in {"embedded", "external"}
  /\ merchant   = [m \in Merchants |-> "active"]
  /\ apiKey     = FirstKey
  /\ provisions = 0
  /\ invitation = [i \in Invitations |-> "absent"]
  /\ challenge  = [k \in Challenges |-> "absent"]
  /\ client     = [g \in Clients |-> None]
  /\ token      = [t \in Tokens |-> None]
  /\ tokened    = {}
  /\ lapsed     = {}
  /\ named      = [g \in Clients |-> None]
  /\ signer     = [g \in Clients |-> None]
  /\ asked      = [t \in Tokens |-> {}]
  /\ carried    = [a \in Requests |-> None]
  /\ required   = [a \in Requests |-> None]
  /\ pc         = [c \in Calls |-> "idle"]
  /\ seen       = [a \in Requests |-> {}]
  /\ missed     = [a \in Requests |-> {}]

InvitationOf(g) == Presents[named[g]]

Goto(c, step) == pc' = [pc EXCEPT ![c] = step]

ActiveMerchant(m) == merchant[m] = "active"

\* findActiveOAuthClient.
ActiveClient(g) == client[g] # None /\ client[g].status = "active"

-----------------------------------------------------------------------------
(* The operator's commands, and time.                                      *)

\* provisionMerchant replaces the row; hashes of keys are unique.
ProvisionMerchant(m) ==
  /\ provisions < Provisions
  /\ provisions' = provisions + 1
  /\ \E status \in {"active", "disabled"} : merchant' = [merchant EXCEPT ![m] = status]
  /\ \E k \in ApiKeys :
       /\ \A n \in Merchants \ {m} : apiKey[n] # k
       /\ apiKey' = [apiKey EXCEPT ![m] = k]
  /\ <<merchant', apiKey'>> # <<merchant, apiKey>>
  /\ UNCHANGED <<mode, inputVars, invitation, challenge, client, token, tokened, lapsed, pc>>

\* The script has found the merchant active, a moment ago.
Invite(i) ==
  /\ invitation[i] = "absent"
  /\ invitation' = [invitation EXCEPT ![i] = "open"]
  /\ UNCHANGED <<mode, inputVars, merchantVars, challenge, client, token, tokened, lapsed, pc>>

DisableClient(g) ==
  /\ ActiveClient(g)
  /\ client' = [client EXCEPT ![g].status = "disabled"]
  /\ UNCHANGED <<mode, inputVars, merchantVars, invitation, challenge, token, tokened, lapsed, pc>>

Lapse ==
  /\ \E x \in {i \in Invitations : invitation[i] = "open"}
           \union {k \in Challenges : challenge[k] = "open"}
           \union {t \in Tokens : token[t] # None} :
       lapsed' = lapsed \union {x}
  /\ UNCHANGED <<mode, inputVars, merchantVars, invitation, challenge, client, token, tokened, pc>>

-----------------------------------------------------------------------------
(* issueChallenge.                                                         *)

OpenInvitation(i) == invitation[i] = "open" /\ i \notin lapsed

FindInvitation(k) ==
  /\ mode = "embedded"
  /\ pc[k] = "idle"
  /\ Goto(k, IF OpenInvitation(Presents[k]) THEN "merchant" ELSE "denied")
  /\ UNCHANGED <<mode, inputVars, merchantVars, invitation, challenge, client, token, tokened, lapsed>>

FindInviter(k) ==
  /\ pc[k] = "merchant"
  /\ Goto(k, IF ActiveMerchant(Inviter[Presents[k]]) THEN "insert" ELSE "denied")
  /\ UNCHANGED <<mode, inputVars, merchantVars, invitation, challenge, client, token, tokened, lapsed>>

InsertChallenge(k) ==
  /\ pc[k] = "insert"
  /\ challenge' = [challenge EXCEPT ![k] = "open"]
  /\ Goto(k, "done")
  /\ UNCHANGED <<mode, inputVars, merchantVars, invitation, client, token, tokened, lapsed>>

-----------------------------------------------------------------------------
(* register.                                                               *)

Registrable(k) ==
  /\ challenge[k] = "open"
  /\ invitation[Presents[k]] = "open"
  /\ ActiveMerchant(Inviter[Presents[k]])

\* The challenge's own message, signed with the key of the challenge's wallet.
ValidSignature(k, message, wallet) == message = k /\ wallet = ForWallet[k]

(* The time of the call is read here, and what has not expired at that     *)
(* time passes the same test in the transaction.                           *)
FindChallenge(g) ==
  /\ mode = "embedded"
  /\ pc[g] = "idle"
  /\ \E k, message \in Challenges, wallet \in Wallets :
       IF /\ Registrable(k)
          /\ {k, Presents[k]} \intersect lapsed = {}
          /\ ValidSignature(k, message, wallet)
         THEN /\ Goto(g, "select")
              /\ named' = [named EXCEPT ![g] = k]
              /\ signer' = [signer EXCEPT ![g] = wallet]
         ELSE Goto(g, "denied") /\ UNCHANGED <<named, signer>>
  /\ UNCHANGED <<mode, merchantVars, invitation, challenge, client, token, tokened,
                 lapsed, asked, carried, required>>

(* SELECT ... FOR UPDATE OF c, i takes a snapshot, then locks one row and  *)
(* the other.  A row that changed while it waited is tested again.         *)
SnapshotRows(g) ==
  /\ pc[g] = "select"
  /\ Goto(g, IF Registrable(named[g]) THEN "lock challenge" ELSE "denied")
  /\ UNCHANGED <<mode, inputVars, merchantVars, invitation, challenge, client, token, tokened, lapsed>>

LockChallenge(g) ==
  /\ pc[g] = "lock challenge"
  /\ \A h \in Clients : named[h] = named[g] => pc[h] \notin {"lock invitation", "commit"}
  /\ Goto(g, IF challenge[named[g]] = "open" THEN "lock invitation" ELSE "denied")
  /\ UNCHANGED <<mode, inputVars, merchantVars, invitation, challenge, client, token, tokened, lapsed>>

\* Mutant: a lock shared since the snapshot, to be upgraded here.
InvitationShared(g) ==
  \A h \in Clients \ {g} :
    pc[h] \in {"lock invitation", "commit"} => InvitationOf(h) # InvitationOf(g)

InvitationFree(g) ==
  \A h \in Clients : pc[h] = "commit" => InvitationOf(h) # InvitationOf(g)

\* Mutant: the row is not tested again.
SnapshotUnused(g) == TRUE

StillUnused(g) == invitation[InvitationOf(g)] = "open"

LockInvitation(g) ==
  /\ pc[g] = "lock invitation"
  /\ InvitationFree(g)
  /\ Goto(g, IF StillUnused(g) THEN "commit" ELSE "denied")
  /\ UNCHANGED <<mode, inputVars, merchantVars, invitation, challenge, client, token, tokened, lapsed>>

\* Mutant: the client gets every scope there is.
AllScopes(g) == Scopes

InvitedScopes(g) == Granted[InvitationOf(g)]

(* Both are marked used and the client inserted: others see none of the    *)
(* three before the commit.                                                *)
CommitClient(g) ==
  /\ pc[g] = "commit"
  /\ challenge' = [challenge EXCEPT ![named[g]] = "used"]
  /\ invitation' = [invitation EXCEPT ![InvitationOf(g)] = "used"]
  /\ client' = [client EXCEPT ![g] =
       [merchant |-> Inviter[InvitationOf(g)], wallet |-> ForWallet[named[g]],
        scopes |-> InvitedScopes(g), status |-> "active"]]
  /\ Goto(g, "answer")
  /\ UNCHANGED <<mode, inputVars, merchantVars, token, tokened, lapsed>>

\* The secret exists in this answer and nowhere else.
ReturnSecret(g) ==
  /\ pc[g] = "answer"
  /\ Goto(g, "done")
  /\ UNCHANGED <<mode, inputVars, merchantVars, invitation, challenge, client, token, tokened, lapsed>>

(* The service stops, or the connection to the database breaks: locks are  *)
(* released and what was not committed is undone.                          *)
LoseRegistration(g) ==
  /\ pc[g] \notin {"idle", "done", "denied"}
  /\ Goto(g, "denied")
  /\ UNCHANGED <<mode, inputVars, merchantVars, invitation, challenge, client, token, tokened, lapsed>>

-----------------------------------------------------------------------------
(* issueToken.                                                             *)

\* Mutant: to ask for nothing is to get nothing.
AskedAlone(scopes, allowed) == scopes

\* normalizeScopes: all that are allowed unless the form names some of them.
TokenScopes(scopes, allowed) == IF scopes = {} THEN allowed ELSE scopes

FindClient(t) ==
  LET g == AsClient[t] IN
  /\ mode = "embedded"
  /\ pc[t] = "idle"
  /\ \E scopes \in SUBSET Scopes :
       IF ActiveClient(g) /\ t \in Knows /\ scopes \subseteq client[g].scopes
         THEN /\ Goto(t, "sign")
              /\ asked' = [asked EXCEPT ![t] = TokenScopes(scopes, client[g].scopes)]
         ELSE Goto(t, "denied") /\ UNCHANGED asked
  /\ UNCHANGED <<mode, merchantVars, invitation, challenge, client, token, tokened,
                 lapsed, named, signer, carried, required>>

\* Nobody looks whether the UPDATE still found the client active.
ReturnToken(t) ==
  LET g == AsClient[t] IN
  /\ pc[t] = "sign"
  /\ token' = [token EXCEPT ![t] =
       [client |-> g, merchant |-> client[g].merchant, wallet |-> client[g].wallet,
        scopes |-> asked[t]]]
  /\ tokened' = IF ActiveClient(g) THEN tokened \union {g} ELSE tokened
  /\ Goto(t, "done")
  /\ UNCHANGED <<mode, inputVars, merchantVars, invitation, challenge, client, lapsed>>

\* An external issuer decides for itself whom it gives what.
IssueExternally(t) ==
  /\ mode = "external"
  /\ token[t] = None
  /\ \E m \in Merchants, s \in (SUBSET Scopes) \ {{}} :
       token' = [token EXCEPT ![t] = [client |-> None, merchant |-> m, wallet |-> None,
                                      scopes |-> s]]
  /\ UNCHANGED <<mode, inputVars, merchantVars, invitation, challenge, client, tokened, lapsed, pc>>

-----------------------------------------------------------------------------
(* authenticate.                                                           *)

Carry(a, credential, scope) ==
  /\ carried' = [carried EXCEPT ![a] = credential]
  /\ required' = [required EXCEPT ![a] = scope]

Verified(t) == token[t] # None /\ t \notin lapsed

\* A token: its signature and expiry, and the scope it carries.
VerifyToken(a) ==
  /\ pc[a] = "idle"
  /\ \E t \in {u \in Tokens : token[u] # None}, s \in Scopes :
       /\ Carry(a, t, s)
       /\ Goto(a, IF ~Verified(t) THEN "refused"
                  ELSE IF s \notin token[t].scopes THEN "insufficient"
                  ELSE IF mode = "external" THEN "merchant" ELSE "client")
  /\ UNCHANGED <<mode, named, signer, asked, merchantVars, invitation, challenge, client, token, tokened, lapsed>>

(* The keys of an external issuer are fetched when needed: an issuer that  *)
(* is slow or down, like claims that are not in its form, ends the request *)
(* as unauthorized, with a good token as well.                             *)
FailVerification(a) ==
  /\ mode = "external"
  /\ pc[a] = "idle"
  /\ \E t \in {u \in Tokens : token[u] # None}, s \in Scopes : Carry(a, t, s)
  /\ Goto(a, "refused")
  /\ UNCHANGED <<mode, named, signer, asked, merchantVars, invitation, challenge, client, token, tokened, lapsed>>

\* Mutant: the claims are believed.
ClaimsBelieved(a) == TRUE

ClientAllows(a) ==
  LET t == token[carried[a]] IN
  /\ ActiveClient(t.client)
  /\ client[t.client].merchant = t.merchant
  /\ client[t.client].wallet = t.wallet
  /\ required[a] \in client[t.client].scopes

ReadClient(a) ==
  /\ pc[a] = "client"
  /\ Goto(a, IF ClientAllows(a) THEN "merchant" ELSE "refused")
  /\ UNCHANGED <<mode, inputVars, merchantVars, invitation, challenge, client, token, tokened, lapsed>>

ReadMerchant(a) ==
  /\ pc[a] = "merchant"
  /\ Goto(a, IF ActiveMerchant(token[carried[a]].merchant) THEN "passed" ELSE "refused")
  /\ UNCHANGED <<mode, inputVars, merchantVars, invitation, challenge, client, token, tokened, lapsed>>

\* A query that fails is no verdict: the error goes on to the caller.
FailRead(a) ==
  /\ pc[a] \in {"client", "merchant"}
  /\ Goto(a, "failed")
  /\ UNCHANGED <<mode, inputVars, merchantVars, invitation, challenge, client, token, tokened, lapsed>>

\* An API key has no scopes.
KeyHolds(k) == \E m \in Merchants : ActiveMerchant(m) /\ apiKey[m] = k

FindApiKey(a) ==
  /\ pc[a] = "idle"
  /\ \E k \in ApiKeys :
       /\ Carry(a, k, None)
       /\ Goto(a, IF KeyHolds(k) THEN "passed" ELSE "refused") \/ Goto(a, "failed")
  /\ UNCHANGED <<mode, named, signer, asked, merchantVars, invitation, challenge, client, token, tokened, lapsed>>

-----------------------------------------------------------------------------
ChallengeStep(k) == FindInvitation(k) \/ FindInviter(k) \/ InsertChallenge(k)

RegisterStep(g) ==
  \/ FindChallenge(g) \/ SnapshotRows(g) \/ LockChallenge(g) \/ LockInvitation(g)
  \/ CommitClient(g) \/ ReturnSecret(g)

TokenStep(t) == FindClient(t) \/ ReturnToken(t)

RequestStep(a) ==
  \/ VerifyToken(a) \/ FailVerification(a) \/ ReadClient(a) \/ ReadMerchant(a)
  \/ FailRead(a) \/ FindApiKey(a)

Operation ==
  \/ \E m \in Merchants : ProvisionMerchant(m)
  \/ \E i \in Invitations : Invite(i)
  \/ \E g \in Clients : RegisterStep(g) \/ LoseRegistration(g) \/ DisableClient(g)
  \/ \E k \in Challenges : ChallengeStep(k)
  \/ \E t \in Tokens : TokenStep(t) \/ IssueExternally(t)
  \/ \E a \in Requests : RequestStep(a)
  \/ Lapse

Ended == {"passed", "refused", "insufficient", "failed"}

Steps == {"idle", "merchant", "insert", "select", "lock challenge", "lock invitation",
          "commit", "answer", "sign", "client", "done", "denied"} \union Ended

\* What of the grounds for passing a request holds now.
InForce(a) ==
  LET t == carried'[a] IN
  IF t \in ApiKeys
    THEN {"token", "client"} \union {g \in {"merchant"} : \E m \in Merchants : merchant[m] = "active" /\ apiKey[m] = t}
    ELSE {g \in {"token"} : Verified(t)}
      \union {g \in {"client"} : \/ mode = "external"
                                 \/ token[t] # None /\ ActiveClient(token[t].client)}
      \union {g \in {"merchant"} : token[t] # None /\ ActiveMerchant(token[t].merchant)}

Grounds == {"token", "client", "merchant"}

\* While a request runs, the history notes the grounds in force before each step.
Noted(history, grounds(_)) ==
  [a \in Requests |->
     IF pc'[a] \in Ended \union {"idle"} THEN {} ELSE history[a] \union grounds(a)]

Next ==
  /\ Operation
  /\ seen' = Noted(seen, InForce)
  /\ missed' = Noted(missed, LAMBDA a : Grounds \ InForce(a))

Spec == Init /\ [][Next]_vars

\* A registration that has started goes on, or fails.
FairSpec == Spec /\ \A g \in Clients : WF_pc(pc[g] # "idle" /\ RegisterStep(g))

-----------------------------------------------------------------------------
(* Properties.                                                             *)

TypeOK ==
  /\ mode \in {"embedded", "external"}
  /\ merchant \in [Merchants -> {"active", "disabled"}]
  /\ apiKey \in [Merchants -> ApiKeys]
  /\ provisions \in 0 .. Provisions
  /\ invitation \in [Invitations -> {"absent", "open", "used"}]
  /\ challenge \in [Challenges -> {"absent", "open", "used"}]
  /\ client \in [Clients -> {None} \union
       [merchant : Merchants, wallet : Wallets, scopes : SUBSET Scopes,
        status : {"active", "disabled"}]]
  /\ token \in [Tokens -> {None} \union
       [client : Clients \union {None}, merchant : Merchants,
        wallet : Wallets \union {None}, scopes : (SUBSET Scopes) \ {{}}]]
  /\ tokened \subseteq Clients
  /\ lapsed \subseteq Invitations \union Challenges \union Tokens
  /\ named \in [Clients -> Challenges \union {None}]
  /\ signer \in [Clients -> Wallets \union {None}]
  /\ asked \in [Tokens -> SUBSET Scopes]
  /\ carried \in [Requests -> Tokens \union ApiKeys \union {None}]
  /\ required \in [Requests -> Scopes \union {None}]
  /\ pc \in [Calls -> Steps]
  /\ seen \in [Requests -> SUBSET Grounds]
  /\ missed \in [Requests -> SUBSET Grounds]

(* An invitation makes one client: registrations of several challenges of  *)
(* it, or of one challenge several times, that run at the same time, fail  *)
(* half way or lose their answer make no second one, and an invitation is  *)
(* never used up without its client.                                       *)
OneClientPerInvitation ==
  \A i \in Invitations :
    LET made == {g \in {h \in Clients : client[h] # None} : InvitationOf(g) = i} IN
    /\ Cardinality(made) <= 1
    /\ invitation[i] = "used" <=> made # {}

(* A client belongs to the wallet whose key signed its registration, and   *)
(* the secret that was returned is that of a stored client.  With a token  *)
(* of the service, a request passes only in a scope that an invitation of  *)
(* the merchant it acts for granted, through challenge, client and token.  *)
AccessAsGranted ==
  /\ \A g \in Clients :
       /\ client[g] # None => client[g].wallet = signer[g]
       /\ pc[g] = "done" => client[g] # None
  /\ \A a \in Requests :
       mode = "embedded" /\ pc[a] = "passed" /\ carried[a] \in Tokens =>
         \E g \in Clients :
           /\ token[carried[a]].client = g
           /\ Inviter[InvitationOf(g)] = token[carried[a]].merchant
           /\ required[a] \in Granted[InvitationOf(g)]

\* The step at which an external issuer's token is verified, or fails to be.
AtVerifier(a) == mode = "external" /\ pc[a] = "idle" /\ carried'[a] \in Tokens

(* What was revoked before a request began, and not restored meanwhile,    *)
(* does not pass it: token, client and merchant were each in force some    *)
(* time during the request, though perhaps not at one time.  And a request *)
(* is refused only when one of them was not in force some time during it,  *)
(* or because an external issuer's token could not be verified: once it    *)
(* was, and with a token of the service or an API key, every refusal has   *)
(* a ground.                                                               *)
JudgedByGrounds ==
  [][\A a \in Requests :
       /\ pc[a] # "passed" /\ pc'[a] = "passed" => seen[a] \union InForce(a) = Grounds
       /\ pc[a] # "refused" /\ pc'[a] = "refused" =>
            missed[a] # {} \/ InForce(a) # Grounds \/ AtVerifier(a)]_vars

(* Registrations that wait for each other's rows all end.                  *)
RegistrationsEnd ==
  \A g \in Clients : pc[g] # "idle" ~> pc[g] \in {"done", "denied"}
=============================================================================
