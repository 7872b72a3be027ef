----------------------------- MODULE QuoteIssue -----------------------------
(***************************************************************************)
(* The facilitator issues quotes.  A request, made to the quote route or   *)
(* through the tool of the MCP service, is authenticated, admitted by its  *)
(* merchant's fixed window, resolved by the merchant's policy as it was    *)
(* read, signed, stored, and only then answered.  Operators provision      *)
(* merchants anew while requests are under way, and the process may end at *)
(* any step: its windows are in memory, its rows are not.                  *)
(***************************************************************************)
EXTENDS Naturals, FiniteSets

CONSTANTS
  Requests,
  ByMcp,       \* requests that are tool calls
  Merchants,
  ClientOf,    \* request -> merchant of its credential
  Policies,    \* what a merchant may be provisioned with
  FirstPolicy,
  Serves,      \* policy -> requests that one of its routes permits
  Ttl,         \* policy -> seconds its quotes live
  MaxTtl,
  Maximum,     \* requests of a merchant admitted in one window
  Window,      \* length of a window
  MaxClock,    \* bound: the time
  Provisions,  \* bound: changes of a merchant
  Restarts,    \* bound: restarts of the process
  None

ASSUME QuoteIssueAssumption ==
  /\ IsFiniteSet(Requests)
  /\ ByMcp \subseteq Requests
  /\ ClientOf \in [Requests -> Merchants]
  /\ FirstPolicy \in [Merchants -> Policies]
  /\ Serves \in [Policies -> SUBSET Requests]
  /\ Ttl \in [Policies -> Nat \ {0}]
  /\ MaxTtl \in Nat
  /\ Maximum \in Nat \ {0}
  /\ Window \in Nat \ {0}
  /\ MaxClock \in Nat
  /\ Provisions \in Nat
  /\ Restarts \in Nat
  /\ None \notin Policies \union Nat
  /\ None \notin [policy : Policies, issuedAt : Nat, expiresAt : Nat]

VARIABLES
  clock,
  policy,     \* merchant -> its row: what it is provisioned with, None if disabled
  started,    \* merchant -> start of its window, None without one
  count,      \* merchant -> requests its window has admitted
  pc,         \* request -> where it stands
  merchant,   \* request -> the row as it was read
  quotes,     \* request -> row of the quote that it made
  admitted,   \* request -> time at which it was admitted by this process
  seen,       \* history: request -> rows of its merchant since it came in
  provisions, \* changes of merchants so far
  restarts

limiterVars == <<started, count, admitted>>
worldVars   == <<clock, policy, provisions, restarts>>
vars == <<worldVars, limiterVars, pc, merchant, quotes, seen>>

Init ==
  /\ clock      = 0
  /\ policy     = FirstPolicy
  /\ started    = [m \in Merchants |-> None]
  /\ count      = [m \in Merchants |-> 0]
  /\ pc         = [r \in Requests |-> "idle"]
  /\ merchant   = [r \in Requests |-> None]
  /\ quotes     = [r \in Requests |-> None]
  /\ admitted   = [r \in Requests |-> None]
  /\ seen       = [r \in Requests |-> {}]
  /\ provisions = 0
  /\ restarts   = 0

Ended    == {"refused", "answered"}
UnderWay == {r \in Requests : pc[r] \notin Ended \union {"idle"}}

Proceed(r, step) == pc' = [pc EXCEPT ![r] = step] /\ UNCHANGED <<merchant, seen>>

\* Whatever the error is, there is no quote, and what was read is gone.
Refuse(r) ==
  /\ pc' = [pc EXCEPT ![r] = "refused"]
  /\ merchant' = [merchant EXCEPT ![r] = None]
  /\ seen' = [seen EXCEPT ![r] = {}]

-----------------------------------------------------------------------------
(* Who asks.                                                               *)

Arrive(r) ==
  /\ pc[r] = "idle"
  /\ pc' = [pc EXCEPT ![r] = IF r \in ByMcp THEN "mcp" ELSE "authenticate"]
  /\ seen' = [seen EXCEPT ![r] = {policy[ClientOf[r]]}]
  /\ UNCHANGED <<worldVars, limiterVars, merchant, quotes>>

\* A tool call is authenticated for the service, and again for the quote.
AuthenticateCall(r) ==
  /\ pc[r] = "mcp"
  /\ \/ policy[ClientOf[r]] # None /\ Proceed(r, "authenticate")
     \/ Refuse(r)
  /\ UNCHANGED <<worldVars, limiterVars, quotes>>

\* Mutant: merchants are those the process knew when it started.
KnownMerchant(r) == FirstPolicy[ClientOf[r]]

ActiveMerchant(r) == policy[ClientOf[r]]

\* Every error is one of the credential.
Authenticate(r) ==
  /\ pc[r] = "authenticate"
  /\ \/ /\ ActiveMerchant(r) # None
        /\ merchant' = [merchant EXCEPT ![r] = ActiveMerchant(r)]
        /\ pc' = [pc EXCEPT ![r] = "admit"]
        /\ UNCHANGED seen
     \/ Refuse(r)
  /\ UNCHANGED <<worldVars, limiterVars, quotes>>

-----------------------------------------------------------------------------
(* The window, and the policy.  There is no wait between the two.          *)

WindowOver(m) == started[m] = None \/ clock - started[m] >= Window

\* Mutant: a window that is over is opened without its first request.
Charged == 0

\* What a window has admitted when it opens.
Opening == 1

\* Mutant: the maximum is compared with what was admitted, this one excepted.
WindowCrowded(m) == ~WindowOver(m) /\ count[m] > Maximum

WindowFull(m) == ~WindowOver(m) /\ count[m] >= Maximum

Consume(m) ==
  /\ started' = IF WindowOver(m) THEN [started EXCEPT ![m] = clock] ELSE started
  /\ count' = [count EXCEPT ![m] = IF WindowOver(m) THEN Opening ELSE @ + 1]

Limit(r) ==
  /\ pc[r] = "admit"
  /\ WindowFull(ClientOf[r])
  /\ Refuse(r)
  /\ UNCHANGED <<worldVars, limiterVars, quotes>>

\* The route is known, permits the request, and its quotes live no longer than
\* they may.
Resolves(p, r) == r \in Serves[p] /\ Ttl[p] <= MaxTtl

\* The window is charged for a request that the policy then refuses.
Resolve(r) ==
  /\ pc[r] = "admit"
  /\ ~WindowFull(ClientOf[r])
  /\ Consume(ClientOf[r])
  /\ admitted' = [admitted EXCEPT ![r] = clock]
  /\ IF Resolves(merchant[r], r) THEN Proceed(r, "insert") ELSE Refuse(r)
  /\ UNCHANGED <<worldVars, quotes>>

-----------------------------------------------------------------------------
(* The quote.                                                              *)

Quote(r) ==
  [policy |-> merchant[r], issuedAt |-> admitted[r],
   expiresAt |-> admitted[r] + Ttl[merchant[r]]]

\* Signing changes nothing here.  Mutant: the answer does not wait for the row.
InsertAhead(r) == Proceed(r, "answered") /\ UNCHANGED quotes

InsertIssuedQuote(r) == Proceed(r, "answered") /\ quotes' = [quotes EXCEPT ![r] = Quote(r)]

\* Signer or database fail, or only the connection does: then there is a row
\* that nobody was told of.
InsertFails(r) ==
  /\ Refuse(r)
  /\ UNCHANGED quotes \/ quotes' = [quotes EXCEPT ![r] = Quote(r)]

Insert(r) ==
  /\ pc[r] = "insert"
  /\ InsertIssuedQuote(r) \/ InsertFails(r)
  /\ UNCHANGED <<worldVars, limiterVars>>

-----------------------------------------------------------------------------
(* Time, operators, restarts.                                              *)

Tick ==
  /\ clock < MaxClock
  /\ clock' = clock + 1
  /\ UNCHANGED <<policy, provisions, restarts, limiterVars, pc, merchant, quotes, seen>>

\* The script replaces the row and makes the merchant active.
SetMerchant(m, p) ==
  /\ provisions < Provisions
  /\ provisions' = provisions + 1
  /\ policy' = [policy EXCEPT ![m] = p]
  /\ seen' = [r \in Requests |-> IF r \in UnderWay /\ ClientOf[r] = m
                                   THEN seen[r] \union {p} ELSE seen[r]]
  /\ UNCHANGED <<clock, restarts, limiterVars, pc, merchant, quotes>>

Provision(m) == \E p \in Policies \ {policy[m]} : SetMerchant(m, p)

Disable(m) == policy[m] # None /\ SetMerchant(m, None)

Restart ==
  /\ restarts < Restarts
  /\ restarts' = restarts + 1
  /\ started' = [m \in Merchants |-> None]
  /\ count' = [m \in Merchants |-> 0]
  /\ admitted' = [r \in Requests |-> None]
  /\ pc' = [r \in Requests |-> IF r \in UnderWay THEN "refused" ELSE pc[r]]
  /\ merchant' = [r \in Requests |-> IF r \in UnderWay THEN None ELSE merchant[r]]
  /\ seen' = [r \in Requests |-> IF r \in UnderWay THEN {} ELSE seen[r]]
  /\ UNCHANGED <<clock, policy, provisions, quotes>>

-----------------------------------------------------------------------------
Next ==
  \/ \E r \in Requests :
       \/ Arrive(r) \/ AuthenticateCall(r) \/ Authenticate(r) \/ Limit(r) \/ Resolve(r)
       \/ Insert(r)
  \/ \E m \in Merchants : Provision(m) \/ Disable(m)
  \/ Tick \/ Restart

Spec == Init /\ [][Next]_vars

-----------------------------------------------------------------------------
(* Properties.                                                             *)

Rows == [policy : Policies, issuedAt : 0 .. MaxClock, expiresAt : Nat]

(* Types; a window never counts more than the maximum, however many of a   *)
(* merchant's requests are authenticated at once.                          *)
TypeOK ==
  /\ clock \in 0 .. MaxClock
  /\ policy \in [Merchants -> Policies \union {None}]
  /\ started \in [Merchants -> (0 .. MaxClock) \union {None}]
  /\ count \in [Merchants -> 0 .. Maximum]
  /\ pc \in [Requests -> {"idle", "mcp", "authenticate", "admit", "insert"} \union Ended]
  /\ merchant \in [Requests -> Policies \union {None}]
  /\ quotes \in [Requests -> Rows \union {None}]
  /\ admitted \in [Requests -> (0 .. MaxClock) \union {None}]
  /\ seen \in [Requests -> SUBSET (Policies \union {None})]
  /\ provisions \in 0 .. Provisions
  /\ restarts \in 0 .. Restarts

(* A quote that is answered can be presented: its row is in the database,  *)
(* with terms that the merchant was provisioned with at some time between  *)
(* the request and the answer, that permit this request, and with a life   *)
(* no longer than the service allows.                                      *)
QuotesBacked ==
  \A r \in Requests : pc[r] = "answered" =>
    /\ quotes[r] # None
    /\ quotes[r].policy \in seen[r]
    /\ r \in Serves[quotes[r].policy]
    /\ quotes[r].expiresAt > quotes[r].issuedAt
    /\ quotes[r].expiresAt <= quotes[r].issuedAt + MaxTtl

AdmittedIn(m, span) == {r \in Requests : ClientOf[r] = m /\ admitted[r] \in span}

(* In one life of the process, no span as long as a window admits twice   *)
(* the maximum, wherever it begins and although the windows of rate-limit  *)
(* are not aligned with it; and what a window has counted are requests     *)
(* that it admitted, so that nobody is refused for what others did.        *)
LimiterBound ==
  \A m \in Merchants :
    /\ \A t \in 0 .. MaxClock :
         Cardinality(AdmittedIn(m, t .. (t + Window - 1))) < 2 * Maximum
    /\ started[m] # None =>
         count[m] = Cardinality(AdmittedIn(m, started[m] .. MaxClock))
=============================================================================
