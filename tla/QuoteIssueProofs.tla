-------------------------- MODULE QuoteIssueProofs --------------------------
(***************************************************************************)
(* Proofs about QuoteIssue, for any number of requests and merchants, any  *)
(* policies, and any maximum, window and bounds.                           *)
(***************************************************************************)
EXTENDS QuoteIssue, FiniteSetTheorems, TLAPS

\* What a request has read is a row its merchant had meanwhile.
RowsRead ==
  \A r \in Requests :
    /\ r \in UnderWay => policy[ClientOf[r]] \in seen[r]
    /\ pc[r] \in {"admit", "insert"} =>
         merchant[r] \in Policies /\ merchant[r] \in seen[r]

\* Only a request that was admitted, and that its policy permits, inserts.
Admissions ==
  \A r \in Requests :
    /\ pc[r] \in {"idle", "mcp", "authenticate", "admit"} => admitted[r] = None
    /\ pc[r] = "insert" => admitted[r] \in 0 .. MaxClock /\ Resolves(merchant[r], r)

QInv == TypeOK /\ RowsRead /\ Admissions /\ QuotesBacked

LEMMA InitInv == Init => QInv
  BY QuoteIssueAssumption
  DEF Init, QInv, TypeOK, RowsRead, Admissions, QuotesBacked, UnderWay, Ended

\* A request comes in, or is authenticated.
LEMMA AskInv ==
  ASSUME QInv, NEW r \in Requests, Arrive(r) \/ AuthenticateCall(r) \/ Authenticate(r)
  PROVE  QInv'
<1>0. UNCHANGED <<worldVars, limiterVars, quotes>>
  BY DEF Arrive, AuthenticateCall, Authenticate
<1>1. TypeOK'
  BY <1>0, QuoteIssueAssumption
  DEF Arrive, AuthenticateCall, Authenticate, Proceed, Refuse, ActiveMerchant, Ended,
      worldVars, limiterVars, QInv, TypeOK, Rows
<1>2. RowsRead'
  BY <1>0, QuoteIssueAssumption
  DEF Arrive, AuthenticateCall, Authenticate, Proceed, Refuse, ActiveMerchant, Ended,
      worldVars, limiterVars, QInv, TypeOK, RowsRead, UnderWay
<1>3. Admissions'
  BY <1>0
  DEF Arrive, AuthenticateCall, Authenticate, Proceed, Refuse, worldVars, limiterVars,
      QInv, TypeOK, Admissions
<1>4. QuotesBacked'
  BY <1>0
  DEF Arrive, AuthenticateCall, Authenticate, Proceed, Refuse, worldVars, limiterVars,
      QInv, TypeOK, QuotesBacked
<1> QED
  BY <1>1, <1>2, <1>3, <1>4 DEF QInv

\* A window is opened by its first request, and closed to further ones when it
\* is full.
LEMMA ConsumeType ==
  ASSUME TypeOK, NEW m \in Merchants, ~WindowFull(m), Consume(m)
  PROVE  /\ started' \in [Merchants -> (0 .. MaxClock) \union {None}]
         /\ count' \in [Merchants -> 0 .. Maximum]
<1>1. started' \in [Merchants -> (0 .. MaxClock) \union {None}]
  BY DEF Consume, TypeOK
<1>2. CASE WindowOver(m)
  BY <1>1, <1>2, QuoteIssueAssumption DEF Consume, Opening, TypeOK
<1>3. CASE ~WindowOver(m)
  <2>1. count[m] \in 0 .. Maximum /\ ~(count[m] >= Maximum)
    BY <1>3 DEF WindowFull, TypeOK
  <2>2. count[m] + 1 \in 0 .. Maximum
    BY <2>1, QuoteIssueAssumption
  <2> QED
    BY <1>1, <1>3, <2>2 DEF Consume, TypeOK
<1> QED
  BY <1>2, <1>3

LEMMA LimitInv ==
  ASSUME QInv, NEW r \in Requests, Limit(r) \/ Resolve(r)
  PROVE  QInv'
<1>0. UNCHANGED <<worldVars, quotes>> /\ pc[r] = "admit"
  BY DEF Limit, Resolve, limiterVars
<1>1. /\ started' \in [Merchants -> (0 .. MaxClock) \union {None}]
      /\ count' \in [Merchants -> 0 .. Maximum]
  <2>1. CASE Limit(r)
    BY <2>1 DEF Limit, limiterVars, QInv, TypeOK
  <2>2. CASE Resolve(r)
    BY <2>2, ConsumeType, QuoteIssueAssumption DEF Resolve, QInv
  <2> QED
    BY <2>1, <2>2
<1>2. TypeOK'
  BY <1>0, <1>1
  DEF Limit, Resolve, Proceed, Refuse, Ended, worldVars, limiterVars, QInv, TypeOK, Rows
<1>3. RowsRead'
  BY <1>0, QuoteIssueAssumption
  DEF Limit, Resolve, Proceed, Refuse, Ended, worldVars, QInv, TypeOK, RowsRead, UnderWay
<1>4. Admissions'
  BY <1>0
  DEF Limit, Resolve, Resolves, Proceed, Refuse, worldVars, limiterVars,
      QInv, TypeOK, Admissions
<1>5. QuotesBacked'
  BY <1>0
  DEF Limit, Resolve, Proceed, Refuse, worldVars, QInv, TypeOK, QuotesBacked
<1> QED
  BY <1>2, <1>3, <1>4, <1>5 DEF QInv

\* The row that a request inserts is the one it was permitted.
LEMMA InsertInv ==
  ASSUME QInv, NEW r \in Requests, Insert(r)
  PROVE  QInv'
<1>0. /\ UNCHANGED <<worldVars, limiterVars>> /\ pc[r] = "insert"
      /\ merchant[r] \in Policies /\ merchant[r] \in seen[r]
      /\ admitted[r] \in 0 .. MaxClock /\ r \in Serves[merchant[r]]
      /\ Ttl[merchant[r]] \in Nat \ {0} /\ Ttl[merchant[r]] <= MaxTtl
  BY QuoteIssueAssumption DEF Insert, Resolves, QInv, RowsRead, Admissions
<1>1. /\ Quote(r) \in Rows /\ Quote(r).policy = merchant[r]
      /\ Quote(r).expiresAt > Quote(r).issuedAt
      /\ Quote(r).expiresAt <= Quote(r).issuedAt + MaxTtl
  BY <1>0, QuoteIssueAssumption DEF Quote, Rows
<1>2. Quote(r) # None
  <2>1. Quote(r) \in [policy : Policies, issuedAt : Nat, expiresAt : Nat]
    BY <1>1, QuoteIssueAssumption DEF Rows
  <2> QED
    BY <2>1, QuoteIssueAssumption
<1>3. \/ pc' = [pc EXCEPT ![r] = "answered"] /\ UNCHANGED <<merchant, seen>>
         /\ quotes' = [quotes EXCEPT ![r] = Quote(r)]
      \/ /\ Refuse(r)
         /\ UNCHANGED quotes \/ quotes' = [quotes EXCEPT ![r] = Quote(r)]
  BY DEF Insert, InsertIssuedQuote, InsertFails, Proceed
<1>4. TypeOK'
  BY <1>0, <1>1, <1>3 DEF Refuse, Ended, worldVars, limiterVars, QInv, TypeOK
<1>5. RowsRead'
  BY <1>0, <1>3, QuoteIssueAssumption
  DEF Refuse, Ended, worldVars, QInv, TypeOK, RowsRead, UnderWay
<1>6. Admissions'
  BY <1>0, <1>3 DEF Refuse, worldVars, limiterVars, QInv, TypeOK, Admissions
<1>7. QuotesBacked'
  BY <1>0, <1>1, <1>2, <1>3 DEF Refuse, QInv, TypeOK, QuotesBacked
<1> QED
  BY <1>4, <1>5, <1>6, <1>7 DEF QInv

\* Operators give a request under way one row more to have seen.
LEMMA OperatorInv ==
  ASSUME QInv, NEW m \in Merchants, NEW p \in Policies \union {None}, SetMerchant(m, p)
  PROVE  QInv'
<1>1. TypeOK'
  BY QuoteIssueAssumption DEF SetMerchant, limiterVars, QInv, TypeOK, Rows
<1>2. RowsRead'
  BY QuoteIssueAssumption DEF SetMerchant, Ended, QInv, TypeOK, RowsRead, UnderWay
<1>3. Admissions' /\ QuotesBacked'
  BY DEF SetMerchant, limiterVars, UnderWay, QInv, TypeOK, Admissions, QuotesBacked
<1> QED
  BY <1>1, <1>2, <1>3 DEF QInv

LEMMA TimeInv ==
  ASSUME QInv, Tick \/ Restart
  PROVE  QInv'
<1>1. CASE Tick
  BY <1>1, QuoteIssueAssumption
  DEF Tick, limiterVars, QInv, TypeOK, RowsRead, Admissions, QuotesBacked, UnderWay, Ended
<1>2. CASE Restart
  BY <1>2, QuoteIssueAssumption
  DEF Restart, QInv, TypeOK, Rows, RowsRead, Admissions, QuotesBacked, UnderWay, Ended
<1> QED
  BY <1>1, <1>2

LEMMA StepInv == QInv /\ [Next]_vars => QInv'
<1> SUFFICES ASSUME QInv, [Next]_vars
             PROVE  QInv'
  OBVIOUS
<1>1. CASE UNCHANGED vars
  BY <1>1 DEF vars, worldVars, limiterVars, QInv, TypeOK, RowsRead, Admissions,
              QuotesBacked, UnderWay, Ended
<1>2. CASE Next
  BY <1>2, AskInv, LimitInv, InsertInv, OperatorInv, TimeInv DEF Next, Provision, Disable
<1> QED
  BY <1>1, <1>2

THEOREM QuoteInvariant == Spec => []QInv
<1>1. Init => QInv
  BY InitInv
<1>2. QInv /\ [Next]_vars => QInv'
  BY StepInv
<1> QED
  BY <1>1, <1>2, PTL DEF Spec

-----------------------------------------------------------------------------
(* Types: no window counts more than the maximum, the rows of the limiter  *)
(* and of the quotes are well formed.                                      *)
THEOREM QuoteTypesHold == Spec => []TypeOK
<1>1. QInv => TypeOK
  BY DEF QInv
<1> QED
  BY <1>1, QuoteInvariant, PTL

(* Every quote that is answered is stored, with terms its merchant had     *)
(* while the request ran, which permit the request and live no longer than *)
(* the service allows.                                                     *)
THEOREM AnsweredQuotesBacked == Spec => []QuotesBacked
<1>1. QInv => QuotesBacked
  BY DEF QInv
<1> QED
  BY <1>1, QuoteInvariant, PTL

-----------------------------------------------------------------------------
(* The limiter.  What a span of one length of a window admits are requests *)
(* of the merchant's current window, and of the time just before it: of    *)
(* the latter there are fewer than the maximum, for such a span misses at  *)
(* least the request that opened the window before.                        *)

Current(m) == AdmittedIn(m, started[m] .. MaxClock)

Trailing(m) ==
  {r \in Requests : /\ ClientOf[r] = m /\ admitted[r] \in 0 .. MaxClock
                    /\ admitted[r] < started[m] /\ started[m] < admitted[r] + Window}

Windowed(m) ==
  /\ started[m] = None => \A r \in Requests : ClientOf[r] = m => admitted[r] = None
  /\ started[m] # None =>
       /\ started[m] <= clock
       /\ \E r \in Requests : ClientOf[r] = m /\ admitted[r] = started[m]
       /\ \A r \in Requests : ClientOf[r] = m /\ admitted[r] # None =>
            admitted[r] <= clock /\ admitted[r] < started[m] + Window
       /\ count[m] = Cardinality(Current(m))
       /\ Cardinality(Trailing(m)) < Maximum

SpansHold(m) ==
  \A t \in 0 .. MaxClock :
    Cardinality(AdmittedIn(m, t .. (t + Window - 1))) < 2 * Maximum

LimiterHolds == \A m \in Merchants : Windowed(m) /\ SpansHold(m)

LEMMA Cardinalities ==
  ASSUME NEW S \in SUBSET Requests
  PROVE  /\ IsFiniteSet(S) /\ Cardinality(S) \in Nat
         /\ \A T \in SUBSET S : Cardinality(T) <= Cardinality(S)
<1>1. IsFiniteSet(S)
  BY FS_Subset, QuoteIssueAssumption
<1> QED
  BY <1>1, FS_Subset, FS_CardinalityType

\* Two windows cover a span that the present lies in.
Covered ==
  TypeOK =>
    \A m \in Merchants : started[m] # None /\ Windowed(m) =>
      \A t \in 0 .. MaxClock : t + Window > clock =>
        Cardinality(AdmittedIn(m, t .. (t + Window - 1))) < 2 * Maximum

LEMMA SpanCovered == Covered
<1> SUFFICES ASSUME TypeOK, NEW m \in Merchants, started[m] # None, Windowed(m),
                    NEW t \in 0 .. MaxClock, t + Window > clock
             PROVE  Cardinality(AdmittedIn(m, t .. (t + Window - 1))) < 2 * Maximum
  BY DEF Covered
<1> DEFINE A == AdmittedIn(m, t .. (t + Window - 1))
<1>1. /\ A \in SUBSET Requests /\ Current(m) \in SUBSET Requests
      /\ Trailing(m) \in SUBSET Requests
  BY DEF AdmittedIn, Current, Trailing
<1>2. A \subseteq Trailing(m) \union Current(m)
  <2> SUFFICES ASSUME NEW r \in A, r \notin Current(m)
               PROVE  r \in Trailing(m)
    OBVIOUS
  <2>1. /\ r \in Requests /\ ClientOf[r] = m /\ admitted[r] \in t .. (t + Window - 1)
        /\ admitted[r] \in (0 .. MaxClock) \union {None}
        /\ admitted[r] \notin started[m] .. MaxClock
    BY DEF AdmittedIn, Current, TypeOK
  <2>2. /\ started[m] \in 0 .. MaxClock /\ clock \in 0 .. MaxClock /\ started[m] <= clock
        /\ MaxClock \in Nat /\ Window \in Nat \ {0} /\ t \in Nat
    BY QuoteIssueAssumption DEF Windowed, TypeOK
  <2>3. admitted[r] \in Nat
    BY <2>1, <2>2
  <2>4. admitted[r] # None
    BY <2>3, QuoteIssueAssumption
  <2>5. admitted[r] \in 0 .. MaxClock /\ admitted[r] < started[m]
    BY <2>1, <2>2, <2>3, <2>4
  <2>6. started[m] < admitted[r] + Window
    BY <2>1, <2>2, <2>3
  <2> QED
    BY <2>1, <2>5, <2>6 DEF Trailing
<1>3. IsFiniteSet(Trailing(m)) /\ IsFiniteSet(Current(m))
  BY <1>1, Cardinalities
<1>4. Cardinality(A) <= Cardinality(Trailing(m) \union Current(m))
  BY <1>1, <1>2, Cardinalities
<1>5. /\ Cardinality(Trailing(m) \union Current(m)) =
           Cardinality(Trailing(m)) + Cardinality(Current(m))
             - Cardinality(Trailing(m) \cap Current(m))
      /\ Cardinality(Trailing(m) \union Current(m)) \in Nat
      /\ Cardinality(Trailing(m) \cap Current(m)) \in Nat
  <2>1. /\ Trailing(m) \union Current(m) \in SUBSET Requests
        /\ Trailing(m) \cap Current(m) \in SUBSET Requests
    BY <1>1
  <2> QED
    BY <1>3, <2>1, FS_Union, Cardinalities
<1>6. /\ Cardinality(Trailing(m)) < Maximum
      /\ Cardinality(Current(m)) <= Maximum
  BY QuoteIssueAssumption DEF Windowed, TypeOK
<1>7. /\ Cardinality(A) \in Nat /\ Cardinality(Trailing(m)) \in Nat
      /\ Cardinality(Current(m)) \in Nat /\ Maximum \in Nat
  BY <1>1, Cardinalities, QuoteIssueAssumption
<1> QED
  BY <1>4, <1>5, <1>6, <1>7

LEMMA SpanCoveredNext == Covered'
  BY SpanCovered, PTL

\* A request that finds its merchant's window over opens another.
LEMMA OpenWindow ==
  ASSUME QInv, QInv', LimiterHolds, NEW r \in Requests, Resolve(r), WindowOver(ClientOf[r])
  PROVE  Windowed(ClientOf[r])'
<1> DEFINE m == ClientOf[r]
<1>0. /\ m \in Merchants /\ started' = [started EXCEPT ![m] = clock]
      /\ count' = [count EXCEPT ![m] = 1] /\ clock' = clock
      /\ admitted' = [admitted EXCEPT ![r] = clock]
  BY QuoteIssueAssumption DEF Resolve, Consume, Opening, worldVars
<1>1. /\ started'[m] = clock /\ count'[m] = 1 /\ admitted'[r] = clock
      /\ \A q \in Requests : q # r => admitted'[q] = admitted[q]
      /\ clock \in 0 .. MaxClock /\ MaxClock \in Nat /\ Window \in Nat \ {0}
      /\ clock # None
  BY <1>0, QuoteIssueAssumption DEF QInv, TypeOK
<1>2. ASSUME NEW q \in Requests \ {r}, ClientOf[q] = m, admitted[q] # None
      PROVE  /\ admitted[q] \in 0 .. MaxClock /\ started[m] \in 0 .. MaxClock
             /\ admitted[q] < clock
             /\ admitted[q] < started[m] + Window /\ started[m] + Window <= clock
  <2>1. started[m] # None /\ admitted[q] < started[m] + Window
    BY <1>0, <1>2 DEF LimiterHolds, Windowed
  <2>2. started[m] \in 0 .. MaxClock /\ admitted[q] \in 0 .. MaxClock
    BY <1>0, <1>2, <2>1 DEF QInv, TypeOK
  <2>3. started[m] + Window <= clock
    BY <1>1, <2>1, <2>2 DEF WindowOver
  <2> QED
    BY <1>1, <2>1, <2>2, <2>3
<1>3. Current(m)' = {r}
  BY <1>1, <1>2, QuoteIssueAssumption DEF Current, AdmittedIn
<1>4. Cardinality(Trailing(m)') < Maximum
  <2>1. CASE started[m] = None
    <3>1. Trailing(m)' = {}
      BY <1>1, <1>2, <2>1, QuoteIssueAssumption DEF Trailing, LimiterHolds, Windowed
    <3> QED
      BY <3>1, FS_EmptySet, QuoteIssueAssumption
  <2>2. CASE started[m] # None
    <3>1. PICK q \in Requests : ClientOf[q] = m /\ admitted[q] = started[m]
      BY <1>0, <2>2 DEF LimiterHolds, Windowed
    <3>2. q # r /\ q \in Current(m)
      <4>1. admitted[r] = None
        BY DEF Resolve, QInv, Admissions
      <4> QED
        BY <1>1, <2>2, <3>1, <4>1 DEF Current, AdmittedIn, QInv, TypeOK
    <3>3. Trailing(m)' \subseteq Current(m) \ {q}
      <4> SUFFICES ASSUME NEW x \in Trailing(m)'
                   PROVE  x \in Current(m) \ {q}
        OBVIOUS
      <4>1. /\ x \in Requests /\ ClientOf[x] = m /\ admitted'[x] < clock
            /\ clock < admitted'[x] + Window /\ admitted'[x] \in 0 .. MaxClock
        BY <1>1 DEF Trailing
      <4>2. x # r /\ admitted'[x] = admitted[x]
        BY <1>1, <4>1
      <4>3. admitted[x] # None
        BY <4>1, <4>2, QuoteIssueAssumption
      <4>4. /\ started[m] \in 0 .. MaxClock /\ started[m] + Window <= clock
            /\ started[m] < admitted[x]
        BY <1>1, <1>2, <4>1, <4>2, <4>3
      <4> QED
        BY <1>1, <3>1, <4>1, <4>2, <4>4 DEF Current, AdmittedIn
    <3>4. Current(m) \in SUBSET Requests /\ Current(m) \ {q} \in SUBSET Requests
      BY DEF Current, AdmittedIn
    <3>5. Cardinality(Current(m) \ {q}) = Cardinality(Current(m)) - 1
      BY <3>2, <3>4, Cardinalities, FS_RemoveElement
    <3>6. Cardinality(Current(m)) <= Maximum
      <4>1. Cardinality(Current(m)) = count[m]
        BY <1>0, <2>2 DEF LimiterHolds, Windowed
      <4> QED
        BY <1>0, <4>1, QuoteIssueAssumption DEF QInv, TypeOK
    <3>7. Cardinality(Trailing(m)') <= Cardinality(Current(m) \ {q})
      BY <3>3, <3>4, Cardinalities
    <3>8. /\ Cardinality(Trailing(m)') \in Nat /\ Cardinality(Current(m)) \in Nat
          /\ Cardinality(Current(m) \ {q}) \in Nat /\ Maximum \in Nat
      <4>1. Trailing(m)' \in SUBSET Requests
        BY <3>3, <3>4
      <4> QED
        BY <3>4, <4>1, Cardinalities, QuoteIssueAssumption
    <3> QED
      BY <3>5, <3>6, <3>7, <3>8
  <2> QED
    BY <2>1, <2>2
<1>5. count'[m] = Cardinality(Current(m)')
  BY <1>1, <1>3, FS_Singleton
<1>6. \A q \in Requests : ClientOf[q] = m /\ admitted'[q] # None =>
        admitted'[q] <= clock /\ admitted'[q] < clock + Window
  BY <1>1, <1>2
<1> QED
  BY <1>0, <1>1, <1>4, <1>5, <1>6 DEF Windowed

\* A request that finds room in its merchant's window is one more of it.
LEMMA FillWindow ==
  ASSUME QInv, QInv', LimiterHolds, NEW r \in Requests, Resolve(r), ~WindowOver(ClientOf[r])
  PROVE  Windowed(ClientOf[r])'
<1> DEFINE m == ClientOf[r]
<1>0. /\ m \in Merchants /\ started' = started
      /\ count' = [count EXCEPT ![m] = count[m] + 1] /\ clock' = clock
      /\ admitted' = [admitted EXCEPT ![r] = clock] /\ admitted[r] = None
  BY QuoteIssueAssumption DEF Resolve, Consume, worldVars, QInv, Admissions
<1>1. /\ started[m] \in 0 .. MaxClock /\ started[m] # None /\ clock < started[m] + Window
      /\ clock \in 0 .. MaxClock /\ MaxClock \in Nat /\ Window \in Nat \ {0}
      /\ clock # None /\ started[m] <= clock
  <2>1. started[m] \in 0 .. MaxClock /\ started[m] # None
    BY <1>0 DEF WindowOver, QInv, TypeOK
  <2>2. clock \in 0 .. MaxClock /\ MaxClock \in Nat /\ Window \in Nat \ {0} /\ clock # None
    BY QuoteIssueAssumption DEF QInv, TypeOK
  <2>3. started[m] <= clock
    BY <1>0, <2>1 DEF LimiterHolds, Windowed
  <2> QED
    BY <2>1, <2>2, <2>3 DEF WindowOver
<1>2. /\ admitted'[r] = clock /\ count'[m] = count[m] + 1
      /\ \A q \in Requests : q # r => admitted'[q] = admitted[q]
  BY <1>0 DEF QInv, TypeOK
<1>3. Windowed(m)
  BY <1>0 DEF LimiterHolds
<1>4. Current(m)' = Current(m) \union {r} /\ r \notin Current(m)
  <2>1. admitted[r] \notin started[m] .. MaxClock
    BY <1>0, <1>1, QuoteIssueAssumption
  <2> QED
    BY <1>0, <1>1, <1>2, <2>1 DEF Current, AdmittedIn
<1>5. Trailing(m)' = Trailing(m)
  <2>1. admitted[r] \notin 0 .. MaxClock
    BY <1>0, QuoteIssueAssumption
  <2> QED
    BY <1>0, <1>1, <1>2, <2>1 DEF Trailing
<1>6. count'[m] = Cardinality(Current(m)')
  <2>1. Current(m) \in SUBSET Requests
    BY DEF Current, AdmittedIn
  <2>2. Cardinality(Current(m) \union {r}) = Cardinality(Current(m)) + 1
    BY <1>4, <2>1, Cardinalities, FS_AddElement
  <2> QED
    BY <1>1, <1>2, <1>3, <1>4, <2>2 DEF Windowed
<1>7. PICK q \in Requests : ClientOf[q] = m /\ admitted[q] = started[m]
  BY <1>1, <1>3 DEF Windowed
<1>8. q # r /\ admitted'[q] = started'[m]
  BY <1>0, <1>1, <1>2, <1>7
<1>9. \A x \in Requests : ClientOf[x] = m /\ admitted'[x] # None =>
        admitted'[x] <= clock /\ admitted'[x] < started[m] + Window
  BY <1>1, <1>2, <1>3 DEF Windowed
<1> QED
  BY <1>0, <1>1, <1>3, <1>5, <1>6, <1>7, <1>8, <1>9 DEF Windowed

\* Nothing else admits.
LEMMA AdmitLimits ==
  ASSUME QInv, QInv', LimiterHolds, NEW r \in Requests, Resolve(r)
  PROVE  LimiterHolds'
<1> SUFFICES ASSUME NEW n \in Merchants
             PROVE  Windowed(n)' /\ SpansHold(n)'
  BY DEF LimiterHolds
<1>0. /\ ClientOf[r] \in Merchants /\ clock' = clock
      /\ admitted' = [admitted EXCEPT ![r] = clock]
      /\ \A m \in Merchants : m # ClientOf[r] => started'[m] = started[m] /\ count'[m] = count[m]
  BY QuoteIssueAssumption DEF Resolve, Consume, worldVars, QInv, TypeOK
<1>1. \A q \in Requests : q # r => admitted'[q] = admitted[q]
  BY <1>0 DEF QInv, TypeOK
<1>2. admitted'[r] = clock /\ clock \in 0 .. MaxClock
  BY <1>0 DEF QInv, TypeOK
<1>3. CASE n # ClientOf[r]
  <2>1. /\ \A q \in Requests : ClientOf[q] = n => admitted'[q] = admitted[q]
        /\ started'[n] = started[n] /\ count'[n] = count[n]
    BY <1>0, <1>1, <1>3
  <2>2. \A span : AdmittedIn(n, span)' = AdmittedIn(n, span)
    BY <2>1 DEF AdmittedIn
  <2>3. Trailing(n)' = Trailing(n) /\ Current(n)' = Current(n)
    BY <2>1, <2>2 DEF Trailing, Current, AdmittedIn
  <2>4. Windowed(n) /\ SpansHold(n)
    BY DEF LimiterHolds
  <2>5. Windowed(n)'
    BY <1>0, <2>1, <2>3, <2>4 DEF Windowed
  <2>6. SpansHold(n)'
    BY <2>1, <2>4 DEF SpansHold, AdmittedIn
  <2> QED
    BY <2>5, <2>6
<1>4. CASE n = ClientOf[r]
  <2>1. Windowed(n)'
    BY <1>4, OpenWindow, FillWindow
  <2>2. started'[n] # None
    <3>1. CASE WindowOver(n)
      <4>1. started'[n] = clock
        BY <1>4, <3>1 DEF Resolve, Consume, QInv, TypeOK
      <4> QED
        BY <1>2, <4>1, QuoteIssueAssumption
    <3>2. CASE ~WindowOver(n)
      BY <1>4, <3>2 DEF Resolve, Consume, WindowOver
    <3> QED
      BY <3>1, <3>2
  <2>3. SpansHold(n)'
    <3> SUFFICES ASSUME NEW t \in 0 .. MaxClock
                 PROVE  Cardinality(AdmittedIn(n, t .. (t + Window - 1)))' < 2 * Maximum
      BY DEF SpansHold
    <3>1. CASE t + Window > clock
      <4>1. TypeOK'
        BY DEF QInv
      <4> QED
        BY <1>0, <2>1, <2>2, <3>1, <4>1, SpanCoveredNext DEF Covered
    <3>2. CASE ~(t + Window > clock)
      <4>1. clock \notin t .. (t + Window - 1)
        BY <1>2, <3>2, QuoteIssueAssumption
      <4>2. admitted[r] \notin t .. (t + Window - 1)
        <5>1. admitted[r] = None
          BY DEF Resolve, QInv, Admissions
        <5> QED
          BY <5>1, QuoteIssueAssumption
      <4>3. AdmittedIn(n, t .. (t + Window - 1))' = AdmittedIn(n, t .. (t + Window - 1))
        BY <1>1, <1>2, <4>1, <4>2 DEF AdmittedIn
      <4>4. SpansHold(n)
        BY DEF LimiterHolds
      <4> QED
        BY <4>3, <4>4 DEF SpansHold
    <3> QED
      BY <3>1, <3>2
  <2> QED
    BY <2>1, <2>3
<1> QED
  BY <1>3, <1>4

\* Every other step leaves what was admitted alone, or forgets all of it.
LEMMA OtherLimits ==
  ASSUME QInv, QInv', LimiterHolds, UNCHANGED limiterVars, clock' = clock \/ clock' = clock + 1
  PROVE  LimiterHolds'
<1> SUFFICES ASSUME NEW m \in Merchants
             PROVE  Windowed(m)' /\ SpansHold(m)'
  BY DEF LimiterHolds
<1>0. /\ started' = started /\ count' = count /\ admitted' = admitted
      /\ clock \in Nat /\ clock' \in Nat /\ clock <= clock'
  BY QuoteIssueAssumption DEF limiterVars, QInv, TypeOK
<1>1. Windowed(m) /\ SpansHold(m)
  BY DEF LimiterHolds
<1>2. SpansHold(m)'
  BY <1>0, <1>1 DEF SpansHold, AdmittedIn
<1>3. Current(m)' = Current(m) /\ Trailing(m)' = Trailing(m)
  BY <1>0 DEF Current, Trailing, AdmittedIn
<1>4. \A r \in Requests : admitted[r] # None => admitted[r] \in Nat
  BY QuoteIssueAssumption DEF QInv, TypeOK
<1>5. started[m] # None => started[m] \in Nat
  BY QuoteIssueAssumption DEF QInv, TypeOK
<1>6. \A r \in Requests : ClientOf[r] = m /\ admitted[r] # None /\ started[m] # None =>
        admitted[r] <= clock'
  BY <1>0, <1>1, <1>4 DEF Windowed
<1>7. started[m] # None => started[m] <= clock'
  BY <1>0, <1>1, <1>5 DEF Windowed
<1> QED
  BY <1>0, <1>1, <1>2, <1>3, <1>6, <1>7 DEF Windowed

\* A limiter without windows, at the beginning and after a restart.
Unlimited ==
  /\ started  = [m \in Merchants |-> None]
  /\ admitted = [r \in Requests |-> None]

Blank == Unlimited => LimiterHolds

LEMMA BlankHolds == Blank
<1> SUFFICES ASSUME Unlimited, NEW m \in Merchants
             PROVE  Windowed(m) /\ SpansHold(m)
  BY DEF Blank, LimiterHolds
<1>1. Windowed(m)
  BY DEF Unlimited, Windowed
<1>2. \A t \in 0 .. MaxClock : AdmittedIn(m, t .. (t + Window - 1)) = {}
  BY QuoteIssueAssumption DEF Unlimited, AdmittedIn
<1>3. SpansHold(m)
  <2>1. Cardinality({}) = 0 /\ 0 < 2 * Maximum
    BY FS_EmptySet, QuoteIssueAssumption
  <2> QED
    BY <1>2, <2>1 DEF SpansHold
<1> QED
  BY <1>1, <1>3

LEMMA BlankNext == Blank'
  BY BlankHolds, PTL

LEMMA LimitsStep == QInv /\ QInv' /\ LimiterHolds /\ [Next]_vars => LimiterHolds'
<1> SUFFICES ASSUME QInv, QInv', LimiterHolds, [Next]_vars
             PROVE  LimiterHolds'
  OBVIOUS
<1>1. CASE UNCHANGED vars
  BY <1>1, OtherLimits DEF vars, worldVars
<1>2. ASSUME NEW r \in Requests, Resolve(r)
      PROVE  LimiterHolds'
  BY <1>2, AdmitLimits
<1>3. ASSUME NEW r \in Requests,
             Arrive(r) \/ AuthenticateCall(r) \/ Authenticate(r) \/ Limit(r) \/ Insert(r)
      PROVE  LimiterHolds'
  BY <1>3, OtherLimits
  DEF Arrive, AuthenticateCall, Authenticate, Limit, Insert, worldVars
<1>4. ASSUME NEW m \in Merchants, Provision(m) \/ Disable(m)
      PROVE  LimiterHolds'
  BY <1>4, OtherLimits DEF Provision, Disable, SetMerchant
<1>5. CASE Tick
  BY <1>5, OtherLimits DEF Tick
<1>6. CASE Restart
  BY <1>6, BlankNext DEF Restart, Blank, Unlimited
<1> QED
  BY <1>1, <1>2, <1>3, <1>4, <1>5, <1>6 DEF Next

(* However its windows lie, the limiter admits less than twice the maximum *)
(* in any span of their length, and counts nothing that it did not admit.  *)
THEOREM LimiterBounded == Spec => []LimiterBound
<1>1. Init => LimiterHolds
  BY BlankHolds DEF Init, Blank, Unlimited
<1>2. LimiterHolds => LimiterBound
  BY DEF LimiterHolds, Windowed, SpansHold, LimiterBound, Current
<1> QED
  BY <1>1, <1>2, LimitsStep, QuoteInvariant, PTL DEF Spec
=============================================================================
