-------------------------- MODULE SettlementProofs --------------------------
(***************************************************************************)
(* Proofs about Settlement, for any number of requests, workers, quotes,   *)
(* transactions and crashes.                                               *)
(***************************************************************************)
EXTENDS Settlement, TLAPS

(***************************************************************************)
(* Type correctness.                                                       *)
(***************************************************************************)

\* What a request carries is a quote and a transaction.
LEMMA PaymentType ==
  ASSUME TypeOK, NEW r \in Requests
  PROVE  /\ payment[r] \in Quotes \X Txs
         /\ QuoteOf(r) \in Quotes
         /\ TxOf(r) \in Txs
<1>1. payment \in [Requests -> Quotes \X Txs]
  BY SettlementAssumption DEF TypeOK
<1> QED
  BY <1>1 DEF QuoteOf, TxOf

\* A worker has observed something exactly while it reconciles a candidate.
Observing == \A w \in Workers : target[w] = None <=> seen[w] = "none"

TypeInv == TypeOK /\ Observing

LEMMA TypeInit == Init => TypeInv
  BY SettlementAssumption DEF Init, TypeInv, TypeOK, Observing

\* The handlers of a settle request preserve the types.
LEMMA TypeRequest ==
  ASSUME TypeOK, NEW r \in Requests, RequestStep(r) \/ CrashRequest(r)
  PROVE  TypeOK'
<1>0. QuoteOf(r) \in Quotes /\ TxOf(r) \in Txs
  BY PaymentType
<1> USE DEF requestVars, quoteVars, rowVars, workerVars, chainVars
<1>1. CASE ValidateQuote(r)
  BY <1>0, <1>1 DEF TypeOK, ValidateQuote, Answer, Errors
<1>2. CASE LockQuote(r)
  BY <1>0, <1>2 DEF TypeOK, LockQuote, Replay, Answer, Stored, Errors
<1>3. CASE CheckDuplicate(r)
  BY <1>0, <1>3 DEF TypeOK, CheckDuplicate, ReleaseLock, Answer, Errors
<1>4. CASE InsertSettlement(r)
  BY <1>0, <1>4 DEF TypeOK, InsertSettlement, ReleaseLock, Answer, Errors
<1>5. CASE CommitReservation(r)
  BY <1>0, <1>5 DEF TypeOK, CommitReservation, ReleaseLock, StoredStatus, ActiveStatus
<1>6. CASE Broadcast(r)
  BY <1>0, <1>6 DEF TypeOK, Broadcast, EnterMempool
<1>7. CASE UpdateSettlementStatus(r)
  <2>1. outcome[r] \in {"none"} \union StoredStatus
    BY DEF TypeOK, StoredStatus, ActiveStatus, TerminalStatus
  <2>2. CASE StillValidated(r) /\ LeaseConstraint(outcome[r], lease[r])
    <3>1. /\ status' = [status EXCEPT ![r] = outcome[r]]
          /\ attempted' = [attempted EXCEPT ![r] = TRUE]
          /\ pc' = [pc EXCEPT ![r] = "done"]
          /\ reply' = [reply EXCEPT ![r] = outcome[r]]
          /\ UNCHANGED <<payment, outcome, sent, quoteVars, due, lease, receipts,
                         deliveries, workerVars, chainVars, crashes>>
      BY <1>7, <2>2 DEF UpdateSettlementStatus, Answer
    <3>2. status' \in [Requests -> {"none"} \union StoredStatus]
      BY <2>1, <3>1 DEF TypeOK
    <3>3. reply' \in [Requests -> {"none"} \union StoredStatus \union Errors]
      BY <2>1, <3>1 DEF TypeOK
    <3> QED
      BY <3>1, <3>2, <3>3 DEF TypeOK
  <2>3. CASE ~(StillValidated(r) /\ LeaseConstraint(outcome[r], lease[r]))
    BY <1>7, <2>3 DEF TypeOK, UpdateSettlementStatus, Answer, Errors
  <2> QED
    BY <2>2, <2>3
<1>8. CASE CrashRequest(r)
  BY <1>0, <1>8, SettlementAssumption DEF TypeOK, CrashRequest, InTransaction
<1> QED
  BY <1>1, <1>2, <1>3, <1>4, <1>5, <1>6, <1>7, <1>8 DEF RequestStep

\* The steps of a reconciliation worker preserve the types.
LEMMA TypeWorker ==
  ASSUME TypeInv, NEW w \in Workers, WorkerStep(w) \/ CrashWorker(w)
  PROVE  TypeOK'
<1> USE DEF requestVars, quoteVars, rowVars, workerVars, chainVars
<1>0. TypeOK
  BY DEF TypeInv
<1>1. CASE ClaimSettlements(w)
  BY <1>0, <1>1 DEF TypeOK, ClaimSettlements, Claimable
<1>2. CASE \E s \in Requests : ObserveTransaction(w, s)
  <2>1. PICK s \in Requests : ObserveTransaction(w, s)
    BY <1>2
  <2>2. TxOf(s) \in Txs
    BY <1>0, PaymentType
  <2>3. Classified(TxOf(s)) \in {"success", "failed", "dropped", "pending"}
    BY DEF Classified
  <2> QED
    BY <1>0, <2>1, <2>2, <2>3, SettlementAssumption DEF TypeOK, ObserveTransaction
<1>3. CASE ObserveTip(w)
  BY <1>0, <1>3, SettlementAssumption DEF TypeOK, ObserveTip
<1>4. CASE ApplyReconciliationResult(w)
  <2> DEFINE s == target[w]
  <2>1. s \in Requests /\ QuoteOf(s) \in Quotes
    BY <1>0, <1>4, PaymentType, SettlementAssumption
    DEF TypeInv, TypeOK, Observing, ApplyReconciliationResult
  <2>2. seen[w] \in StoredStatus
    BY <1>4 DEF ApplyReconciliationResult, StoredStatus, ActiveStatus, TerminalStatus
  <2>3. CASE Applicable(s)
    <3>1. status' \in [Requests -> {"none"} \union StoredStatus]
      BY <1>0, <1>4, <2>1, <2>2, <2>3 DEF TypeOK, ApplyReconciliationResult
    <3>2. /\ attempted' \in [Requests -> BOOLEAN]
          /\ due' \in [Requests -> BOOLEAN]
          /\ lease' \in [Requests -> {"null", "held", "lapsed"}]
      <4>1. /\ attempted' = [attempted EXCEPT ![s] = TRUE]
            /\ due' = [due EXCEPT ![s] = FALSE] \/ due' = due
            /\ lease' = [lease EXCEPT ![s] = "null"]
        BY <1>4, <2>3 DEF ApplyReconciliationResult, ClearedLease
      <4> QED
        BY <1>0, <4>1 DEF TypeOK
    <3>3. /\ quote' \in [Quotes -> {"issued", "reserved", "consumed"}]
          /\ receipts' \subseteq Requests
          /\ deliveries' \subseteq Requests
      BY <1>0, <1>4, <2>1, <2>3 DEF TypeOK, ApplyReconciliationResult, RecordConfirmation
    <3>4. /\ batch' \in [Workers -> SUBSET Requests]
          /\ target' \in [Workers -> Requests \union {None}]
          /\ seen' \in [Workers -> {"none", "success", "pending", "failed", "dropped", "confirmed"}]
          /\ seenConf' \in [Workers -> 0..MinConfirmations]
      BY <1>0, <1>4, SettlementAssumption DEF TypeOK, ApplyReconciliationResult, NextCandidate
    <3>5. UNCHANGED <<requestVars, lock, chainVars, crashes>>
      BY <1>4 DEF ApplyReconciliationResult
    <3> QED
      BY <1>0, <3>1, <3>2, <3>3, <3>4, <3>5 DEF TypeOK
  <2>4. CASE ~Applicable(s)
    BY <1>0, <1>4, <2>4, SettlementAssumption
    DEF TypeOK, ApplyReconciliationResult, NextCandidate
  <2> QED
    BY <2>3, <2>4
<1>5. CASE CandidateError(w)
  BY <1>0, <1>5, SettlementAssumption DEF TypeOK, CandidateError, NextCandidate
<1>6. CASE CrashWorker(w)
  BY <1>0, <1>6, SettlementAssumption DEF TypeOK, CrashWorker
<1> QED
  BY <1>1, <1>2, <1>3, <1>4, <1>5, <1>6 DEF WorkerStep

\* The clocks and the chain preserve the types.
LEMMA TypeEnvironment ==
  ASSUME TypeOK, Environment
  PROVE  TypeOK'
<1> USE DEF requestVars, quoteVars, rowVars, workerVars, chainVars
<1>1. ASSUME NEW s \in Requests, LapseLease(s) \/ BecomeDue(s)
      PROVE  TypeOK'
  <2>1. CASE LapseLease(s)
    BY <2>1 DEF TypeOK, LapseLease
  <2>2. CASE BecomeDue(s)
    BY <2>2 DEF TypeOK, BecomeDue
  <2> QED
    BY <1>1, <2>1, <2>2
<1>2. ASSUME NEW t \in Txs, PayerSubmit(t) \/ DropTransaction(t)
      PROVE  TypeOK'
  BY <1>2 DEF TypeOK, PayerSubmit, DropTransaction
<1>3. ASSUME NEW S \in SUBSET Txs, NEW A \in SUBSET Txs, NewBlock(S, A)
      PROVE  TypeOK'
  BY <1>3, SettlementAssumption DEF TypeOK, NewBlock, InBlock, MinNat
<1>4. ASSUME NEW d \in 1..ReorgDepth, Reorganize(d)
      PROVE  TypeOK'
  BY <1>4, SettlementAssumption DEF TypeOK, Reorganize
<1> QED
  BY <1>1, <1>2, <1>3, <1>4 DEF Environment

LEMMA ObservingNext ==
  ASSUME TypeInv, Next
  PROVE  Observing'
<1> USE DEF requestVars, quoteVars, rowVars, workerVars, chainVars, TypeInv
<1>1. ASSUME NEW r \in Requests, RequestStep(r) \/ CrashRequest(r)
      PROVE  UNCHANGED <<target, seen>>
  BY <1>1 DEF RequestStep, ValidateQuote, LockQuote, CheckDuplicate, InsertSettlement,
       CommitReservation, Broadcast, UpdateSettlementStatus, CrashRequest
<1>2. CASE Environment
  BY <1>2 DEF Environment, LapseLease, BecomeDue, PayerSubmit, DropTransaction,
       NewBlock, Reorganize, Observing
<1>3. ASSUME NEW w \in Workers, WorkerStep(w) \/ CrashWorker(w)
      PROVE  Observing'
  BY <1>3, SettlementAssumption
  DEF WorkerStep, ClaimSettlements, ObserveTransaction, Classified, ObserveTip,
      ApplyReconciliationResult, CandidateError, NextCandidate, CrashWorker,
      Observing, TypeOK
<1> QED
  BY <1>1, <1>2, <1>3 DEF Next, Observing

LEMMA TypeStutter ==
  ASSUME TypeInv, UNCHANGED vars
  PROVE  TypeInv'
  BY DEF TypeInv, TypeOK, Observing, vars, requestVars, quoteVars, rowVars,
         workerVars, chainVars

LEMMA TypeNext ==
  ASSUME TypeInv, Next
  PROVE  TypeInv'
  BY TypeRequest, TypeWorker, TypeEnvironment, ObservingNext DEF TypeInv, Next

LEMMA TypeInvariance == Spec => []TypeInv
<1>1. Init => TypeInv
  BY TypeInit
<1>2. TypeInv /\ [Next]_vars => TypeInv'
  BY TypeNext, TypeStutter
<1> QED
  BY <1>1, <1>2, PTL DEF Spec

(* Every variable keeps its type, however requests, workers, clocks and    *)
(* chain interleave; the induction needs that a worker applies only to a   *)
(* candidate it has.                                                       *)
THEOREM TypeCorrect == Spec => []TypeOK
<1>1. TypeInv => TypeOK
  BY DEF TypeInv
<1> QED
  BY <1>1, TypeInvariance, PTL

(***************************************************************************)
(* Safety.  NoPaymentReuse is not inductive: what keeps it is that two     *)
(* transactions about to commit never conflict with each other or with a   *)
(* committed row (CommitsExclusive).  The others need what is known of a   *)
(* row by where the handler of its request stands (Reservations).          *)
(***************************************************************************)

\* Where the handler of a request stands tells whether its row exists.
Reservations ==
  \A r \in Requests :
    /\ pc[r] \in {"idle", "reserve", "locked", "insert", "commit"} => ~Stored(r)
    /\ pc[r] = "broadcast" => Stored(r)
    /\ pc[r] = "persist" => Stored(r) /\ outcome[r] # "none"
    /\ sent[r] => Stored(r)
    /\ ~Stored(r) => ~attempted[r] /\ lease[r] = "null"

\* An insert that awaits its commit conflicts with no row and no other insert.
CommitsExclusive ==
  \A r, s \in Requests :
    pc[r] = "commit" /\ (Stored(s) \/ pc[s] = "commit") => ~Conflicts(r, s)

IInv ==
  /\ TypeInv
  /\ Reservations
  /\ CommitsExclusive
  /\ NoPaymentReuse
  /\ ConfirmationIsAtomic
  /\ AnswersStayTrue
  /\ TableChecks

LEMMA SafetyInit == Init => IInv
<1> SUFFICES ASSUME Init PROVE IInv
  OBVIOUS
<1>1. TypeInv
  BY TypeInit
<1>2. Reservations /\ CommitsExclusive /\ NoPaymentReuse
  BY DEF Init, Reservations, CommitsExclusive, NoPaymentReuse, Stored
<1>3. ConfirmationIsAtomic
  BY DEF Init, ConfirmationIsAtomic, Stored
<1>4. AnswersStayTrue /\ TableChecks
  BY DEF Init, AnswersStayTrue, TableChecks, LeaseConstraint, Stored,
         StoredStatus, ActiveStatus, TerminalStatus
<1> QED
  BY <1>1, <1>2, <1>3, <1>4 DEF IInv

\* Steps that touch no row and no quote, give no answer with a settlement,
\* and neither enter nor leave the insert, preserve the invariant.
LEMMA SafetyFrame ==
  ASSUME IInv, TypeInv',
         UNCHANGED <<payment, outcome, sent, quote, status, attempted, lease,
                     receipts, deliveries, pc, reply>>
  PROVE  IInv'
<1>1. Reservations' /\ CommitsExclusive'
  BY DEF IInv, Reservations, CommitsExclusive, Conflicts, QuoteOf, TxOf, Stored
<1>2. NoPaymentReuse' /\ AnswersStayTrue' /\ TableChecks'
  BY DEF IInv, NoPaymentReuse, AnswersStayTrue, TableChecks, QuoteOf, TxOf, Stored
<1>3. ConfirmationIsAtomic'
  BY DEF IInv, ConfirmationIsAtomic, QuoteOf, Stored
<1> QED
  BY <1>1, <1>2, <1>3 DEF IInv

\* The part of the invariant that speaks of rows and quotes only.
LEMMA RowsFrame ==
  ASSUME IInv, UNCHANGED <<payment, quote, status, attempted, lease, receipts, deliveries>>
  PROVE  NoPaymentReuse' /\ ConfirmationIsAtomic' /\ TableChecks'
<1>1. NoPaymentReuse' /\ TableChecks'
  BY DEF IInv, NoPaymentReuse, TableChecks, QuoteOf, TxOf, Stored
<1>2. ConfirmationIsAtomic'
  BY DEF IInv, ConfirmationIsAtomic, QuoteOf, Stored
<1> QED
  BY <1>1, <1>2

\* Answers that name no settlement leave AnswersStayTrue as it is.
LEMMA AnswersFrame ==
  ASSUME IInv, UNCHANGED <<payment, status>>,
         \A r \in Requests : reply'[r] = reply[r] \/ reply'[r] \notin StoredStatus
  PROVE  AnswersStayTrue'
  BY DEF IInv, AnswersStayTrue, Stored

\* A request that has not inserted yet, or whose insert is refused.
LEMMA SafetyBeforeCommit ==
  ASSUME IInv, TypeInv', NEW r \in Requests,
         ValidateQuote(r) \/ LockQuote(r) \/ CheckDuplicate(r) \/ InsertSettlement(r)
  PROVE  IInv'
<1> USE DEF requestVars, quoteVars, rowVars, workerVars, chainVars
<1>0. /\ UNCHANGED <<payment, outcome, sent, quote, status, attempted, lease,
                     receipts, deliveries>>
      /\ pc[r] \in {"idle", "reserve", "locked", "insert"}
      /\ \A s \in Requests \ {r} : pc'[s] = pc[s] /\ reply'[s] = reply[s]
      /\ pc'[r] \in {"reserve", "locked", "insert", "commit", "done"}
  BY DEF IInv, TypeInv, TypeOK, ValidateQuote, LockQuote, Replay, CheckDuplicate,
         InsertSettlement, Answer
<1>1. Reservations'
  BY <1>0 DEF IInv, Reservations, Stored
<1>2. CommitsExclusive'
  <2>1. \A s \in Requests : (Stored(s) \/ pc[s] = "commit") /\ pc'[r] = "commit"
                              => ~Conflicts(r, s)
    BY <1>0 DEF InsertSettlement, Answer, ValidateQuote, LockQuote, Replay,
         CheckDuplicate, IInv, TypeInv, TypeOK, Conflicts
  <2>2. \A s \in Requests : Conflicts(s, r) <=> Conflicts(r, s)
    BY DEF Conflicts
  <2>3. ~Conflicts(r, r)
    BY DEF Conflicts
  <2> QED
    BY <1>0, <2>1, <2>2, <2>3 DEF IInv, CommitsExclusive, Conflicts, QuoteOf, TxOf, Stored
<1>3. AnswersStayTrue'
  <2>1. CASE reply'[r] = reply[r] \/ reply'[r] \notin StoredStatus
    BY <1>0, <2>1, AnswersFrame
  <2>2. CASE LockQuote(r) /\ reply'[r] # reply[r] /\ reply'[r] \in StoredStatus
    <3>1. PICK s \in Requests :
            Stored(s) /\ QuoteOf(s) = QuoteOf(r) /\ Replay(r, s)
      BY <2>2 DEF LockQuote, Answer, StoredStatus, ActiveStatus, TerminalStatus,
           IInv, TypeInv, TypeOK
    <3>2. TxOf(s) = TxOf(r) /\ reply'[r] = status[s]
      BY <2>2, <3>1 DEF Replay, Answer, IInv, TypeInv, TypeOK, StoredStatus,
           ActiveStatus, TerminalStatus
    <3>3. payment[s] = payment[r]
      BY <3>1, <3>2, PaymentType DEF IInv, TypeInv, QuoteOf, TxOf
    <3> QED
      BY <1>0, <3>1, <3>2, <3>3 DEF IInv, AnswersStayTrue, Stored
  <2>3. CASE ~LockQuote(r)
    BY <2>1, <2>3 DEF ValidateQuote, CheckDuplicate, InsertSettlement, Answer,
         StoredStatus, ActiveStatus, TerminalStatus, IInv, TypeInv, TypeOK
  <2> QED
    BY <2>1, <2>2, <2>3
<1>4. NoPaymentReuse' /\ ConfirmationIsAtomic' /\ TableChecks'
  BY <1>0, RowsFrame
<1> QED
  BY <1>1, <1>2, <1>3, <1>4 DEF IInv

LEMMA SafetyCommit ==
  ASSUME IInv, TypeInv', NEW r \in Requests, CommitReservation(r)
  PROVE  IInv'
<1> USE DEF requestVars, quoteVars, rowVars, workerVars, chainVars
<1>0. /\ UNCHANGED <<payment, outcome, reply, sent, attempted, lease, receipts, deliveries>>
      /\ pc[r] = "commit" /\ pc' = [pc EXCEPT ![r] = "broadcast"]
      /\ status' = [status EXCEPT ![r] = "validated"]
      /\ quote'  = [quote EXCEPT ![QuoteOf(r)] = "reserved"]
      /\ ~Stored(r)
  BY DEF CommitReservation, IInv, Reservations
<1>1. /\ pc \in [Requests -> {"idle", "reserve", "locked", "insert", "commit",
                              "broadcast", "persist", "done", "crashed"}]
      /\ status \in [Requests -> {"none"} \union StoredStatus]
      /\ quote \in [Quotes -> {"issued", "reserved", "consumed"}]
      /\ QuoteOf(r) \in Quotes
  BY PaymentType DEF IInv, TypeInv, TypeOK
<1>2. \A s \in Requests : Stored(s) => ~Conflicts(r, s)
  BY <1>0 DEF IInv, CommitsExclusive
<1>3. \A s \in Requests : Stored(s)' <=> Stored(s) \/ s = r
  BY <1>0, <1>1 DEF Stored
<1>4. Reservations'
  BY <1>0, <1>1, <1>3 DEF IInv, Reservations
<1>5. CommitsExclusive'
  BY <1>0, <1>1, <1>3 DEF IInv, CommitsExclusive, Conflicts, QuoteOf, TxOf
<1>6. NoPaymentReuse'
  BY <1>0, <1>2, <1>3 DEF IInv, NoPaymentReuse, Conflicts, QuoteOf, TxOf
<1>7. ConfirmationIsAtomic'
  <2>1. \A s \in Requests : status'[s] = "confirmed" <=> status[s] = "confirmed"
    BY <1>0, <1>1 DEF Stored
  <2>2. \A s \in Requests : s # r /\ Stored(s) => QuoteOf(s) # QuoteOf(r)
    BY <1>2 DEF Conflicts
  <2>3. \A s \in Requests : status[s] = "confirmed" => Stored(s)
    BY DEF Stored
  <2>4. \A q \in Quotes : quote'[q] = IF q = QuoteOf(r) THEN "reserved" ELSE quote[q]
    BY <1>0, <1>1
  <2>5. \A q \in Quotes : quote'[q] = "consumed"
                            <=> \E s \in Requests : status'[s] = "confirmed" /\ QuoteOf(s) = q
    BY <1>0, <2>1, <2>2, <2>3, <2>4 DEF IInv, ConfirmationIsAtomic
  <2>6. \A q \in Quotes : quote'[q] = "issued"
                            <=> \A s \in Requests : QuoteOf(s) = q => ~Stored(s)'
    BY <1>3, <2>2, <2>4 DEF IInv, ConfirmationIsAtomic
  <2> QED
    BY <1>0, <2>1, <2>5, <2>6 DEF IInv, ConfirmationIsAtomic, QuoteOf
<1>8. AnswersStayTrue'
  BY <1>0, <1>1, <1>3 DEF IInv, AnswersStayTrue, Stored
<1>9. TableChecks'
  BY <1>0, <1>1, <1>3 DEF IInv, TableChecks, Reservations, LeaseConstraint, ActiveStatus, Stored
<1> QED
  BY <1>4, <1>5, <1>6, <1>7, <1>8, <1>9 DEF IInv

LEMMA SafetyBroadcast ==
  ASSUME IInv, TypeInv', NEW r \in Requests, Broadcast(r) \/ CrashRequest(r)
  PROVE  IInv'
<1> USE DEF requestVars, quoteVars, rowVars, workerVars, chainVars
<1>0. UNCHANGED <<payment, reply, quote, status, attempted, lease, receipts, deliveries>>
  BY DEF Broadcast, CrashRequest
<1>1. Reservations'
  BY <1>0 DEF Broadcast, CrashRequest, IInv, Reservations, Stored, TypeInv, TypeOK
<1>2. CommitsExclusive'
  BY <1>0 DEF Broadcast, CrashRequest, IInv, CommitsExclusive, Conflicts, QuoteOf, TxOf,
       Stored, TypeInv, TypeOK
<1> QED
  BY <1>0, <1>1, <1>2, RowsFrame, AnswersFrame DEF IInv

(* A row whose status changes from active to a later one: what a late      *)
(* broadcast outcome and the result of a reconciliation have in common.    *)
LEMMA Advance ==
  ASSUME IInv, NEW s \in Requests, Active(s),
         NEW o \in StoredStatus \ {"validated"},
         UNCHANGED <<payment, sent>>,
         status'    = [status EXCEPT ![s] = o],
         attempted' = [attempted EXCEPT ![s] = TRUE],
         lease' = lease \/ lease' = [lease EXCEPT ![s] = "null"],
         LeaseConstraint(o, lease'[s]),
         IF o = "confirmed" THEN RecordConfirmation(s)
                            ELSE UNCHANGED <<quote, receipts, deliveries>>
  PROVE  /\ \A r \in Requests : Stored(r)' <=> Stored(r)
         /\ \A r \in Requests \ {s} : /\ status'[r] = status[r]
                                      /\ attempted'[r] = attempted[r]
                                      /\ lease'[r] = lease[r]
         /\ status'[s] = o /\ Stored(s)
         /\ NoPaymentReuse' /\ ConfirmationIsAtomic' /\ TableChecks'
<1>1. /\ status \in [Requests -> {"none"} \union StoredStatus]
      /\ attempted \in [Requests -> BOOLEAN]
      /\ lease \in [Requests -> {"null", "held", "lapsed"}]
      /\ quote \in [Quotes -> {"issued", "reserved", "consumed"}]
      /\ QuoteOf(s) \in Quotes
  BY PaymentType DEF IInv, TypeInv, TypeOK
<1>2. /\ \A r \in Requests \ {s} : /\ status'[r] = status[r]
                                   /\ attempted'[r] = attempted[r]
                                   /\ lease'[r] = lease[r]
      /\ status'[s] = o /\ attempted'[s] /\ Stored(s)
  BY <1>1 DEF Stored, Active, ActiveStatus
<1>3. \A r \in Requests : Stored(r)' <=> Stored(r)
  BY <1>2 DEF Stored, StoredStatus, ActiveStatus, TerminalStatus
<1>4. NoPaymentReuse'
  BY <1>3 DEF IInv, NoPaymentReuse, QuoteOf, TxOf
<1>5. ConfirmationIsAtomic'
  <2>1. status[s] # "confirmed"
    BY DEF Active, ActiveStatus
  <2>2. \A r \in Requests : r # s /\ Stored(r) => QuoteOf(r) # QuoteOf(s)
    BY <1>2 DEF IInv, NoPaymentReuse
  <2>3. quote[QuoteOf(s)] # "issued"
    BY <1>1, <1>2 DEF IInv, ConfirmationIsAtomic
  <2>4. \A r \in Requests : status'[r] = "confirmed"
                              <=> status[r] = "confirmed" \/ (r = s /\ o = "confirmed")
    BY <1>2, <2>1
  <2>5. \A r \in Requests : status[r] = "confirmed" => Stored(r)
    BY DEF Stored
  <2>6. \A q \in Quotes : quote'[q] = IF q = QuoteOf(s) /\ o = "confirmed"
                                        THEN "consumed" ELSE quote[q]
    BY <1>1 DEF RecordConfirmation
  <2>7. /\ receipts' = {r \in Requests : status'[r] = "confirmed"}
        /\ deliveries' = {r \in Requests : status'[r] = "confirmed"}
    BY <2>4 DEF RecordConfirmation, IInv, ConfirmationIsAtomic
  <2>8. \A q \in Quotes : quote'[q] = "consumed"
                            <=> \E r \in Requests : status'[r] = "confirmed" /\ QuoteOf(r) = q
    BY <2>2, <2>4, <2>5, <2>6 DEF IInv, ConfirmationIsAtomic
  <2>9. \A q \in Quotes : quote'[q] = "issued"
                            <=> \A r \in Requests : QuoteOf(r) = q => ~Stored(r)'
    BY <1>3, <2>3, <2>6 DEF IInv, ConfirmationIsAtomic
  <2> QED
    BY <2>7, <2>8, <2>9 DEF ConfirmationIsAtomic, QuoteOf
<1>6. TableChecks'
  BY <1>2, <1>3 DEF IInv, TableChecks, LeaseConstraint
<1> QED
  BY <1>2, <1>3, <1>4, <1>5, <1>6

\* Advancing a row keeps answers true: its status was not final before.
LEMMA AdvanceAnswers ==
  ASSUME IInv, NEW s \in Requests, Active(s), payment' = payment,
         \A r \in Requests \ {s} : status'[r] = status[r],
         Stored(s)',
         \A r \in Requests :
           \/ reply'[r] = reply[r] \/ reply'[r] \notin StoredStatus
           \/ r = s /\ reply'[r] = status'[r]
  PROVE  AnswersStayTrue'
<1> SUFFICES ASSUME NEW r \in Requests, reply'[r] \in StoredStatus
             PROVE  \E x \in Requests :
                      /\ Stored(x)' /\ payment'[x] = payment'[r]
                      /\ reply'[r] \in TerminalStatus => status'[x] = reply'[r]
  BY DEF AnswersStayTrue
<1>1. CASE r = s /\ reply'[r] = status'[r]
  BY <1>1
<1>2. CASE reply'[r] = reply[r]
  <2>1. PICK x \in Requests :
          /\ Stored(x) /\ payment[x] = payment[r]
          /\ reply[r] \in TerminalStatus => status[x] = reply[r]
    BY <1>2 DEF IInv, AnswersStayTrue
  <2>2. x = s => reply[r] \notin TerminalStatus
    BY <2>1 DEF Active, ActiveStatus, TerminalStatus
  <2> QED
    BY <1>2, <2>1, <2>2 DEF Stored
<1> QED
  BY <1>1, <1>2

LEMMA SafetyUpdate ==
  ASSUME IInv, TypeInv', NEW r \in Requests, UpdateSettlementStatus(r)
  PROVE  IInv'
<1> USE DEF requestVars, quoteVars, rowVars, workerVars, chainVars
<1>0. /\ UNCHANGED <<payment, outcome, sent, quote, lease, receipts, deliveries>>
      /\ pc[r] = "persist"
      /\ pc' = [pc EXCEPT ![r] = "done"]
  BY DEF UpdateSettlementStatus, Answer
<1>1. /\ pc \in [Requests -> {"idle", "reserve", "locked", "insert", "commit",
                              "broadcast", "persist", "done", "crashed"}]
      /\ reply \in [Requests -> {"none"} \union StoredStatus \union Errors]
  BY DEF IInv, TypeInv, TypeOK
<1>2. CASE StillValidated(r) /\ LeaseConstraint(outcome[r], lease[r])
  <2>1. Active(r)
    BY <1>2 DEF StillValidated, Active, ActiveStatus
  <2>2. outcome[r] \in StoredStatus \ {"validated"} /\ outcome[r] # "confirmed"
    BY <1>0 DEF IInv, Reservations, TypeInv, TypeOK, StoredStatus, ActiveStatus, TerminalStatus
  <2>3. /\ status'    = [status EXCEPT ![r] = outcome[r]]
        /\ attempted' = [attempted EXCEPT ![r] = TRUE]
        /\ reply'     = [reply EXCEPT ![r] = outcome[r]]
    BY <1>2 DEF UpdateSettlementStatus, Answer
  <2>4. /\ \A x \in Requests : Stored(x)' <=> Stored(x)
        /\ \A x \in Requests \ {r} : /\ status'[x] = status[x]
                                     /\ attempted'[x] = attempted[x]
                                     /\ lease'[x] = lease[x]
        /\ status'[r] = outcome[r] /\ Stored(r)
        /\ NoPaymentReuse' /\ ConfirmationIsAtomic' /\ TableChecks'
    BY <1>0, <1>2, <2>1, <2>2, <2>3, Advance
  <2>5. Reservations'
    BY <1>0, <1>1, <2>4 DEF IInv, Reservations
  <2>6. CommitsExclusive'
    BY <1>0, <1>1, <2>4 DEF IInv, CommitsExclusive, Conflicts, QuoteOf, TxOf
  <2>7. AnswersStayTrue'
    BY <1>0, <1>1, <2>1, <2>3, <2>4, AdvanceAnswers
  <2> QED
    BY <2>4, <2>5, <2>6, <2>7 DEF IInv
<1>3. CASE ~(StillValidated(r) /\ LeaseConstraint(outcome[r], lease[r]))
  <2>1. /\ UNCHANGED <<status, attempted>>
        /\ reply' = [reply EXCEPT ![r] = "internal_error"]
    BY <1>3 DEF UpdateSettlementStatus, Answer
  <2>2. Reservations'
    BY <1>0, <1>1, <2>1 DEF IInv, Reservations, Stored
  <2>3. CommitsExclusive'
    BY <1>0, <1>1, <2>1 DEF IInv, CommitsExclusive, Conflicts, QuoteOf, TxOf, Stored
  <2>4. AnswersStayTrue'
    BY <1>0, <1>1, <2>1, AnswersFrame DEF StoredStatus, ActiveStatus, TerminalStatus
  <2> QED
    BY <1>0, <2>1, <2>2, <2>3, <2>4, RowsFrame DEF IInv
<1> QED
  BY <1>2, <1>3

LEMMA SafetyClaim ==
  ASSUME IInv, TypeInv', NEW w \in Workers, ClaimSettlements(w)
  PROVE  IInv'
<1> USE DEF requestVars, quoteVars, rowVars, workerVars, chainVars
<1>0. UNCHANGED <<payment, outcome, sent, quote, status, attempted,
                  receipts, deliveries, pc, reply>>
  BY DEF ClaimSettlements
<1>1. \A s \in Requests : lease'[s] = lease[s] \/ Active(s)
  BY DEF ClaimSettlements, Claimable
<1>2. Reservations'
  BY <1>0, <1>1 DEF IInv, Reservations, Stored, Active, ActiveStatus
<1>3. CommitsExclusive'
  BY <1>0 DEF IInv, CommitsExclusive, Conflicts, QuoteOf, TxOf, Stored
<1>4. NoPaymentReuse' /\ AnswersStayTrue'
  BY <1>0 DEF IInv, NoPaymentReuse, AnswersStayTrue, QuoteOf, TxOf, Stored
<1>5. ConfirmationIsAtomic'
  BY <1>0 DEF IInv, ConfirmationIsAtomic, QuoteOf, Stored
<1>6. TableChecks'
  BY <1>0, <1>1 DEF IInv, TableChecks, LeaseConstraint, Active, Stored
<1> QED
  BY <1>2, <1>3, <1>4, <1>5, <1>6 DEF IInv

LEMMA SafetyApply ==
  ASSUME IInv, TypeInv', NEW w \in Workers, ApplyReconciliationResult(w)
  PROVE  IInv'
<1> USE DEF requestVars, quoteVars, rowVars, workerVars, chainVars
<1> DEFINE s == target[w]
<1>0. UNCHANGED <<payment, pc, outcome, reply, sent>>
  BY DEF ApplyReconciliationResult
<1>1. s \in Requests
  BY SettlementAssumption DEF IInv, TypeInv, TypeOK, Observing, ApplyReconciliationResult
<1>2. CASE Applicable(s)
  <2>1. /\ status'    = [status EXCEPT ![s] = seen[w]]
        /\ attempted' = [attempted EXCEPT ![s] = TRUE]
        /\ lease'     = [lease EXCEPT ![s] = "null"]
        /\ IF seen[w] = "confirmed" THEN RecordConfirmation(s)
                                    ELSE UNCHANGED <<quote, receipts, deliveries>>
    BY <1>2 DEF ApplyReconciliationResult, ClearedLease
  <2>2. seen[w] \in StoredStatus \ {"validated"}
    BY DEF ApplyReconciliationResult, StoredStatus, ActiveStatus, TerminalStatus
  <2>3. Active(s) /\ LeaseConstraint(seen[w], lease'[s])
    BY <1>1, <1>2, <2>1 DEF Applicable, LeaseConstraint, IInv, TypeInv, TypeOK
  <2>4. /\ \A x \in Requests : Stored(x)' <=> Stored(x)
        /\ \A x \in Requests \ {s} : /\ status'[x] = status[x]
                                     /\ attempted'[x] = attempted[x]
                                     /\ lease'[x] = lease[x]
        /\ status'[s] = seen[w] /\ Stored(s)
        /\ NoPaymentReuse' /\ ConfirmationIsAtomic' /\ TableChecks'
    BY <1>0, <1>1, <2>1, <2>2, <2>3, Advance
  <2>5. Reservations'
    BY <1>0, <2>4 DEF IInv, Reservations
  <2>6. CommitsExclusive'
    BY <1>0, <2>4 DEF IInv, CommitsExclusive, Conflicts, QuoteOf, TxOf
  <2>7. AnswersStayTrue'
    BY <1>0, <1>1, <2>3, <2>4, AdvanceAnswers
  <2> QED
    BY <2>4, <2>5, <2>6, <2>7 DEF IInv
<1>3. CASE ~Applicable(s)
  BY <1>0, <1>3, SafetyFrame DEF ApplyReconciliationResult
<1> QED
  BY <1>2, <1>3

LEMMA SafetyNext ==
  ASSUME IInv, [Next]_vars
  PROVE  IInv'
<1> USE DEF requestVars, quoteVars, rowVars, workerVars, chainVars
<1>0. TypeInv'
  BY TypeNext, TypeStutter DEF IInv
<1>1. CASE UNCHANGED vars
  BY <1>0, <1>1, SafetyFrame DEF vars
<1>2. ASSUME NEW r \in Requests, RequestStep(r) \/ CrashRequest(r)
      PROVE  IInv'
  BY <1>0, <1>2, SafetyBeforeCommit, SafetyCommit, SafetyBroadcast, SafetyUpdate
  DEF RequestStep
<1>3. ASSUME NEW w \in Workers, WorkerStep(w) \/ CrashWorker(w)
      PROVE  IInv'
  <2>1. CASE ClaimSettlements(w)
    BY <1>0, <2>1, SafetyClaim
  <2>2. CASE ApplyReconciliationResult(w)
    BY <1>0, <2>2, SafetyApply
  <2>3. CASE \/ \E s \in Requests : ObserveTransaction(w, s)
             \/ ObserveTip(w) \/ CandidateError(w) \/ CrashWorker(w)
    BY <1>0, <2>3, SafetyFrame DEF ObserveTransaction, ObserveTip, CandidateError, CrashWorker
  <2> QED
    BY <1>3, <2>1, <2>2, <2>3 DEF WorkerStep
<1>4. ASSUME NEW s \in Requests, LapseLease(s)
      PROVE  IInv'
  <2>1. UNCHANGED <<payment, outcome, sent, quote, status, attempted,
                    receipts, deliveries, pc, reply>>
    BY <1>4 DEF LapseLease
  <2>2. lease[s] = "held" /\ lease' = [lease EXCEPT ![s] = "lapsed"]
    BY <1>4 DEF LapseLease
  <2>3. Reservations'
    BY <2>1, <2>2 DEF IInv, Reservations, Stored, TypeInv, TypeOK
  <2>4. CommitsExclusive'
    BY <2>1 DEF IInv, CommitsExclusive, Conflicts, QuoteOf, TxOf, Stored
  <2>5. NoPaymentReuse' /\ AnswersStayTrue'
    BY <2>1 DEF IInv, NoPaymentReuse, AnswersStayTrue, QuoteOf, TxOf, Stored
  <2>6. ConfirmationIsAtomic'
    BY <2>1 DEF IInv, ConfirmationIsAtomic, QuoteOf, Stored
  <2>7. TableChecks'
    BY <2>1, <2>2 DEF IInv, TableChecks, LeaseConstraint, Stored, TypeInv, TypeOK
  <2> QED
    BY <1>0, <2>3, <2>4, <2>5, <2>6, <2>7 DEF IInv
<1>5. ASSUME Environment, \A s \in Requests : ~LapseLease(s)
      PROVE  IInv'
  BY <1>0, <1>5, SafetyFrame
  DEF Environment, BecomeDue, PayerSubmit, DropTransaction, NewBlock, Reorganize
<1> QED
  BY <1>1, <1>2, <1>3, <1>4, <1>5 DEF Next, Environment

LEMMA SafetyInvariance == Spec => []IInv
  BY SafetyInit, SafetyNext, PTL DEF Spec

(* No two settlements share a quote or a transaction, although the check   *)
(* for a duplicate transaction and the insert are two statements and the   *)
(* requests lock different quotes.                                         *)
THEOREM PaymentsNotReused == Spec => []NoPaymentReuse
<1>1. IInv => NoPaymentReuse
  BY DEF IInv
<1> QED
  BY <1>1, SafetyInvariance, PTL

(* The facilitator submits a transaction at most once, for one durable     *)
(* reservation.                                                            *)
THEOREM BroadcastAtMostOnce == Spec => []BroadcastOnce
<1>1. IInv => BroadcastOnce
  BY DEF IInv, Reservations, NoPaymentReuse, BroadcastOnce
<1> QED
  BY <1>1, SafetyInvariance, PTL

(* Quote, settlement, receipt and delivery agree in every state.           *)
THEOREM ConfirmationsAtomic == Spec => []ConfirmationIsAtomic
<1>1. IInv => ConfirmationIsAtomic
  BY DEF IInv
<1> QED
  BY <1>1, SafetyInvariance, PTL

(* What a caller was told of its settlement is, if final, still so.        *)
THEOREM AnswersRemainTrue == Spec => []AnswersStayTrue
<1>1. IInv => AnswersStayTrue
  BY DEF IInv
<1> QED
  BY <1>1, SafetyInvariance, PTL

(* Every committed row satisfies the checks of its table.                  *)
THEOREM TableChecksHold == Spec => []TableChecks
<1>1. IInv => TableChecks
  BY DEF IInv
<1> QED
  BY <1>1, SafetyInvariance, PTL

(* A settlement moves forward only, and a final one stays, whatever late   *)
(* broadcast outcomes and old observations arrive.                         *)
THEOREM LifecycleHolds == Spec => StatusLifecycle
<1> DEFINE Forward ==
      \A s \in Requests : status'[s] # status[s] =>
        \/ status[s] = "none" /\ status'[s] = "validated"
        \/ status[s] = "validated" /\ status'[s] \in StoredStatus
        \/ status[s] = "broadcast" /\ status'[s] \in {"pending"} \union TerminalStatus
        \/ status[s] = "pending" /\ status'[s] \in TerminalStatus
<1>1. IInv /\ [Next]_vars => [Forward]_vars
  <2> SUFFICES ASSUME IInv, Next PROVE Forward
    BY DEF vars
  <2> USE DEF requestVars, quoteVars, rowVars, workerVars, chainVars
  <2>0. status \in [Requests -> {"none"} \union StoredStatus]
    BY DEF IInv, TypeInv, TypeOK
  <2>1. ASSUME NEW r \in Requests, CommitReservation(r)
        PROVE  Forward
    BY <2>0, <2>1 DEF CommitReservation, IInv, Reservations, Stored
  <2>2. ASSUME NEW r \in Requests, UpdateSettlementStatus(r)
        PROVE  Forward
    <3>1. outcome[r] \in StoredStatus
      BY <2>2 DEF UpdateSettlementStatus, IInv, Reservations, TypeInv, TypeOK,
           StoredStatus, ActiveStatus, TerminalStatus
    <3> QED
      BY <2>0, <2>2, <3>1 DEF UpdateSettlementStatus, StillValidated
  <2>3. ASSUME NEW w \in Workers, ApplyReconciliationResult(w)
        PROVE  Forward
    BY <2>0, <2>3 DEF ApplyReconciliationResult, Applicable, Active, StoredStatus,
         ActiveStatus, TerminalStatus
  <2>4. CASE status' = status
    BY <2>4
  <2> QED
    BY <2>1, <2>2, <2>3, <2>4 DEF Next, RequestStep, ValidateQuote, LockQuote,
       CheckDuplicate, InsertSettlement, Broadcast, CrashRequest, WorkerStep,
       ClaimSettlements, ObserveTransaction, ObserveTip, CandidateError, CrashWorker,
       Environment, LapseLease, BecomeDue, PayerSubmit, DropTransaction, NewBlock,
       Reorganize
<1> QED
  BY <1>1, SafetyInvariance, PTL DEF Spec, StatusLifecycle

(***************************************************************************)
(* Waiting.  Requests wait on row locks of quotes and on inserts that are  *)
(* not committed; both belong to open transactions.                        *)
(***************************************************************************)

\* A row lock belongs to the open transaction of a request for that quote,
\* which is still issued.
Locking ==
  /\ \A q \in Quotes : lock[q] # None => QuoteOf(lock[q]) = q /\ InTransaction(lock[q])
  /\ \A r \in Requests : InTransaction(r) =>
       lock[QuoteOf(r)] = r /\ quote[QuoteOf(r)] = "issued"

LEMMA LockingInit == Init => Locking
  BY DEF Init, Locking, InTransaction

\* Steps that neither begin nor end a transaction, nor change a quote.
LEMMA LockingFrame ==
  ASSUME Locking, UNCHANGED <<payment, quote, lock>>,
         \A r \in Requests : InTransaction(r)' <=> InTransaction(r),
         TypeOK
  PROVE  Locking'
<1>1. \A q \in Quotes : lock[q] # None => lock[q] \in Requests
  BY DEF TypeOK
<1>2. \A r \in Requests : QuoteOf(r)' = QuoteOf(r)
  BY DEF QuoteOf
<1> QED
  BY <1>1, <1>2 DEF Locking

\* A transaction begins with a free lock, and ends by releasing it.
LEMMA LockingMoves ==
  ASSUME TypeOK, Locking, NEW r \in Requests, UNCHANGED payment,
         \A s \in Requests \ {r} : InTransaction(s)' <=> InTransaction(s),
         \A q \in Quotes \ {QuoteOf(r)} : quote'[q] = quote[q],
         \/ /\ lock[QuoteOf(r)] = None
            /\ lock' = [lock EXCEPT ![QuoteOf(r)] = r]
            /\ InTransaction(r)' /\ quote'[QuoteOf(r)] = "issued"
         \/ /\ InTransaction(r) /\ ~InTransaction(r)'
            /\ lock' = [lock EXCEPT ![QuoteOf(r)] = None]
  PROVE  Locking'
<1>0. QuoteOf(r) \in Quotes /\ \A s \in Requests : QuoteOf(s)' = QuoteOf(s)
  BY PaymentType DEF QuoteOf
<1>1. \A s \in Requests : QuoteOf(s) \in Quotes
  BY PaymentType
<1>2. lock \in [Quotes -> Requests \union {None}] /\ None \notin Requests
  BY SettlementAssumption DEF TypeOK
<1>3. \A s \in Requests \ {r} : InTransaction(s) => QuoteOf(s) # QuoteOf(r)
  BY <1>2 DEF Locking
<1>4. ASSUME NEW q \in Quotes, lock'[q] # None
      PROVE  (QuoteOf(lock[q]) = q /\ InTransaction(lock[q]))'
  <2>1. CASE q = QuoteOf(r)
    BY <1>0, <1>2, <1>4, <2>1
  <2>2. CASE q # QuoteOf(r)
    <3>1. lock'[q] = lock[q] /\ lock[q] \in Requests
      BY <1>2, <1>4, <2>2
    <3>2. QuoteOf(lock[q]) = q /\ InTransaction(lock[q]) /\ lock[q] # r
      BY <1>4, <2>2, <3>1 DEF Locking
    <3> QED
      BY <1>0, <3>1, <3>2
  <2> QED
    BY <2>1, <2>2
<1>5. ASSUME NEW s \in Requests, InTransaction(s)'
      PROVE  (lock[QuoteOf(s)] = s /\ quote[QuoteOf(s)] = "issued")'
  <2>1. CASE s = r
    BY <1>0, <1>2, <1>5, <2>1
  <2>2. CASE s # r
    <3>1. InTransaction(s) /\ QuoteOf(s) # QuoteOf(r)
      BY <1>3, <1>5, <2>2
    <3> QED
      BY <1>0, <1>1, <1>2, <3>1 DEF Locking
  <2> QED
    BY <2>1, <2>2
<1> QED
  BY <1>4, <1>5 DEF Locking

LEMMA LockingRequest ==
  ASSUME TypeOK, Locking, NEW r \in Requests, RequestStep(r) \/ CrashRequest(r)
  PROVE  Locking'
<1> USE DEF requestVars, quoteVars
<1>0. /\ \A s \in Requests \ {r} : pc'[s] = pc[s]
      /\ UNCHANGED payment
  BY DEF RequestStep, CrashRequest, ValidateQuote, LockQuote, Replay, CheckDuplicate,
         InsertSettlement, CommitReservation, Broadcast, UpdateSettlementStatus, Answer, TypeOK
<1>1. \A s \in Requests \ {r} : InTransaction(s)' <=> InTransaction(s)
  BY <1>0 DEF InTransaction
<1>2. CASE ValidateQuote(r) \/ Broadcast(r) \/ UpdateSettlementStatus(r)
  <2>1. UNCHANGED <<quote, lock>> /\ ~InTransaction(r) /\ ~InTransaction(r)'
    BY <1>2 DEF ValidateQuote, Broadcast, UpdateSettlementStatus, Answer, InTransaction, TypeOK
  <2> QED
    BY <1>0, <1>1, <2>1, LockingFrame
<1>3. CASE LockQuote(r)
  <2>1. /\ UNCHANGED quote /\ ~InTransaction(r)
        /\ \/ UNCHANGED lock /\ pc'[r] = "done"
           \/ /\ lock[QuoteOf(r)] = None /\ quote[QuoteOf(r)] = "issued"
              /\ lock' = [lock EXCEPT ![QuoteOf(r)] = r] /\ pc'[r] = "locked"
    BY <1>3 DEF LockQuote, Replay, Answer, InTransaction, TypeOK
  <2>2. CASE UNCHANGED lock /\ pc'[r] = "done"
    <3>1. ~InTransaction(r)'
      BY <2>2 DEF InTransaction
    <3> QED
      BY <1>0, <1>1, <2>1, <2>2, <3>1, LockingFrame
  <2>3. CASE lock' = [lock EXCEPT ![QuoteOf(r)] = r] /\ pc'[r] = "locked"
    <3>1. InTransaction(r)'
      BY <2>3 DEF InTransaction
    <3> QED
      BY <1>0, <1>1, <2>1, <2>3, <3>1, LockingMoves
  <2> QED
    BY <2>1, <2>2, <2>3
<1>4. CASE CheckDuplicate(r) \/ InsertSettlement(r)
  <2>1. /\ UNCHANGED quote /\ InTransaction(r)
        /\ \/ UNCHANGED lock /\ pc'[r] \in {"insert", "commit"}
           \/ lock' = [lock EXCEPT ![QuoteOf(r)] = None] /\ pc'[r] = "done"
    BY <1>4 DEF CheckDuplicate, InsertSettlement, ReleaseLock, Answer, InTransaction, TypeOK
  <2>2. CASE UNCHANGED lock /\ pc'[r] \in {"insert", "commit"}
    <3>1. InTransaction(r)'
      BY <2>2 DEF InTransaction
    <3> QED
      BY <1>0, <1>1, <2>1, <2>2, <3>1, LockingFrame
  <2>3. CASE lock' = [lock EXCEPT ![QuoteOf(r)] = None] /\ pc'[r] = "done"
    <3>1. ~InTransaction(r)'
      BY <2>3 DEF InTransaction
    <3> QED
      BY <1>0, <1>1, <2>1, <2>3, <3>1, LockingMoves
  <2> QED
    BY <2>1, <2>2, <2>3
<1>5. CASE CommitReservation(r)
  <2>1. /\ InTransaction(r) /\ ~InTransaction(r)'
        /\ lock' = [lock EXCEPT ![QuoteOf(r)] = None]
        /\ \A q \in Quotes \ {QuoteOf(r)} : quote'[q] = quote[q]
    BY <1>5 DEF CommitReservation, ReleaseLock, InTransaction, TypeOK
  <2> QED
    BY <1>0, <1>1, <2>1, LockingMoves
<1>6. CASE CrashRequest(r)
  <2>1. /\ UNCHANGED quote /\ ~InTransaction(r)'
        /\ lock' = IF InTransaction(r) THEN [lock EXCEPT ![QuoteOf(r)] = None] ELSE lock
    BY <1>6 DEF CrashRequest, InTransaction, TypeOK
  <2>2. CASE InTransaction(r)
    BY <1>0, <1>1, <2>1, <2>2, LockingMoves
  <2>3. CASE ~InTransaction(r)
    BY <1>0, <1>1, <2>1, <2>3, LockingFrame
  <2> QED
    BY <2>2, <2>3
<1> QED
  BY <1>2, <1>3, <1>4, <1>5, <1>6 DEF RequestStep

LEMMA LockingNext ==
  ASSUME IInv, Locking, [Next]_vars
  PROVE  Locking'
<1> USE DEF requestVars, quoteVars, rowVars, workerVars, chainVars
<1>0. TypeOK /\ Observing
  BY DEF IInv, TypeInv
<1>1. CASE \E r \in Requests : RequestStep(r) \/ CrashRequest(r)
  BY <1>0, <1>1, LockingRequest
<1>2. ASSUME NEW w \in Workers, ApplyReconciliationResult(w), ~UNCHANGED quote
      PROVE  Locking'
  <2> DEFINE s == target[w]
  <2>1. s \in Requests /\ QuoteOf(s) \in Quotes
    BY <1>0, <1>2, PaymentType, SettlementAssumption
    DEF ApplyReconciliationResult, Observing, TypeOK
  <2>2. /\ lock[QuoteOf(s)] = None /\ UNCHANGED <<payment, pc, lock>>
        /\ \A q \in Quotes \ {QuoteOf(s)} : quote'[q] = quote[q]
    BY <1>0, <1>2 DEF ApplyReconciliationResult, RecordConfirmation, TypeOK
  <2>3. \A r \in Requests : /\ QuoteOf(r)' = QuoteOf(r) /\ QuoteOf(r) \in Quotes
                            /\ InTransaction(r)' <=> InTransaction(r)
    BY <1>0, <2>2, PaymentType DEF QuoteOf, InTransaction
  <2>4. \A r \in Requests : InTransaction(r) => QuoteOf(r) # QuoteOf(s)
    BY <2>2, SettlementAssumption DEF Locking
  <2>5. \A q \in Quotes : lock[q] # None => lock[q] \in Requests
    BY <1>0 DEF TypeOK
  <2> HIDE DEF s
  <2> QED
    BY <2>2, <2>3, <2>4, <2>5 DEF Locking
<1>3. CASE /\ UNCHANGED <<payment, pc, lock, quote>>
  <2>1. \A r \in Requests : InTransaction(r)' <=> InTransaction(r)
    BY <1>3 DEF InTransaction
  <2> QED
    BY <1>0, <1>3, <2>1, LockingFrame
<1>4. CASE \E w \in Workers : WorkerStep(w) \/ CrashWorker(w)
  <2>1. PICK w \in Workers : WorkerStep(w) \/ CrashWorker(w)
    BY <1>4
  <2>2. UNCHANGED <<payment, pc, lock>>
    BY <2>1 DEF WorkerStep, CrashWorker, ClaimSettlements, ObserveTransaction, ObserveTip,
                ApplyReconciliationResult, CandidateError
  <2>3. UNCHANGED quote \/ ApplyReconciliationResult(w)
    BY <2>1 DEF WorkerStep, CrashWorker, ClaimSettlements, ObserveTransaction, ObserveTip,
                CandidateError
  <2> QED
    BY <1>2, <1>3, <2>2, <2>3
<1>5. CASE Environment
  BY <1>3, <1>5 DEF Environment, LapseLease, BecomeDue, PayerSubmit, DropTransaction,
                    NewBlock, Reorganize
<1>6. CASE UNCHANGED vars
  BY <1>3, <1>6 DEF vars
<1> QED
  BY <1>1, <1>4, <1>5, <1>6 DEF Next

\* What keeps the next step of r waiting is the open transaction of s.
WaitsFor(r, s) ==
  \/ pc[r] = "reserve" /\ lock[QuoteOf(r)] = s
  \/ pc[r] = "insert" /\ pc[s] = "commit" /\ Conflicts(r, s)

Waits(r) == \E s \in Requests : WaitsFor(r, s)

(* Waiting ends: a request waits for an open transaction that waits for    *)
(* nothing, or for one whose insert waits for such a one; and a worker     *)
(* that confirms a settlement never finds its quote locked.                *)
WaitsEnd ==
  /\ \A r, s \in Requests : WaitsFor(r, s) =>
       /\ InTransaction(s)
       /\ \A t \in Requests : WaitsFor(s, t) => InTransaction(t) /\ ~Waits(t)
  /\ \A w \in Workers : seen[w] = "confirmed" /\ Applicable(target[w]) =>
       lock[QuoteOf(target[w])] = None

(* No set of requests waits for each other, and no worker for them.        *)
THEOREM WaitingEnds == Spec => []WaitsEnd
<1>1. IInv /\ Locking => WaitsEnd
  <2> SUFFICES ASSUME IInv, Locking
               PROVE  WaitsEnd
    OBVIOUS
  <2>0. TypeOK /\ Observing
    BY DEF IInv, TypeInv
  <2>1. \A r, s \in Requests : WaitsFor(r, s) => InTransaction(s)
    <3>1. \A r \in Requests : QuoteOf(r) \in Quotes
      BY <2>0, PaymentType
    <3> QED
      BY <3>1, SettlementAssumption DEF WaitsFor, Locking, InTransaction
  <2>2. ASSUME NEW r \in Requests, NEW s \in Requests, WaitsFor(r, s),
               NEW t \in Requests, WaitsFor(s, t)
        PROVE  InTransaction(t) /\ ~Waits(t)
    <3>1. pc[s] = "insert"
      BY <2>1, <2>2 DEF WaitsFor, InTransaction
    <3>2. pc[t] = "commit"
      BY <2>2, <3>1 DEF WaitsFor
    <3> QED
      BY <3>2 DEF Waits, WaitsFor, InTransaction
  <2>3. ASSUME NEW w \in Workers, seen[w] = "confirmed", Applicable(target[w])
        PROVE  lock[QuoteOf(target[w])] = None
    <3> DEFINE s == target[w]   q == QuoteOf(s)
    <3>1. s \in Requests /\ q \in Quotes /\ Stored(s)
      BY <2>0, <2>3, PaymentType, SettlementAssumption
      DEF Observing, TypeOK, Applicable, Active, ActiveStatus, Stored
    <3>2. quote[q] # "issued"
      BY <3>1 DEF IInv, ConfirmationIsAtomic
    <3>3. lock[q] # None => quote[q] = "issued"
      BY <2>0, <3>1 DEF Locking, TypeOK
    <3> QED
      BY <3>2, <3>3
  <2> QED
    BY <2>1, <2>2, <2>3 DEF WaitsEnd
<1>2. IInv /\ Locking /\ IInv' /\ [Next]_vars => Locking'
  BY LockingNext
<1> QED
  BY <1>1, <1>2, LockingInit, SafetyInvariance, PTL DEF Spec

(***************************************************************************)
(* Receipts and the ledger, on a chain that does not reorganize.  With     *)
(* reorganizations ReceiptAtCanonicalDepth does not hold: the transaction  *)
(* and the tip are two observations.                                       *)
(***************************************************************************)

AtDepth(t) == chain[t] = "success" /\ conf[t] >= MinConfirmations

\* What a worker has observed is still true of the chain.
ObservationsHold ==
  \A w \in Workers :
    /\ seen[w] = "success" => /\ chain[TxOf(target[w])] = "success"
                              /\ seenConf[w] <= conf[TxOf(target[w])]
    /\ seen[w] = "confirmed" => AtDepth(TxOf(target[w]))

DepthInv == IInv /\ ObservationsHold /\ ReceiptAtCanonicalDepth

LEMMA DepthInit == Init => DepthInv
  BY SafetyInit DEF Init, DepthInv, ObservationsHold, ReceiptAtCanonicalDepth

\* Without reorganizations, blocks only bury what they contain.
LEMMA ChainGrows ==
  ASSUME ReorgDepth = 0, TypeInv, [Next]_vars
  PROVE  \A t \in Txs : chain[t] = "success" => chain'[t] = "success" /\ conf'[t] >= conf[t]
<1> USE DEF requestVars, quoteVars, rowVars, workerVars, chainVars
<1>0. /\ chain \in [Txs -> {"unknown", "mempool", "success", "aborted", "dropped"}]
      /\ conf \in [Txs -> 0..MinConfirmations]
      /\ MinConfirmations \in Nat
  BY SettlementAssumption DEF TypeInv, TypeOK
<1>1. CASE UNCHANGED chainVars
  BY <1>0, <1>1
<1>2. ASSUME NEW r \in Requests, Broadcast(r)
      PROVE  \A t \in Txs : chain[t] = "success" => chain'[t] = "success" /\ conf'[t] >= conf[t]
  BY <1>0, <1>2 DEF Broadcast, EnterMempool
<1>3. ASSUME NEW t \in Txs, PayerSubmit(t) \/ DropTransaction(t)
      PROVE  \A x \in Txs : chain[x] = "success" => chain'[x] = "success" /\ conf'[x] >= conf[x]
  BY <1>0, <1>3 DEF PayerSubmit, DropTransaction
<1>4. ASSUME NEW S \in SUBSET Txs, NEW A \in SUBSET Txs, NewBlock(S, A)
      PROVE  \A t \in Txs : chain[t] = "success" => chain'[t] = "success" /\ conf'[t] >= conf[t]
  BY <1>0, <1>4 DEF NewBlock, InBlock, MinNat
<1> QED
  BY <1>1, <1>2, <1>3, <1>4 DEF vars, Next, RequestStep, ValidateQuote, LockQuote,
     CheckDuplicate, InsertSettlement, CommitReservation, UpdateSettlementStatus,
     CrashRequest, WorkerStep, ClaimSettlements, ObserveTransaction, ObserveTip,
     ApplyReconciliationResult, CandidateError, CrashWorker, Environment, LapseLease,
     BecomeDue

LEMMA DepthNext ==
  ASSUME ReorgDepth = 0, DepthInv, [Next]_vars
  PROVE  DepthInv'
<1> USE DEF requestVars, quoteVars, rowVars, workerVars, chainVars
<1>0. IInv' /\ TypeInv /\ TypeInv'
  BY SafetyNext DEF DepthInv, IInv
<1>1. /\ \A t \in Txs : chain[t] = "success" => chain'[t] = "success" /\ conf'[t] >= conf[t]
      /\ \A s \in Requests : TxOf(s) \in Txs
      /\ \A t \in Txs : conf[t] \in 0..MinConfirmations /\ conf'[t] \in 0..MinConfirmations
      /\ MinConfirmations \in Nat
  BY <1>0, ChainGrows, PaymentType, SettlementAssumption DEF TypeInv, TypeOK
<1>2. payment' = payment
  BY DEF vars, Next, RequestStep, ValidateQuote, LockQuote, CheckDuplicate,
     InsertSettlement, CommitReservation, Broadcast, UpdateSettlementStatus, CrashRequest,
     WorkerStep, ClaimSettlements, ObserveTransaction, ObserveTip,
     ApplyReconciliationResult, CandidateError, CrashWorker, Environment, LapseLease,
     BecomeDue, PayerSubmit, DropTransaction, NewBlock, Reorganize
<1>3. \A w \in Workers : seen[w] # "none" => target[w] \in Requests
  BY <1>0, SettlementAssumption DEF TypeInv, TypeOK, Observing
<1>4. ASSUME UNCHANGED <<seen, seenConf, target>>
      PROVE  ObservationsHold'
  <2>1. \A w \in Workers : seenConf[w] \in 0..MinConfirmations
    BY <1>0 DEF TypeInv, TypeOK
  <2>2. \A w \in Workers : seen[w] # "none" => TxOf(target[w]) \in Txs
    BY <1>1, <1>3
  <2> QED
    BY <1>1, <1>2, <1>3, <1>4, <2>1, <2>2 DEF DepthInv, ObservationsHold, AtDepth, TxOf
<1>5. ASSUME UNCHANGED receipts
      PROVE  ReceiptAtCanonicalDepth'
  BY <1>0, <1>1, <1>2, <1>5 DEF DepthInv, ReceiptAtCanonicalDepth, TypeInv, TypeOK, TxOf
<1>6. ASSUME NEW w \in Workers, NEW s \in Requests, ObserveTransaction(w, s)
      PROVE  ObservationsHold'
  <2>1. /\ UNCHANGED <<chain, conf>>
        /\ target' = [target EXCEPT ![w] = s]
        /\ \/ /\ seen' = [seen EXCEPT ![w] = "success"]
              /\ chain[TxOf(s)] = "success"
              /\ seenConf' = [seenConf EXCEPT ![w] = conf[TxOf(s)]]
           \/ /\ \E o \in {"failed", "dropped", "pending"} : seen' = [seen EXCEPT ![w] = o]
              /\ seenConf' = [seenConf EXCEPT ![w] = 0]
    BY <1>6 DEF ObserveTransaction, Classified
  <2> QED
    BY <1>1, <1>2, <2>1, <1>0 DEF DepthInv, ObservationsHold, AtDepth, TxOf, TypeInv, TypeOK
<1>7. ASSUME NEW w \in Workers, ObserveTip(w)
      PROVE  ObservationsHold'
  <2>1. /\ UNCHANGED <<chain, conf, target>>
        /\ seen[w] = "success"
        /\ \/ /\ seenConf[w] >= MinConfirmations
              /\ seen' = [seen EXCEPT ![w] = "confirmed"]
           \/ seen' = [seen EXCEPT ![w] = "pending"]
        /\ seenConf' = [seenConf EXCEPT ![w] = 0]
    BY <1>7 DEF ObserveTip, DepthReached
  <2>2. conf[TxOf(target[w])] \in Nat /\ seenConf[w] \in Nat
    BY <1>0, <1>1, <1>3, <2>1 DEF TypeInv, TypeOK
  <2> QED
    BY <1>0, <1>1, <1>2, <1>3, <2>1, <2>2 DEF DepthInv, ObservationsHold, AtDepth, TxOf, TypeInv, TypeOK
<1>8. ASSUME NEW w \in Workers,
             seen' = [seen EXCEPT ![w] = "none"], UNCHANGED <<chain, conf>>,
             target' = [target EXCEPT ![w] = None],
             seenConf' = [seenConf EXCEPT ![w] = 0]
      PROVE  ObservationsHold'
  BY <1>0, <1>1, <1>2, <1>3, <1>8 DEF DepthInv, ObservationsHold, AtDepth, TxOf, TypeInv, TypeOK
<1>9. ASSUME NEW S \in SUBSET Txs, NEW A \in SUBSET Txs, NewBlock(S, A)
      PROVE  ObservationsHold'
  <2>1. UNCHANGED <<seen, target>>
    BY <1>9 DEF NewBlock
  <2>2. \A t \in Txs : chain[t] = "success" => conf'[t] = MinNat(conf[t] + 1, MinConfirmations)
    BY <1>0, <1>9 DEF NewBlock, InBlock, TypeInv, TypeOK
  <2>3. \A w \in Workers : seen[w] = "success"
          => seenConf'[w] = MinNat(seenConf[w] + 1, MinConfirmations) /\ seenConf[w] \in Nat
    BY <1>0, <1>9 DEF NewBlock, TypeInv, TypeOK
  <2> QED
    BY <1>1, <1>2, <1>3, <2>1, <2>2, <2>3 DEF DepthInv, ObservationsHold, AtDepth, TxOf, MinNat
<1>10. ASSUME NEW w \in Workers, ApplyReconciliationResult(w)
       PROVE  ReceiptAtCanonicalDepth'
  <2>1. CASE Applicable(target[w]) /\ seen[w] = "confirmed"
    <3>1. UNCHANGED <<chain, conf>> /\ receipts' = receipts \union {target[w]}
      BY <1>10, <2>1 DEF ApplyReconciliationResult, RecordConfirmation
    <3>2. AtDepth(TxOf(target[w]))
      BY <2>1 DEF DepthInv, ObservationsHold
    <3> QED
      BY <1>2, <3>1, <3>2 DEF DepthInv, ReceiptAtCanonicalDepth, AtDepth, TxOf
  <2>2. CASE ~(Applicable(target[w]) /\ seen[w] = "confirmed")
    BY <1>5, <1>10, <2>2 DEF ApplyReconciliationResult
  <2> QED
    BY <2>1, <2>2
<1>11. ObservationsHold'
  BY <1>4, <1>6, <1>7, <1>8, <1>9 DEF vars, Next, RequestStep, ValidateQuote, LockQuote,
     CheckDuplicate, InsertSettlement, CommitReservation, Broadcast, UpdateSettlementStatus,
     CrashRequest, WorkerStep, ClaimSettlements, ApplyReconciliationResult, NextCandidate,
     CandidateError, CrashWorker, Environment, LapseLease, BecomeDue, PayerSubmit,
     DropTransaction, Reorganize
<1>12. ReceiptAtCanonicalDepth'
  BY <1>5, <1>10 DEF vars, Next, RequestStep, ValidateQuote, LockQuote,
     CheckDuplicate, InsertSettlement, CommitReservation, Broadcast, UpdateSettlementStatus,
     CrashRequest, WorkerStep, ClaimSettlements, ObserveTransaction, ObserveTip,
     CandidateError, CrashWorker, Environment, LapseLease, BecomeDue, PayerSubmit,
     DropTransaction, NewBlock, Reorganize
<1> QED
  BY <1>0, <1>11, <1>12 DEF DepthInv

LEMMA DepthInvariance ==
  ASSUME ReorgDepth = 0
  PROVE  Spec => []DepthInv
<1>1. DepthInv /\ [Next]_vars => DepthInv'
  BY DepthNext
<1> QED
  BY <1>1, DepthInit, PTL DEF Spec

(* On a chain that does not reorganize, a receipt exists only for a        *)
(* transaction at the configured depth: what a worker has read of it and   *)
(* of the tip at two moments is still true when the result is applied.     *)
THEOREM ReceiptsAtDepth ==
  ASSUME ReorgDepth = 0
  PROVE  Spec => []ReceiptAtCanonicalDepth
<1>1. DepthInv => ReceiptAtCanonicalDepth
  BY DEF DepthInv
<1> QED
  BY <1>1, DepthInvariance, PTL

(***************************************************************************)
(* Settlement implements SettlementLedger on a chain that does not         *)
(* reorganize: the initial states map to the ledger's, and every step of a *)
(* request, a worker, a clock or the chain maps to a step of the ledger or *)
(* leaves it alone.                                                        *)
(***************************************************************************)


\* The entry of a settlement's row.
EntryFor(s) == [state |-> IF Active(s) THEN "reserved" ELSE status[s], tx |-> TxOf(s)]

\* A quote has at most one settlement, so its entry is that one's.
LEMMA EntryOfStored ==
  ASSUME NoPaymentReuse, NEW s \in Requests, Stored(s)
  PROVE  EntryOf(QuoteOf(s)) = EntryFor(s)
<1>1. StoredFor(QuoteOf(s)) = {s}
  BY DEF StoredFor, NoPaymentReuse
<1> QED
  BY <1>1 DEF EntryOf, EntryFor

LEMMA EntryOfUnstored ==
  ASSUME NEW q \in Quotes, \A s \in Requests : Stored(s) => QuoteOf(s) # q
  PROVE  EntryOf(q) = [state |-> "unpaid", tx |-> None]
  BY DEF EntryOf, StoredFor

\* Rows that keep what the ledger sees of them keep their entries.
LEMMA EntriesFrame ==
  ASSUME UNCHANGED <<payment, status>>
  PROVE  LedgerEntry' = LedgerEntry
  BY DEF LedgerEntry, EntryOf, StoredFor, Stored, Active, QuoteOf, TxOf

\* One row of a quote changes what the ledger sees of it: only its entry does.
LEMMA EntriesUpdate ==
  ASSUME IInv, IInv', NEW s \in Requests, UNCHANGED payment, Stored(s)',
         \A r \in Requests \ {s} : status'[r] = status[r]
  PROVE  LedgerEntry' = [LedgerEntry EXCEPT ![QuoteOf(s)] = EntryFor(s)']
<1>1. QuoteOf(s) \in Quotes
  BY PaymentType DEF IInv, TypeInv
<1>2. \A r \in Requests : r # s /\ (Stored(r) \/ Stored(r)') => QuoteOf(r) # QuoteOf(s)
  BY DEF IInv, NoPaymentReuse, Stored, QuoteOf
<1>3. StoredFor(QuoteOf(s))' = {s}
  BY <1>2 DEF StoredFor, QuoteOf
<1>4. EntryOf(QuoteOf(s))' = EntryFor(s)'
  BY <1>3 DEF EntryOf, EntryFor
<1>5. ASSUME NEW q \in Quotes, q # QuoteOf(s)
      PROVE  EntryOf(q)' = EntryOf(q)
  <2>1. StoredFor(q)' = StoredFor(q) /\ s \notin StoredFor(q)
    BY <1>5 DEF StoredFor, Stored, QuoteOf
  <2>2. \A r \in StoredFor(q) : status'[r] = status[r] /\ TxOf(r)' = TxOf(r)
    BY <2>1 DEF StoredFor, TxOf
  <2>3. CASE StoredFor(q) = {}
    BY <2>1, <2>3 DEF EntryOf
  <2>4. CASE StoredFor(q) # {}
    <3>1. (CHOOSE r \in StoredFor(q) : TRUE) \in StoredFor(q)
      BY <2>4
    <3> QED
      BY <2>1, <2>2, <2>4, <3>1 DEF EntryOf, Active
  <2> QED
    BY <2>3, <2>4
<1> QED
  BY <1>1, <1>4, <1>5 DEF LedgerEntry, QuoteOf

\* The ledger's actions, over the values its variables take.
LEMMA LedgerPay ==
  ASSUME NEW T \in SUBSET Txs,
         Paid' = Paid \union T,
         UNCHANGED <<LedgerEntry, Receipted>>
  PROVE  Ledger!Next
  BY DEF Ledger!Next, Ledger!Pay

LEMMA LedgerReserve ==
  ASSUME NEW q \in Quotes, NEW t \in Txs,
         LedgerEntry[q] = [state |-> "unpaid", tx |-> None],
         \A p \in Quotes : LedgerEntry[p].tx # t,
         LedgerEntry' = [LedgerEntry EXCEPT ![q] = [state |-> "reserved", tx |-> t]],
         UNCHANGED <<Receipted, Paid>>
  PROVE  Ledger!Next
  BY DEF Ledger!Next, Ledger!Reserve, Ledger!Open

LEMMA LedgerConfirm ==
  ASSUME NEW q \in Quotes, NEW t \in Paid,
         LedgerEntry[q] = [state |-> "reserved", tx |-> t],
         LedgerEntry' = [LedgerEntry EXCEPT ![q] = [state |-> "confirmed", tx |-> t]],
         Receipted' = Receipted \union {q},
         UNCHANGED Paid
  PROVE  Ledger!Next
<1>1. LedgerEntry[q].state = "reserved" /\ LedgerEntry[q].tx = t
  OBVIOUS
<1>2. LedgerEntry' = [LedgerEntry EXCEPT ![q] = [state |-> "confirmed", tx |-> LedgerEntry[q].tx]]
  BY <1>1
<1>3. Ledger!Confirm(q)
  BY <1>1, <1>2 DEF Ledger!Confirm
<1> QED
  BY <1>3 DEF Ledger!Next

LEMMA LedgerGiveUp ==
  ASSUME NEW q \in Quotes, NEW t \in Txs, NEW end \in {"failed", "dropped"},
         LedgerEntry[q] = [state |-> "reserved", tx |-> t],
         LedgerEntry' = [LedgerEntry EXCEPT ![q] = [state |-> end, tx |-> t]],
         UNCHANGED <<Receipted, Paid>>
  PROVE  Ledger!Next
<1>1. LedgerEntry[q].state = "reserved" /\ LedgerEntry[q].tx = t
  OBVIOUS
<1>2. LedgerEntry' = [LedgerEntry EXCEPT ![q] = [state |-> end, tx |-> LedgerEntry[q].tx]]
  BY <1>1
<1>3. Ledger!GiveUp(q)
  BY <1>1, <1>2 DEF Ledger!GiveUp
<1> QED
  BY <1>3 DEF Ledger!Next

\* A commit reserves the quote's entry.
LEMMA CommitReserves ==
  ASSUME IInv, IInv', NEW r \in Requests, CommitReservation(r)
  PROVE  Ledger!Next
<1> USE DEF requestVars, quoteVars, rowVars, workerVars, chainVars
<1> DEFINE q == QuoteOf(r)
           t == TxOf(r)
<1>0. q \in Quotes /\ t \in Txs /\ t # None
  BY PaymentType, SettlementAssumption DEF IInv, TypeInv
<1>1. /\ UNCHANGED <<payment, receipts, chain, conf>>
      /\ pc[r] = "commit" /\ ~Stored(r)
      /\ status' = [status EXCEPT ![r] = "validated"]
  BY DEF CommitReservation, IInv, Reservations
<1>2. \A s \in Requests : Stored(s) => QuoteOf(s) # q /\ TxOf(s) # t
  BY <1>1 DEF IInv, CommitsExclusive, Conflicts
<1>3. LedgerEntry[q] = [state |-> "unpaid", tx |-> None]
  BY <1>0, <1>2, EntryOfUnstored DEF LedgerEntry
<1>4. ASSUME NEW p \in Quotes
      PROVE  LedgerEntry[p].tx # t
  <2>1. CASE \E s \in Requests : Stored(s) /\ QuoteOf(s) = p
    <3>1. PICK s \in Requests : Stored(s) /\ QuoteOf(s) = p
      BY <2>1
    <3>2. EntryOf(p) = EntryFor(s)
      BY <3>1, EntryOfStored DEF IInv
    <3> QED
      BY <1>2, <3>1, <3>2 DEF LedgerEntry, EntryFor
  <2>2. CASE ~ \E s \in Requests : Stored(s) /\ QuoteOf(s) = p
    BY <1>0, <2>2, EntryOfUnstored DEF LedgerEntry
  <2> QED
    BY <2>1, <2>2
<1>5. LedgerEntry' = [LedgerEntry EXCEPT ![q] = [state |-> "reserved", tx |-> t]]
  <2>1. status'[r] = "validated" /\ \A s \in Requests \ {r} : status'[s] = status[s]
    BY <1>1 DEF IInv, TypeInv, TypeOK
  <2>2. Stored(r)' /\ EntryFor(r)' = [state |-> "reserved", tx |-> t]
    BY <1>1, <2>1 DEF Stored, EntryFor, Active, ActiveStatus, TxOf
  <2> QED
    BY <1>1, <2>1, <2>2, EntriesUpdate
<1>6. UNCHANGED <<Receipted, Paid>>
  BY <1>1 DEF Receipted, Paid, QuoteOf
<1> QED
  BY <1>0, <1>3, <1>4, <1>5, <1>6, LedgerReserve

(* A row that advances resolves its entry, or leaves it reserved.          *)
LEMMA AdvanceMaps ==
  ASSUME IInv, IInv', NEW s \in Requests, Active(s), UNCHANGED <<payment, chainVars>>,
         NEW o \in {"broadcast", "pending", "failed", "dropped", "confirmed"},
         status' = [status EXCEPT ![s] = o],
         o = "confirmed" => TxOf(s) \in Paid,
         receipts' = IF o = "confirmed" THEN receipts \union {s} ELSE receipts
  PROVE  Ledger!Next \/ UNCHANGED Ledger!vars
<1> DEFINE q == QuoteOf(s)
<1>0. q \in Quotes
  BY PaymentType DEF IInv, TypeInv
<1>1. Stored(s) /\ Stored(s)'
  BY DEF Stored, Active, ActiveStatus, IInv, TypeInv, TypeOK
<1>2. status'[s] = o /\ \A r \in Requests \ {s} : status'[r] = status[r]
  BY DEF IInv, TypeInv, TypeOK
<1>3. LedgerEntry[q] = [state |-> "reserved", tx |-> TxOf(s)]
  BY <1>0, <1>1, EntryOfStored DEF LedgerEntry, EntryFor, IInv
<1>4. LedgerEntry' = [LedgerEntry EXCEPT ![q] = EntryFor(s)']
  BY <1>1, <1>2, EntriesUpdate
<1>5. UNCHANGED Paid
  BY DEF Paid, chainVars
<1>6. CASE o \in {"broadcast", "pending"}
  <2>1. EntryFor(s)' = [state |-> "reserved", tx |-> TxOf(s)]
    BY <1>2, <1>6 DEF EntryFor, Active, ActiveStatus, TxOf
  <2>2. LedgerEntry' = LedgerEntry
    BY <1>3, <1>4, <2>1 DEF LedgerEntry
  <2>3. Receipted' = Receipted
    BY <1>6 DEF Receipted, QuoteOf
  <2> QED
    BY <1>5, <2>2, <2>3 DEF Ledger!vars
<1>7. CASE o \in {"failed", "dropped", "confirmed"}
  <2>1. EntryFor(s)' = [state |-> o, tx |-> TxOf(s)]
    BY <1>2, <1>7 DEF EntryFor, Active, ActiveStatus, TxOf
  <2>2. LedgerEntry' = [LedgerEntry EXCEPT ![q] = [state |-> o, tx |-> TxOf(s)]]
    BY <1>4, <2>1
  <2>3. TxOf(s) \in Txs
    BY PaymentType DEF IInv, TypeInv
  <2>4. CASE o \in {"failed", "dropped"}
    <3>1. Receipted' = Receipted
      BY <2>4 DEF Receipted, QuoteOf
    <3>2. Ledger!Next
      BY <1>0, <1>3, <1>5, <2>2, <2>3, <2>4, <3>1, LedgerGiveUp
    <3> QED
      BY <3>2
  <2>5. CASE o = "confirmed"
    <3>1. Receipted' = Receipted \union {q}
      BY <2>5 DEF Receipted, QuoteOf
    <3>2. TxOf(s) \in Paid
      BY <2>5
    <3>3. Ledger!Next
      BY <1>0, <1>3, <1>5, <2>2, <2>5, <3>1, <3>2, LedgerConfirm
    <3> QED
      BY <3>3
  <2> QED
    BY <1>7, <2>4, <2>5
<1> QED
  BY <1>6, <1>7

\* Steps that change neither a row nor a receipt only let transactions be paid.
LEMMA ChainMaps ==
  ASSUME ReorgDepth = 0, IInv, [Next]_vars, UNCHANGED <<payment, status, receipts>>
  PROVE  Ledger!Next
<1>1. UNCHANGED <<LedgerEntry, Receipted>>
  BY EntriesFrame DEF Receipted, QuoteOf
<1>2. Paid \subseteq Paid'
  <2>1. \A t \in Txs : /\ chain[t] = "success" => chain'[t] = "success" /\ conf'[t] >= conf[t]
                       /\ conf[t] \in Nat /\ conf'[t] \in Nat
    BY ChainGrows, TypeNext, TypeStutter, SettlementAssumption DEF IInv, TypeInv, TypeOK
  <2>2. MinConfirmations \in Nat
    BY SettlementAssumption
  <2> QED
    BY <2>1, <2>2 DEF Paid
<1>3. Paid' \in SUBSET Txs /\ Paid' = Paid \union Paid'
  BY <1>2 DEF Paid
<1> QED
  BY <1>1, <1>3, LedgerPay

LEMMA LedgerNext ==
  ASSUME ReorgDepth = 0, DepthInv, [Next]_vars
  PROVE  [Ledger!Next]_(Ledger!vars)
<1> USE DEF requestVars, quoteVars, rowVars, workerVars, chainVars
<1>0. IInv /\ IInv'
  BY SafetyNext DEF DepthInv
<1>1. ASSUME NEW r \in Requests, CommitReservation(r)
      PROVE  Ledger!Next
  BY <1>0, <1>1, CommitReserves
<1>2. ASSUME NEW r \in Requests, UpdateSettlementStatus(r), status' # status
      PROVE  Ledger!Next \/ UNCHANGED Ledger!vars
  <2>1. /\ UNCHANGED <<payment, chainVars, receipts>> /\ Active(r)
        /\ status' = [status EXCEPT ![r] = outcome[r]]
    BY <1>2 DEF UpdateSettlementStatus, StillValidated, Active, ActiveStatus
  <2>2. outcome[r] \in {"broadcast", "pending", "failed"}
    BY <1>0, <1>2 DEF UpdateSettlementStatus, IInv, Reservations, TypeInv, TypeOK
  <2> QED
    BY <1>0, <2>1, <2>2, AdvanceMaps
<1>3. ASSUME NEW w \in Workers, ApplyReconciliationResult(w), Applicable(target[w])
      PROVE  Ledger!Next \/ UNCHANGED Ledger!vars
  <2> DEFINE s == target[w]
  <2>1. s \in Requests /\ TxOf(s) \in Txs
    BY <1>0, <1>3, PaymentType, SettlementAssumption
    DEF IInv, TypeInv, TypeOK, Observing, ApplyReconciliationResult
  <2>2. /\ UNCHANGED <<payment, chainVars>> /\ Active(s)
        /\ seen[w] \in {"pending", "failed", "dropped", "confirmed"}
        /\ status' = [status EXCEPT ![s] = seen[w]]
        /\ receipts' = IF seen[w] = "confirmed" THEN receipts \union {s} ELSE receipts
    BY <1>3 DEF ApplyReconciliationResult, Applicable, RecordConfirmation
  <2>3. seen[w] = "confirmed" => TxOf(s) \in Paid
    BY <2>1 DEF DepthInv, ObservationsHold, AtDepth, Paid
  <2> QED
    BY <1>0, <2>1, <2>2, <2>3, AdvanceMaps
<1>4. CASE UNCHANGED <<payment, status, receipts>>
  BY <1>0, <1>4, ChainMaps
<1> QED
  BY <1>1, <1>2, <1>3, <1>4 DEF vars, Next, RequestStep, ValidateQuote, LockQuote,
     CheckDuplicate, InsertSettlement, Broadcast, UpdateSettlementStatus, CrashRequest,
     WorkerStep, ClaimSettlements, ObserveTransaction, ObserveTip,
     ApplyReconciliationResult, CandidateError, CrashWorker, Environment, LapseLease,
     BecomeDue, PayerSubmit, DropTransaction, NewBlock, Reorganize

LEMMA LedgerInit ==
  ASSUME Init
  PROVE  Ledger!Init
<1>1. LedgerEntry = [q \in Quotes |-> [state |-> "unpaid", tx |-> None]]
  BY EntryOfUnstored DEF Init, LedgerEntry, Stored
<1>2. Receipted = {}
  BY DEF Init, Receipted
<1>3. Paid = {}
  BY SettlementAssumption DEF Init, Paid
<1> QED
  BY <1>1, <1>2, <1>3 DEF Ledger!Init, Ledger!Open

(* Seen by quote, requests, workers, leases and crashes keep the promise   *)
(* of the ledger: reserved once by a transaction of its own, resolved at   *)
(* most once, confirmed together with its receipt and only when paid.      *)
THEOREM ImplementsLedger ==
  ASSUME ReorgDepth = 0
  PROVE  Spec => LedgerSpec
<1>1. Init => Ledger!Init
  BY LedgerInit
<1>2. DepthInv /\ [Next]_vars => [Ledger!Next]_(Ledger!vars)
  BY LedgerNext
<1> QED
  BY <1>1, <1>2, DepthInvariance, PTL DEF Spec, LedgerSpec, Ledger!Spec
=============================================================================
