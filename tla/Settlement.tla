----------------------------- MODULE Settlement -----------------------------
(***************************************************************************)
(* The facilitator's settlement path: concurrent settle requests of the    *)
(* API process, the PostgreSQL tables they share with the reconciliation   *)
(* workers, and the Stacks chain that both talk to.                        *)
(*                                                                         *)
(* A settle request mints its settlement identifier before it reserves, so *)
(* the request itself names the settlement row it would create.            *)
(*                                                                         *)
(* Clocks are abstracted to the comparisons the code makes: a lease has    *)
(* lapsed or not, reconcile_after is due or not, and each may turn at any  *)
(* moment.  A quote may have expired whenever a request compares it with   *)
(* the clock; no property depends on when, so that is a free choice.       *)
(***************************************************************************)
EXTENDS Naturals, FiniteSets

CONSTANTS
  Requests,          \* settle calls, each with its fresh settlement identifier
  Workers,           \* reconciliation worker processes
  Quotes,            \* issued quotes
  Txs,               \* Stacks transactions, by transaction identifier
  Submissions,       \* which <<quote, tx>> the requests carry, per behaviour
  None,
  BatchSize,         \* RECONCILIATION_BATCH_SIZE
  MinConfirmations,  \* SETTLEMENT_MIN_CONFIRMATIONS
  ReorgDepth,        \* blocks the chain may replace
  MaxCrashes         \* bound on the crashes of the behaviour

ASSUME SettlementAssumption ==
  /\ Submissions \subseteq [Requests -> Quotes \X Txs]
  /\ None \notin Requests \union Quotes \union Txs \union Workers
  /\ BatchSize \in Nat \ {0}
  /\ MinConfirmations \in Nat \ {0}
  /\ ReorgDepth \in Nat
  /\ ReorgDepth < MinConfirmations
  /\ MaxCrashes \in Nat

VARIABLES
  payment,    \* request -> the <<quote, tx>> it carries
  pc,         \* request -> where its handler stands
  outcome,    \* request -> normalized broadcast outcome, as the status to store
  reply,      \* request -> what the caller was answered
  sent,       \* request -> it has submitted its transaction to the node
  quote,      \* quotes.status
  lock,       \* quote -> request holding the row lock of an open transaction
  status,     \* settlements.status, "none" before the insert commits
  attempted,  \* settlements.broadcast_attempted_at IS NOT NULL
  due,        \* settlements.reconcile_after <= now
  lease,      \* settlements.reconcile_lease_until: NULL, in the future, past
  receipts,   \* settlements with a settlement_receipts row
  deliveries, \* settlements with a deliveries row
  batch,      \* worker -> candidates of its run still to reconcile
  target,     \* worker -> candidate it is reconciling
  seen,       \* worker -> what it has observed of the target's transaction
  seenConf,   \* worker -> chain tip minus the block height it has read, plus 1
  chain,      \* tx -> what the Stacks API knows of it
  conf,       \* tx -> confirmations, up to MinConfirmations
  crashes     \* crashes so far

requestVars == <<payment, pc, outcome, reply, sent>>
quoteVars   == <<quote, lock>>
rowVars     == <<status, attempted, due, lease, receipts, deliveries>>
workerVars  == <<batch, target, seen, seenConf>>
chainVars   == <<chain, conf>>
vars == <<requestVars, quoteVars, rowVars, workerVars, chainVars, crashes>>

QuoteOf(r) == payment[r][1]
TxOf(r)    == payment[r][2]

ActiveStatus   == {"validated", "broadcast", "pending"}
TerminalStatus == {"confirmed", "failed", "dropped"}
StoredStatus   == ActiveStatus \union TerminalStatus
Errors == {"invalid_signed_quote", "quote_unavailable", "payment_replayed",
           "internal_error"}

Stored(r) == status[r] # "none"
Active(r) == status[r] \in ActiveStatus

\* The open transaction of r holds the row lock of its quote.
InTransaction(r) == pc[r] \in {"locked", "insert", "commit"}

MinNat(m, n) == IF m <= n THEN m ELSE n

Init ==
  /\ payment \in Submissions
  /\ pc       = [r \in Requests |-> "idle"]
  /\ outcome  = [r \in Requests |-> "none"]
  /\ reply    = [r \in Requests |-> "none"]
  /\ sent     = [r \in Requests |-> FALSE]
  /\ quote    = [q \in Quotes |-> "issued"]
  /\ lock     = [q \in Quotes |-> None]
  /\ status    = [r \in Requests |-> "none"]
  /\ attempted = [r \in Requests |-> FALSE]
  /\ due       = [r \in Requests |-> FALSE]
  /\ lease     = [r \in Requests |-> "null"]
  /\ receipts   = {}
  /\ deliveries = {}
  /\ batch    = [w \in Workers |-> {}]
  /\ target   = [w \in Workers |-> None]
  /\ seen     = [w \in Workers |-> "none"]
  /\ seenConf = [w \in Workers |-> 0]
  /\ chain = [t \in Txs |-> "unknown"]
  /\ conf  = [t \in Txs |-> 0]
  /\ crashes = 0

-----------------------------------------------------------------------------
(* Settle requests.                                                        *)

Answer(r, code) ==
  /\ pc'    = [pc EXCEPT ![r] = "done"]
  /\ reply' = [reply EXCEPT ![r] = code]

(* validate / validateMpp: the token is checked against the clock, the     *)
(* stored quote against what settle allows, which is issued or reserved.   *)
ValidateQuote(r) ==
  /\ pc[r] = "idle"
  /\ \/ Answer(r, "invalid_signed_quote")
     \/ /\ quote[QuoteOf(r)] \notin {"issued", "reserved"}
        /\ Answer(r, "quote_unavailable")
     \/ /\ quote[QuoteOf(r)] \in {"issued", "reserved"}
        /\ pc' = [pc EXCEPT ![r] = "reserve"]
        /\ UNCHANGED reply
  /\ UNCHANGED <<payment, outcome, sent, quoteVars, rowVars, workerVars,
                 chainVars, crashes>>

\* Mutant: a retry is answered from the quote's settlement without comparing
\* the transaction.
ReplayAnyPayment(r, s) == Answer(r, status[s])

\* Mutant: settleValidated goes on to broadcast a reservation it did not create.
ReplayBroadcasts(r, s) == pc' = [pc EXCEPT ![r] = "broadcast"] /\ UNCHANGED reply

\* The quote has a settlement: the same payment is replayed, another refused.
Replay(r, s) ==
  Answer(r, IF TxOf(s) = TxOf(r) THEN status[s] ELSE "payment_replayed")

(* reserveSettlement up to the status check: take the row lock of the      *)
(* quote, answer from the settlement it already has, refuse a quote that   *)
(* can no longer be reserved.  A transaction that ends here releases the   *)
(* lock at once.                                                           *)
LockQuote(r) ==
  LET q == QuoteOf(r)
      existing == {s \in Requests : Stored(s) /\ QuoteOf(s) = q}
  IN
  /\ pc[r] = "reserve"
  /\ lock[q] = None
  /\ \/ \E s \in existing :
          /\ Replay(r, s)
          /\ UNCHANGED lock
     \/ /\ existing = {}
        /\ Answer(r, "quote_unavailable")
        /\ UNCHANGED lock
     \/ /\ existing = {}
        /\ quote[q] = "issued"
        /\ pc'   = [pc EXCEPT ![r] = "locked"]
        /\ lock' = [lock EXCEPT ![q] = r]
        /\ UNCHANGED reply
  /\ UNCHANGED <<payment, outcome, sent, quote, rowVars, workerVars,
                 chainVars, crashes>>

\* Mutant: the connection goes back to the pool with its transaction open.
KeepLock(r) == UNCHANGED lock

\* COMMIT or ROLLBACK ends the row lock.
ReleaseLock(r) == lock' = [lock EXCEPT ![QuoteOf(r)] = None]

(* The SELECT for a settlement of another quote with the same transaction: *)
(* it sees committed rows only and locks nothing.                          *)
CheckDuplicate(r) ==
  /\ pc[r] = "locked"
  /\ IF \E s \in Requests : Stored(s) /\ TxOf(s) = TxOf(r)
       THEN /\ Answer(r, "payment_replayed")
            /\ ReleaseLock(r)
       ELSE /\ pc' = [pc EXCEPT ![r] = "insert"]
            /\ UNCHANGED <<reply, lock>>
  /\ UNCHANGED <<payment, outcome, sent, quote, rowVars, workerVars,
                 chainVars, crashes>>

\* Mutant: no unique index on the transaction.
ConflictsByQuote(r, s) == r # s /\ QuoteOf(r) = QuoteOf(s)

(* The unique indexes of settlements: one row per quote, one per           *)
(* transaction.                                                            *)
Conflicts(r, s) == r # s /\ (QuoteOf(r) = QuoteOf(s) \/ TxOf(r) = TxOf(s))

(* INSERT INTO settlements: a conflicting row that is committed is a       *)
(* unique violation, reported as payment_replayed after a rollback; one    *)
(* that is not committed yet makes the statement wait for its transaction. *)
InsertSettlement(r) ==
  /\ pc[r] = "insert"
  /\ \A s \in Requests : Conflicts(r, s) => pc[s] # "commit"
  /\ IF \E s \in Requests : Conflicts(r, s) /\ Stored(s)
       THEN /\ Answer(r, "payment_replayed")
            /\ ReleaseLock(r)
       ELSE /\ pc' = [pc EXCEPT ![r] = "commit"]
            /\ UNCHANGED <<reply, lock>>
  /\ UNCHANGED <<payment, outcome, sent, quote, rowVars, workerVars,
                 chainVars, crashes>>

(* COMMIT of the insert, of the transition and of the quote's update to    *)
(* reserved.  reconcile_after defaults to now: the row is due at once.     *)
CommitReservation(r) ==
  /\ pc[r] = "commit"
  /\ pc'     = [pc EXCEPT ![r] = "broadcast"]
  /\ status' = [status EXCEPT ![r] = "validated"]
  /\ due'    = [due EXCEPT ![r] = TRUE]
  /\ quote'  = [quote EXCEPT ![QuoteOf(r)] = "reserved"]
  /\ ReleaseLock(r)
  /\ UNCHANGED <<payment, outcome, reply, sent, attempted, lease,
                 receipts, deliveries, workerVars, chainVars, crashes>>

(* The transaction enters the mempool of a node that did not have it.      *)
EnterMempool(t) ==
  chain' = [chain EXCEPT ![t] = IF @ \in {"unknown", "dropped"} THEN "mempool" ELSE @]

(* broadcaster.broadcast and the normalization of its outcome.  The node   *)
(* accepts only what it could still include; a rejection tells nothing of  *)
(* whether another submission of the same transaction is known to it; an   *)
(* ambiguous answer (timeout, 5xx, 408, 425, 429, other txid) covers both. *)
Broadcast(r) ==
  /\ pc[r] = "broadcast"
  /\ pc'   = [pc EXCEPT ![r] = "persist"]
  /\ sent' = [sent EXCEPT ![r] = TRUE]
  /\ \/ /\ outcome' = [outcome EXCEPT ![r] = "broadcast"]
        /\ chain[TxOf(r)] \in {"unknown", "mempool", "dropped"}
        /\ EnterMempool(TxOf(r))
     \/ /\ outcome' = [outcome EXCEPT ![r] = "failed"]
        /\ UNCHANGED chain
     \/ /\ outcome' = [outcome EXCEPT ![r] = "pending"]
        /\ EnterMempool(TxOf(r)) \/ UNCHANGED chain
  /\ UNCHANGED <<payment, reply, quoteVars, rowVars, workerVars, conf, crashes>>

(* The table's check on leases: a row that carries one is active.          *)
LeaseConstraint(st, l) == l = "null" \/ st \in ActiveStatus

\* Mutant: the UPDATE does not name the status it starts from.
AnyStatus(r) == TRUE

\* The UPDATE finds the row as the reservation left it.
StillValidated(r) == status[r] = "validated"

(* updateSettlementStatus: conditional on the row still being validated,   *)
(* and it keeps the lease of a worker that has claimed the row meanwhile,  *)
(* which the constraint refuses on a failed row.  Otherwise it throws and  *)
(* the caller is answered with an internal error.                          *)
UpdateSettlementStatus(r) ==
  /\ pc[r] = "persist"
  /\ IF StillValidated(r) /\ LeaseConstraint(outcome[r], lease[r])
       THEN /\ status'    = [status EXCEPT ![r] = outcome[r]]
            /\ attempted' = [attempted EXCEPT ![r] = TRUE]
            /\ Answer(r, outcome[r])
       ELSE /\ Answer(r, "internal_error")
            /\ UNCHANGED <<status, attempted>>
  /\ UNCHANGED <<payment, outcome, sent, quoteVars, due, lease, receipts,
                 deliveries, workerVars, chainVars, crashes>>

(* The API process stops, or its database connection drops: an open        *)
(* transaction rolls back and releases its lock, committed rows stay.      *)
CrashRequest(r) ==
  /\ crashes < MaxCrashes
  /\ crashes' = crashes + 1
  /\ pc[r] \notin {"idle", "done", "crashed"}
  /\ pc' = [pc EXCEPT ![r] = "crashed"]
  /\ lock' = IF InTransaction(r) THEN [lock EXCEPT ![QuoteOf(r)] = None] ELSE lock
  /\ UNCHANGED <<payment, outcome, reply, sent, quote, rowVars,
                 workerVars, chainVars>>

RequestStep(r) ==
  \/ ValidateQuote(r)
  \/ LockQuote(r)
  \/ CheckDuplicate(r)
  \/ InsertSettlement(r)
  \/ CommitReservation(r)
  \/ Broadcast(r)
  \/ UpdateSettlementStatus(r)

-----------------------------------------------------------------------------
(* Reconciliation workers.                                                 *)

\* Mutant: a lease that was never cleared is never taken over.
Unleased(s) == Active(s) /\ due[s] /\ lease[s] = "null"

Claimable(s) == Active(s) /\ due[s] /\ lease[s] # "held"

(* runOnce claims a batch: active rows that are due and not under a        *)
(* running lease.  Their lease is set in the same statement.               *)
ClaimSettlements(w) ==
  /\ batch[w] = {} /\ target[w] = None
  /\ \E B \in SUBSET {s \in Requests : Claimable(s)} :
       /\ B # {}
       /\ Cardinality(B) =
            MinNat(BatchSize, Cardinality({s \in Requests : Claimable(s)}))
       /\ batch' = [batch EXCEPT ![w] = B]
       /\ lease' = [s \in Requests |-> IF s \in B THEN "held" ELSE lease[s]]
  /\ UNCHANGED <<requestVars, quoteVars, status, attempted, due, receipts,
                 deliveries, target, seen, seenConf, chainVars, crashes>>

\* Mutant: the API's status is taken over as it stands.
Unclassified(t) == chain[t]

(* What the transaction endpoint answers, read as the outcome it leads to; *)
(* "success" still needs the chain tip.                                    *)
Classified(t) ==
  CASE chain[t] = "success" -> "success"
    [] chain[t] = "aborted" -> "failed"
    [] chain[t] = "dropped" -> "dropped"
    [] OTHER -> "pending"

(* observe, first request, for a candidate of the batch.  The API may also *)
(* give no usable answer, which counts as pending.                         *)
ObserveTransaction(w, s) ==
  /\ target[w] = None
  /\ s \in batch[w]
  /\ batch'  = [batch EXCEPT ![w] = @ \ {s}]
  /\ target' = [target EXCEPT ![w] = s]
  /\ \E o \in {Classified(TxOf(s)), "pending"} :
       /\ seen'     = [seen EXCEPT ![w] = o]
       /\ seenConf' = [seenConf EXCEPT ![w] = IF o = "success" THEN conf[TxOf(s)] ELSE 0]
  /\ UNCHANGED <<requestVars, quoteVars, rowVars, chainVars, crashes>>

\* Mutant: the block of the transaction is counted twice.
DepthOffByOne(n) == n + 1 >= MinConfirmations

DepthReached(n) == n >= MinConfirmations

(* observe, second request: the tip, read some time after the transaction, *)
(* decides the depth.                                                      *)
ObserveTip(w) ==
  /\ seen[w] = "success"
  /\ \E o \in {IF DepthReached(seenConf[w]) THEN "confirmed" ELSE "pending",
               "pending"} :
       seen' = [seen EXCEPT ![w] = o]
  /\ seenConf' = [seenConf EXCEPT ![w] = 0]
  /\ UNCHANGED <<requestVars, quoteVars, rowVars, batch, target, chainVars, crashes>>

\* The worker leaves its candidate and turns to the next of its batch.
NextCandidate(w) ==
  /\ target'   = [target EXCEPT ![w] = None]
  /\ seen'     = [seen EXCEPT ![w] = "none"]
  /\ seenConf' = [seenConf EXCEPT ![w] = 0]
  /\ UNCHANGED batch

\* Mutant: the outcome is applied whatever became of the row.
AlwaysApplicable(s) == TRUE

\* A row that is no longer active is left alone.
Applicable(s) == Active(s)

\* Mutant: only the claim writes reconcile_lease_until.
KeptLease(s) == lease[s]

\* Every outcome clears the lease, whoever holds it by now.
ClearedLease(s) == "null"

\* Mutant: the quote stays reserved.
RecordReceiptOnly(s) ==
  /\ receipts'   = receipts \union {s}
  /\ deliveries' = deliveries \union {s}
  /\ UNCHANGED quote

\* What a confirmation writes besides the settlement row.
RecordConfirmation(s) ==
  /\ quote'      = [quote EXCEPT ![QuoteOf(s)] = "consumed"]
  /\ receipts'   = receipts \union {s}
  /\ deliveries' = deliveries \union {s}

(* applyReconciliationResult: one transaction under the lock of the        *)
(* settlement row; a confirmation also waits for the quote's row lock.     *)
ApplyReconciliationResult(w) ==
  LET s == target[w] IN
  /\ seen[w] \in {"pending", "failed", "dropped", "confirmed"}
  /\ NextCandidate(w)
  /\ IF ~Applicable(s)
       THEN UNCHANGED <<quote, rowVars>>
       ELSE /\ seen[w] = "confirmed" => lock[QuoteOf(s)] = None
            /\ status'    = [status EXCEPT ![s] = seen[w]]
            /\ attempted' = [attempted EXCEPT ![s] = TRUE]
            /\ lease'     = [lease EXCEPT ![s] = ClearedLease(s)]
            /\ due' = IF seen[w] = "pending" THEN [due EXCEPT ![s] = FALSE] ELSE due
            /\ IF seen[w] = "confirmed"
                 THEN RecordConfirmation(s)
                 ELSE UNCHANGED <<quote, receipts, deliveries>>
  /\ UNCHANGED <<requestVars, lock, chainVars, crashes>>

(* Signing the receipt or the database fails: runOnce swallows the error,  *)
(* the row keeps its lease until that lapses.                              *)
CandidateError(w) ==
  /\ seen[w] \in {"pending", "failed", "dropped", "confirmed"}
  /\ NextCandidate(w)
  /\ UNCHANGED <<requestVars, quoteVars, rowVars, chainVars, crashes>>

(* The worker process stops; a restarted one begins with a new claim.      *)
CrashWorker(w) ==
  /\ crashes < MaxCrashes
  /\ crashes' = crashes + 1
  /\ batch[w] # {} \/ target[w] # None
  /\ batch'    = [batch EXCEPT ![w] = {}]
  /\ target'   = [target EXCEPT ![w] = None]
  /\ seen'     = [seen EXCEPT ![w] = "none"]
  /\ seenConf' = [seenConf EXCEPT ![w] = 0]
  /\ UNCHANGED <<requestVars, quoteVars, rowVars, chainVars>>

WorkerStep(w) ==
  \/ ClaimSettlements(w)
  \/ \E s \in Requests : ObserveTransaction(w, s)
  \/ ObserveTip(w)
  \/ ApplyReconciliationResult(w)
  \/ CandidateError(w)

-----------------------------------------------------------------------------
(* Clocks and the chain.                                                   *)

LapseLease(s) ==
  /\ lease[s] = "held"
  /\ lease' = [lease EXCEPT ![s] = "lapsed"]
  /\ UNCHANGED <<requestVars, quoteVars, status, attempted, due, receipts,
                 deliveries, workerVars, chainVars, crashes>>

BecomeDue(s) ==
  /\ status[s] = "pending" /\ ~due[s]
  /\ due' = [due EXCEPT ![s] = TRUE]
  /\ UNCHANGED <<requestVars, quoteVars, status, attempted, lease, receipts,
                 deliveries, workerVars, chainVars, crashes>>

\* The payer, who signed the transaction, submits it on its own.
PayerSubmit(t) ==
  /\ chain[t] \in {"unknown", "dropped"}
  /\ chain' = [chain EXCEPT ![t] = "mempool"]
  /\ UNCHANGED <<requestVars, quoteVars, rowVars, workerVars, conf, crashes>>

DropTransaction(t) ==
  /\ chain[t] = "mempool"
  /\ chain' = [chain EXCEPT ![t] = "dropped"]
  /\ UNCHANGED <<requestVars, quoteVars, rowVars, workerVars, conf, crashes>>

InBlock(t) == chain[t] \in {"success", "aborted"}

(* A block on top of the tip includes some of the mempool; what is already *)
(* in a block gets one confirmation deeper, also in the arithmetic of a    *)
(* worker that has read a block height and not the tip yet.                *)
NewBlock(S, A) ==
  /\ \A t \in S \union A : chain[t] = "mempool"
  /\ chain' = [t \in Txs |-> IF t \in S THEN "success"
                             ELSE IF t \in A THEN "aborted" ELSE chain[t]]
  /\ conf' = [t \in Txs |-> IF t \in S \union A THEN 1
                            ELSE IF InBlock(t) THEN MinNat(conf[t] + 1, MinConfirmations)
                            ELSE conf[t]]
  /\ seenConf' = [w \in Workers |-> IF seen[w] = "success"
                                      THEN MinNat(seenConf[w] + 1, MinConfirmations)
                                      ELSE seenConf[w]]
  /\ UNCHANGED <<requestVars, quoteVars, rowVars, batch, target, seen, crashes>>

(* The top d blocks are replaced by as many others; their transactions     *)
(* return to the mempool.                                                  *)
Reorganize(d) ==
  LET orphaned == {t \in Txs : InBlock(t) /\ conf[t] <= d} IN
  /\ orphaned # {}
  /\ chain' = [t \in Txs |-> IF t \in orphaned THEN "mempool" ELSE chain[t]]
  /\ conf'  = [t \in Txs |-> IF t \in orphaned THEN 0 ELSE conf[t]]
  /\ UNCHANGED <<requestVars, quoteVars, rowVars, workerVars, crashes>>

Environment ==
  \/ \E s \in Requests : LapseLease(s) \/ BecomeDue(s)
  \/ \E t \in Txs : PayerSubmit(t) \/ DropTransaction(t)
  \/ \E S, A \in SUBSET Txs : S \intersect A = {} /\ NewBlock(S, A)
  \/ \E d \in 1..ReorgDepth : Reorganize(d)

Next ==
  \/ \E r \in Requests : RequestStep(r) \/ CrashRequest(r)
  \/ \E w \in Workers : WorkerStep(w) \/ CrashWorker(w)
  \/ Environment

Spec == Init /\ [][Next]_vars

(* The processes run, the clocks advance, blocks arrive; and an API or a   *)
(* database that is asked over and over does not fail for ever.  Payers    *)
(* owe nothing, and crashes are bounded by MaxCrashes.                     *)
Fairness ==
  /\ \A r \in Requests : WF_vars(pc[r] # "idle" /\ RequestStep(r))
  /\ \A w \in Workers : WF_vars(WorkerStep(w))
  /\ \A s \in Requests : WF_vars(LapseLease(s)) /\ WF_vars(BecomeDue(s))
  /\ WF_vars(NewBlock({}, {}))
  /\ \A s \in Requests :
       /\ SF_vars(\E w \in Workers :
                    ObserveTransaction(w, s) /\ seen'[w] = Classified(TxOf(s)))
       /\ SF_vars(\E w \in Workers :
                    target[w] = s /\ seenConf[w] >= MinConfirmations
                      /\ ObserveTip(w) /\ seen'[w] = "confirmed")
       /\ SF_vars(\E w \in Workers : target[w] = s /\ seen[w] # "pending"
                                       /\ ApplyReconciliationResult(w))

FairSpec == Spec /\ Fairness

-----------------------------------------------------------------------------
(* Properties.                                                             *)

TypeOK ==
  /\ payment \in Submissions
  /\ pc \in [Requests -> {"idle", "reserve", "locked", "insert", "commit",
                          "broadcast", "persist", "done", "crashed"}]
  /\ outcome \in [Requests -> {"none", "broadcast", "pending", "failed"}]
  /\ reply \in [Requests -> {"none"} \union StoredStatus \union Errors]
  /\ sent \in [Requests -> BOOLEAN]
  /\ quote \in [Quotes -> {"issued", "reserved", "consumed"}]
  /\ lock \in [Quotes -> Requests \union {None}]
  /\ status \in [Requests -> {"none"} \union StoredStatus]
  /\ attempted \in [Requests -> BOOLEAN]
  /\ due \in [Requests -> BOOLEAN]
  /\ lease \in [Requests -> {"null", "held", "lapsed"}]
  /\ receipts \subseteq Requests
  /\ deliveries \subseteq Requests
  /\ batch \in [Workers -> SUBSET Requests]
  /\ target \in [Workers -> Requests \union {None}]
  /\ seen \in [Workers -> {"none", "success", "pending", "failed", "dropped", "confirmed"}]
  /\ seenConf \in [Workers -> 0..MinConfirmations]
  /\ chain \in [Txs -> {"unknown", "mempool", "success", "aborted", "dropped"}]
  /\ conf \in [Txs -> 0..MinConfirmations]
  /\ crashes \in 0..MaxCrashes

(* A quote is settled by one transaction and a transaction settles one     *)
(* quote, although the duplicate check of reserveSettlement locks nothing  *)
(* and concurrent requests lock different quotes.                          *)
NoPaymentReuse ==
  \A r, s \in Requests :
    Stored(r) /\ Stored(s) /\ r # s => QuoteOf(r) # QuoteOf(s) /\ TxOf(r) # TxOf(s)

(* Over retries, concurrent requests and crashes, the facilitator submits  *)
(* a transaction at most once, and only when the reservation that accounts *)
(* for it is durable.                                                      *)
BroadcastOnce ==
  /\ \A r \in Requests : sent[r] => Stored(r)
  /\ \A r, s \in Requests : sent[r] /\ sent[s] /\ TxOf(r) = TxOf(s) => r = s

(* The quote's status, the settlement's status, the receipt and the        *)
(* delivery row agree at every commit: a receipt or a delivery exists for  *)
(* exactly the confirmed settlements, and only those consume their quote.  *)
ConfirmationIsAtomic ==
  LET confirmed == {s \in Requests : status[s] = "confirmed"} IN
  /\ receipts = confirmed
  /\ deliveries = confirmed
  /\ \A q \in Quotes :
       /\ quote[q] = "consumed" <=> \E s \in confirmed : QuoteOf(s) = q
       /\ quote[q] = "issued" <=> \A s \in Requests : QuoteOf(s) = q => ~Stored(s)

(* A caller that was answered with a settlement, its own or a replay, was  *)
(* told of one that exists for its very payment; if the answer was final,  *)
(* the settlement still says so, whatever workers did since.               *)
AnswersStayTrue ==
  \A r \in Requests : reply[r] \in StoredStatus =>
    \E s \in Requests :
      /\ Stored(s) /\ payment[s] = payment[r]
      /\ reply[r] \in TerminalStatus => status[s] = reply[r]

(* The table's checks hold of every committed row: a row is validated      *)
(* until a broadcast attempt or an observation is recorded on it, and only *)
(* active rows carry a lease.                                              *)
TableChecks ==
  \A s \in Requests :
    /\ Stored(s) => (status[s] = "validated" <=> ~attempted[s])
    /\ LeaseConstraint(status[s], lease[s])

(* A signed receipt exists only for a transaction that is on the canonical *)
(* chain at the configured depth.                                          *)
ReceiptAtCanonicalDepth ==
  \A s \in receipts : chain[TxOf(s)] = "success" /\ conf[TxOf(s)] >= MinConfirmations

(* A settlement leaves validated for good and no worker with an old        *)
(* observation, no late broadcast outcome, changes a final status.         *)
StatusLifecycle ==
  [][\A s \in Requests : status'[s] # status[s] =>
       \/ status[s] = "none" /\ status'[s] = "validated"
       \/ status[s] = "validated" /\ status'[s] \in StoredStatus
       \/ status[s] = "broadcast" /\ status'[s] \in {"pending"} \union TerminalStatus
       \/ status[s] = "pending" /\ status'[s] \in TerminalStatus]_vars

(* A definitive rejection by the node is persisted as a failed settlement  *)
(* and answered as one.                                                    *)
RejectionPersisted ==
  \A r \in Requests : pc[r] = "done" /\ outcome[r] = "failed" =>
    status[r] = "failed" /\ reply[r] = "failed"

(* No settle call waits for ever on a row lock, a unique index or another  *)
(* request.                                                                *)
EveryCallEnds ==
  \A r \in Requests : pc[r] # "idle" ~> pc[r] \in {"done", "crashed"}

(* A settlement whose transaction is in a block is resolved, whatever      *)
(* became of the request that reserved it and of the worker that claimed   *)
(* it.                                                                     *)
MinedSettlementResolves ==
  \A s \in Requests :
    (Active(s) /\ InBlock(TxOf(s))) ~> status[s] \in TerminalStatus

-----------------------------------------------------------------------------
(* The facilitator implements the ledger.                                  *)

StoredFor(q) == {s \in Requests : Stored(s) /\ QuoteOf(s) = q}

\* The entry of a quote: that of its settlement, if it has one.
EntryOf(q) ==
  IF StoredFor(q) = {} THEN [state |-> "unpaid", tx |-> None]
  ELSE LET s == CHOOSE s \in StoredFor(q) : TRUE
       IN  [state |-> IF Active(s) THEN "reserved" ELSE status[s], tx |-> TxOf(s)]

LedgerEntry == [q \in Quotes |-> EntryOf(q)]
Receipted   == {QuoteOf(s) : s \in receipts}
Paid        == {t \in Txs : chain[t] = "success" /\ conf[t] >= MinConfirmations}

Ledger == INSTANCE SettlementLedger WITH
  entry <- LedgerEntry, receipted <- Receipted, paid <- Paid

(* Seen by quote, the rows behave as the ledger's entries: the promise of  *)
(* SettlementLedger, kept by requests, workers and crashes together.       *)
LedgerSpec == Ledger!Spec
=============================================================================
