-------------------------- MODULE SettlementLedger --------------------------
(***************************************************************************)
(* What the facilitator promises a merchant, whatever its requests, rows,  *)
(* leases and workers do: every quote has one entry in a ledger.  An entry *)
(* is reserved once, by one transaction that no other entry has; it is     *)
(* resolved at most once; it is confirmed, and receipted in the same step, *)
(* only if its transaction is paid, that is, on the chain at depth.        *)
(***************************************************************************)
CONSTANTS Quotes, Txs, None

VARIABLES
  entry,     \* quote -> [state, tx]
  receipted, \* quotes with a signed receipt
  paid       \* transactions that reached the confirmation depth

vars == <<entry, receipted, paid>>

Open == [state |-> "unpaid", tx |-> None]

Init ==
  /\ entry = [q \in Quotes |-> Open]
  /\ receipted = {}
  /\ paid = {}

\* Blocks bring transactions to depth, independently of the facilitator.
Pay(T) ==
  /\ paid' = paid \union T
  /\ UNCHANGED <<entry, receipted>>

Reserve(q, t) ==
  /\ entry[q] = Open
  /\ \A p \in Quotes : entry[p].tx # t
  /\ entry' = [entry EXCEPT ![q] = [state |-> "reserved", tx |-> t]]
  /\ UNCHANGED <<receipted, paid>>

Confirm(q) ==
  /\ entry[q].state = "reserved"
  /\ entry[q].tx \in paid
  /\ entry' = [entry EXCEPT ![q] = [state |-> "confirmed", tx |-> @.tx]]
  /\ receipted' = receipted \union {q}
  /\ UNCHANGED paid

GiveUp(q) ==
  /\ entry[q].state = "reserved"
  /\ \E end \in {"failed", "dropped"} :
       entry' = [entry EXCEPT ![q] = [state |-> end, tx |-> @.tx]]
  /\ UNCHANGED <<receipted, paid>>

Next ==
  \/ \E T \in SUBSET Txs : Pay(T)
  \/ \E q \in Quotes, t \in Txs : Reserve(q, t)
  \/ \E q \in Quotes : Confirm(q) \/ GiveUp(q)

Spec == Init /\ [][Next]_vars
=============================================================================
