--------------------------- MODULE EvidenceAccess ---------------------------
(***************************************************************************)
(* Who may have an evidence operation.  A request enters a gate for eight, *)
(* is authenticated, admitted by its wallet's window, and authorized:      *)
(* authenticated anew, and the job read from a node of the chain at one    *)
(* tip, which has to be the tip still when everything was read.  A tip     *)
(* that moved meanwhile makes the reader start again once, then give up.   *)
(* Merchants and clients may be disabled, tokens expire and the chain      *)
(* grows and forks at any time between two steps.                          *)
(***************************************************************************)
EXTENDS Naturals, FiniteSets

CONSTANTS
  Requests,
  Wallets,
  Blocks, FirstTip,
  Chain,       \* block -> the blocks of the chain it is the tip of
  Job,         \* block -> what get-job answers there
  Escrow,      \* block -> what get-escrow-balance answers there
  Actor,       \* request -> wallet of its token
  Provider,    \* request -> provider its evidence names
  Operation,   \* request -> "prepare", "complete" or "download"
  Gate,        \* requests that may be in progress
  Limit,       \* operation -> requests of a wallet admitted in one window
  MaxWindows,  \* windows that are kept
  Moves,       \* bound: changes of the tip
  None

Operations == {"prepare", "complete", "download"}
Writes     == {c \in Requests : Operation[c] # "download"}

\* A window is one wallet's, for one operation.
WindowOf(c) == <<Actor[c], Operation[c]>>
Windows     == {WindowOf(c) : c \in Requests}

Jobs == [client : Wallets, provider : Wallets \union {None}, evaluator : Wallets,
         status : 0 .. 8]

ASSUME EvidenceAccessAssumption ==
  /\ IsFiniteSet(Requests)
  /\ FirstTip \in Blocks
  /\ Chain \in [Blocks -> SUBSET Blocks]
  /\ \A b \in Blocks : b \in Chain[b]
  /\ Job \in [Blocks -> Jobs]
  /\ Escrow \in [Blocks -> Nat]
  /\ Actor \in [Requests -> Wallets]
  /\ Provider \in [Requests -> Wallets]
  /\ Operation \in [Requests -> Operations]
  /\ Gate \in Nat \ {0}
  /\ Limit \in [Operations -> Nat \ {0}]
  /\ MaxWindows \in Nat \ {0}
  /\ Moves \in Nat
  /\ None \notin Wallets \union Blocks \union Nat

VARIABLES
  tip,      \* the node's tip
  moves,
  inactive, \* requests whose merchant is disabled here
  disabled, \* requests whose client is disabled at the issuer, or token has expired
  inflight,
  window,   \* wallet and operation -> requests admitted, None without a window
  over,     \* windows that have ended and were not yet removed
  pc,       \* request -> where it stands
  round,    \* request -> 1 in its first authentication, 2 in authorize
  moved,    \* request -> times its snapshot was discarded
  pinned,   \* request -> block its snapshot is read at
  job,      \* request -> block that get-job was answered for
  escrow,   \* request -> block that get-escrow-balance was answered for
  late      \* history: requests whose grounds were gone as authorize began

worldVars  == <<tip, moves, inactive, disabled>>
windowVars == <<window, over>>
readVars   == <<moved, pinned, job, escrow>>
vars == <<worldVars, inflight, windowVars, pc, round, readVars, late>>

Init ==
  /\ tip      = FirstTip
  /\ moves    = 0
  /\ inactive = {}
  /\ disabled = {}
  /\ inflight = 0
  /\ window   = [w \in Windows |-> None]
  /\ over     = {}
  /\ pc       = [c \in Requests |-> "idle"]
  /\ round    = [c \in Requests |-> 1]
  /\ moved    = [c \in Requests |-> 0]
  /\ pinned   = [c \in Requests |-> None]
  /\ job      = [c \in Requests |-> None]
  /\ escrow   = [c \in Requests |-> None]
  /\ late     = {}

Ended == {"granted", "denied", "busy", "limited", "rejected"}

Goto(c, step) == pc' = [pc EXCEPT ![c] = step]

\* Whatever the verdict, the gate is left and the handler's reads are gone; what
\* became of its merchant and client matters no more.
End(c, verdict) ==
  /\ inactive' = inactive \ {c}
  /\ disabled' = disabled \ {c}
  /\ Goto(c, verdict)
  /\ inflight' = inflight - 1
  /\ pinned' = [pinned EXCEPT ![c] = None]
  /\ job' = [job EXCEPT ![c] = None]
  /\ escrow' = [escrow EXCEPT ![c] = None]
  /\ moved' = [moved EXCEPT ![c] = 0]
  /\ round' = [round EXCEPT ![c] = 1]
  /\ late' = late \ {c}

Proceed(c, step) ==
  /\ Goto(c, step)
  /\ UNCHANGED <<inactive, disabled, inflight, round, readVars, late>>

-----------------------------------------------------------------------------
(* The gate, and authenticateEvidence.                                     *)

\* Mutant: the counter is compared after it was raised.
GateAjar == inflight <= Gate

GateOpen == inflight < Gate

Enter(c) ==
  /\ pc[c] = "idle"
  /\ IF GateOpen
       THEN Goto(c, "token") /\ inflight' = inflight + 1
       ELSE Goto(c, "rejected") /\ UNCHANGED inflight
  /\ UNCHANGED <<worldVars, windowVars, round, readVars, late>>

\* Signature and expiry of the token, then the merchant, here ...
FirstMerchantCheck(c) ==
  /\ pc[c] = "token"
  /\ IF c \notin inactive \union disabled THEN Proceed(c, "issuer") ELSE End(c, "denied")
  /\ UNCHANGED <<tip, moves, windowVars>>

\* ... the client, at the issuer, which may be busy ...
AskIssuer(c) ==
  /\ pc[c] = "issuer"
  /\ \/ c \notin disabled /\ Proceed(c, "merchant")
     \/ End(c, "denied")
     \/ End(c, "busy")
  /\ UNCHANGED <<tip, moves, windowVars>>

\* ... and the merchant once more.
SecondMerchantCheck(c) ==
  /\ pc[c] = "merchant"
  /\ IF c \in inactive THEN End(c, "denied")
     ELSE Proceed(c, IF round[c] = 1 THEN "admit" ELSE "info")
  /\ UNCHANGED <<tip, moves, windowVars>>

-----------------------------------------------------------------------------
(* The window of wallet and operation, asked once per request.             *)

\* Windows that have ended are removed first.
Kept(w) == window[w] # None /\ w \notin over
Count(w) == IF Kept(w) THEN window[w] ELSE 0

Admissible(w) ==
  /\ Kept(w) \/ Cardinality({v \in Windows : Kept(v)}) < MaxWindows
  /\ Count(w) < Limit[w[2]]

Admit(c) ==
  LET w == WindowOf(c) IN
  /\ pc[c] = "admit"
  /\ window' = [v \in Windows |-> IF v = w /\ Admissible(w) THEN Count(w) + 1
                                  ELSE IF Kept(v) THEN window[v] ELSE None]
  /\ over' = {}
  /\ IF Admissible(w) THEN Proceed(c, "authorize") ELSE End(c, "limited")
  /\ UNCHANGED <<tip, moves>>

EndWindow(w) ==
  /\ Kept(w)
  /\ over' = over \union {w}
  /\ UNCHANGED <<worldVars, inflight, window, pc, round, readVars, late>>

-----------------------------------------------------------------------------
(* authorizeEvidence: another authentication, then the chain.              *)

\* Mutant: the identity found at first is used.
IdentityKept(c) == "info"

Reauthentication(c) == "token"

\* The operation starts with what the body names; the identity is not kept.
Authorize(c) ==
  /\ pc[c] = "authorize"
  /\ Goto(c, Reauthentication(c))
  /\ round' = [round EXCEPT ![c] = 2]
  /\ late' = IF c \in inactive \union disabled THEN late \union {c} ELSE late
  /\ UNCHANGED <<worldVars, inflight, windowVars, readVars>>

\* Tip and height.
ReadInfo(c) ==
  /\ pc[c] = "info"
  /\ pinned' = [pinned EXCEPT ![c] = tip]
  /\ Goto(c, "block")
  /\ UNCHANGED <<worldVars, windowVars, inflight, round, moved, job, escrow, late>>

\* The canonical block at that height is the tip that was seen, and recent.
ReadBlock(c) ==
  /\ pc[c] = "block"
  /\ \/ pinned[c] \in Chain[tip] /\ Proceed(c, "job")
     \/ End(c, "denied")
  /\ UNCHANGED <<tip, moves, windowVars>>

\* Mutant: the calls name no tip.
AtTip(c) == tip

AtPinned(c) == pinned[c]

ReadJob(c) ==
  /\ pc[c] = "job"
  /\ job' = [job EXCEPT ![c] = AtPinned(c)]
  /\ Goto(c, "escrow")
  /\ UNCHANGED <<worldVars, windowVars, inflight, round, moved, pinned, escrow, late>>

ReadEscrow(c) ==
  /\ pc[c] = "escrow"
  /\ escrow' = [escrow EXCEPT ![c] = AtPinned(c)]
  /\ Goto(c, "recheck")
  /\ UNCHANGED <<worldVars, windowVars, inflight, round, moved, pinned, job, late>>

(* What the roles may do: the provider that the evidence names writes while *)
(* the job is funded and not submitted; client and provider read, and the   *)
(* evaluator from the submission on, while the escrow holds.                *)
Permits(c, j, balance) ==
  /\ j.provider = Provider[c]
  /\ Cardinality({j.client, j.provider, j.evaluator}) = 3
  /\ IF c \in Writes
       THEN Actor[c] = j.provider /\ j.status = 1 /\ balance > 0
       ELSE \/ Actor[c] \in {j.client, j.provider}
            \/ Actor[c] = j.evaluator /\ j.status \in {2, 7, 8} /\ balance > 0

\* The tip is read again, and decides whether the snapshot counts.
Decide(c) ==
  /\ pc[c] = "recheck"
  /\ tip = pinned[c]
  /\ End(c, IF Permits(c, Job[job[c]], Escrow[escrow[c]]) THEN "granted" ELSE "denied")
  /\ UNCHANGED <<tip, moves, windowVars>>

\* One fresh snapshot, then the answer that says so.
SnapshotMoved(c) ==
  /\ pc[c] = "recheck"
  /\ tip # pinned[c]
  /\ IF moved[c] = 0
       THEN /\ Goto(c, "info")
            /\ moved' = [moved EXCEPT ![c] = 1]
            /\ pinned' = [pinned EXCEPT ![c] = None]
            /\ job' = [job EXCEPT ![c] = None]
            /\ escrow' = [escrow EXCEPT ![c] = None]
            /\ UNCHANGED <<inactive, disabled, inflight, round, late>>
       ELSE End(c, "busy")
  /\ UNCHANGED <<tip, moves, windowVars>>

\* Five seconds are over, for the identity or for the chain, or an answer is bad.
TimeOut(c) ==
  /\ pc[c] \notin {"idle", "authorize"} \union Ended
  /\ End(c, "denied")
  /\ UNCHANGED <<tip, moves, windowVars>>

-----------------------------------------------------------------------------
(* Chain, operator and issuer.                                             *)

MoveTip ==
  /\ moves < Moves
  /\ moves' = moves + 1
  /\ \E b \in Blocks \ {tip} : tip' = b
  /\ UNCHANGED <<inactive, disabled, inflight, windowVars, pc, round, readVars, late>>

Deactivate(c) ==
  /\ pc[c] \notin Ended \union {"idle"}
  /\ \/ inactive' = inactive \union {c} /\ UNCHANGED disabled
     \/ disabled' = disabled \union {c} /\ UNCHANGED inactive
  /\ UNCHANGED <<tip, moves, inflight, windowVars, pc, round, readVars, late>>

-----------------------------------------------------------------------------
Authenticate(c) == FirstMerchantCheck(c) \/ AskIssuer(c) \/ SecondMerchantCheck(c)

ReadChain(c) ==
  \/ ReadInfo(c) \/ ReadBlock(c) \/ ReadJob(c) \/ ReadEscrow(c)
  \/ Decide(c) \/ SnapshotMoved(c)

Next ==
  \/ \E c \in Requests :
       \/ Enter(c) \/ Authenticate(c) \/ Admit(c) \/ Authorize(c) \/ ReadChain(c)
       \/ TimeOut(c) \/ Deactivate(c)
  \/ \E w \in Windows : EndWindow(w)
  \/ MoveTip

Spec == Init /\ [][Next]_vars

-----------------------------------------------------------------------------
(* Properties.                                                             *)

Running(c) == pc[c] \notin Ended \union {"idle"}

\* The gate counts the handlers that run.
GateCounts == inflight = Cardinality({c \in Requests : Running(c)})

(* Types, with the gate's counter: every way out of a handler gives its    *)
(* place back, once, so the gate neither lets more in than its capacity    *)
(* nor closes for good.                                                    *)
TypeOK ==
  /\ GateCounts
  /\ tip \in Blocks
  /\ moves \in 0 .. Moves
  /\ inactive \subseteq Requests
  /\ disabled \subseteq Requests
  /\ inflight \in 0 .. Gate
  /\ window \in [Windows -> Nat \union {None}]
  /\ \A w \in Windows : window[w] # None => window[w] \in 1 .. Limit[w[2]]
  /\ over \subseteq Windows
  /\ pc \in [Requests -> {"idle", "token", "issuer", "merchant", "admit", "authorize",
                          "info", "block", "job", "escrow", "recheck"} \union Ended]
  /\ round \in [Requests -> {1, 2}]
  /\ moved \in [Requests -> {0, 1}]
  /\ pinned \in [Requests -> Blocks \union {None}]
  /\ job \in [Requests -> Blocks \union {None}]
  /\ escrow \in [Requests -> Blocks \union {None}]
  /\ late \subseteq Requests

(* A grant is right at the moment it is given: the node's tip then permits *)
(* it, by the job and the escrow of that one tip, although tips may come,  *)
(* go and come back while they are read; and merchant, client and token    *)
(* were not gone when the authorization began.                             *)
GrantedAtTip ==
  [][\A c \in Requests : pc[c] # "granted" /\ pc'[c] = "granted" =>
       /\ Permits(c, Job[tip], Escrow[tip])
       /\ c \notin late]_vars
=============================================================================
