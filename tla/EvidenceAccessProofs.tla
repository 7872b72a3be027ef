------------------------ MODULE EvidenceAccessProofs ------------------------
(***************************************************************************)
(* Proofs about EvidenceAccess, for any number of requests, any chain and  *)
(* any limits.                                                             *)
(***************************************************************************)
EXTENDS EvidenceAccess, FiniteSetTheorems, TLAPS

\* What has been read of a snapshot was read at the tip it is pinned to.
SnapshotAtTip ==
  \A c \in Requests :
    /\ pc[c] \in {"escrow", "recheck"} => job[c] = pinned[c]
    /\ pc[c] = "recheck" => escrow[c] = pinned[c]

\* Who had lost his grounds when the authorization began is before its first
\* check, which he will not pass.
LateAtFirstCheck ==
  \A c \in late : c \in Requests /\ pc[c] = "token" /\ c \in inactive \union disabled

AInv == TypeOK /\ SnapshotAtTip /\ LateAtFirstCheck

LEMMA InitInv == Init => AInv
<1> SUFFICES ASSUME Init
             PROVE  AInv
  OBVIOUS
<1>1. {c \in Requests : Running(c)} = {}
  BY DEF Init, Running, Ended
<1>2. GateCounts
  BY <1>1, FS_EmptySet DEF Init, GateCounts
<1>3. TypeOK /\ SnapshotAtTip /\ LateAtFirstCheck
  BY <1>2, EvidenceAccessAssumption
  DEF Init, TypeOK, SnapshotAtTip, LateAtFirstCheck, Ended
<1> QED
  BY <1>3 DEF AInv

\* What holds of the counter when one handler starts, goes on or ends.
LEMMA CounterStep ==
  ASSUME AInv, NEW c \in Requests, NEW step, pc' = [pc EXCEPT ![c] = step],
         \/ /\ pc[c] = "idle" /\ step \notin Ended \union {"idle"}
            /\ inflight < Gate /\ inflight' = inflight + 1
         \/ /\ ~Running(c) /\ step \in Ended /\ inflight' = inflight
         \/ /\ Running(c) /\ step \notin Ended \union {"idle"} /\ inflight' = inflight
         \/ /\ Running(c) /\ step \in Ended /\ inflight' = inflight - 1
  PROVE  GateCounts' /\ inflight' \in 0 .. Gate
<1> DEFINE R == {d \in Requests : Running(d)}
<1>0. /\ pc'[c] = step /\ \A d \in Requests \ {c} : pc'[d] = pc[d]
      /\ inflight \in 0 .. Gate /\ inflight = Cardinality(R) /\ Gate \in Nat
  BY EvidenceAccessAssumption DEF AInv, TypeOK, GateCounts
<1>1. IsFiniteSet(R) /\ Cardinality(R) \in Nat
  BY FS_Subset, FS_CardinalityType, EvidenceAccessAssumption
<1>2. CASE pc[c] = "idle" /\ step \notin Ended \union {"idle"}
           /\ inflight < Gate /\ inflight' = inflight + 1
  <2>1. R' = R \union {c} /\ c \notin R
    BY <1>0, <1>2 DEF Running
  <2>2. Cardinality(R \union {c}) = Cardinality(R) + 1
    BY <1>1, <2>1, FS_AddElement
  <2> QED
    BY <1>0, <1>2, <2>1, <2>2 DEF GateCounts
<1>3. CASE ~Running(c) /\ step \in Ended /\ inflight' = inflight
  <2>1. R' = R
    BY <1>0, <1>3 DEF Running
  <2> QED
    BY <1>0, <1>3, <2>1 DEF GateCounts
<1>4. CASE Running(c) /\ step \notin Ended \union {"idle"} /\ inflight' = inflight
  <2>1. R' = R
    BY <1>0, <1>4 DEF Running
  <2> QED
    BY <1>0, <1>4, <2>1 DEF GateCounts
<1>5. CASE Running(c) /\ step \in Ended /\ inflight' = inflight - 1
  <2>1. R' = R \ {c} /\ c \in R
    BY <1>0, <1>5 DEF Running
  <2>2. Cardinality(R \ {c}) = Cardinality(R) - 1 /\ Cardinality(R \ {c}) \in Nat
    BY <1>1, <2>1, FS_RemoveElement, FS_CardinalityType
  <2>3. inflight' = Cardinality(R \ {c}) /\ inflight' \in 0 .. Gate
    <3> HIDE DEF R
    <3> QED
      BY <1>0, <1>1, <1>5, <2>2
  <2> QED
    BY <2>1, <2>3 DEF GateCounts
<1> QED
  BY <1>2, <1>3, <1>4, <1>5

\* A handler may end at any step.
LEMMA EndInv ==
  ASSUME AInv, NEW c \in Requests, NEW verdict \in Ended, Running(c), End(c, verdict),
         UNCHANGED <<tip, moves>>,
         window' \in [Windows -> Nat \union {None}], over' \subseteq Windows,
         \A w \in Windows : window'[w] # None => window'[w] \in 1 .. Limit[w[2]]
  PROVE  AInv'
<1>1. GateCounts' /\ inflight' \in 0 .. Gate
  BY CounterStep DEF End, Goto
<1>2. TypeOK'
  BY <1>1, EvidenceAccessAssumption DEF End, Goto, AInv, TypeOK
<1>3. SnapshotAtTip'
  BY DEF End, Goto, Ended, AInv, TypeOK, SnapshotAtTip
<1>4. LateAtFirstCheck'
  BY DEF End, Goto, AInv, TypeOK, LateAtFirstCheck
<1> QED
  BY <1>1, <1>2, <1>3, <1>4 DEF AInv

\* A handler that goes on past the first check reads nothing here.
LEMMA ProceedInv ==
  ASSUME AInv, NEW c \in Requests, Running(c), Proceed(c, "issuer") \/ Proceed(c, "merchant")
           \/ Proceed(c, "admit") \/ Proceed(c, "info") \/ Proceed(c, "authorize")
           \/ Proceed(c, "job"),
         c \notin late, UNCHANGED <<tip, moves>>,
         window' \in [Windows -> Nat \union {None}], over' \subseteq Windows,
         \A w \in Windows : window'[w] # None => window'[w] \in 1 .. Limit[w[2]]
  PROVE  AInv'
<1>0. PICK step \in {"issuer", "merchant", "admit", "info", "authorize", "job"} :
        Proceed(c, step)
  OBVIOUS
<1>1. GateCounts' /\ inflight' \in 0 .. Gate
  <2>1. /\ pc' = [pc EXCEPT ![c] = step] /\ inflight' = inflight
        /\ step \notin Ended \union {"idle"}
    BY <1>0 DEF Proceed, Goto, Ended
  <2> QED
    BY <2>1, CounterStep
<1>2. TypeOK'
  BY <1>0, <1>1 DEF Proceed, Goto, readVars, AInv, TypeOK
<1>3. SnapshotAtTip'
  BY <1>0 DEF Proceed, Goto, readVars, AInv, TypeOK, SnapshotAtTip
<1>4. LateAtFirstCheck'
  BY <1>0 DEF Proceed, Goto, AInv, TypeOK, LateAtFirstCheck
<1> QED
  BY <1>1, <1>2, <1>3, <1>4 DEF AInv

LEMMA WindowsKept ==
  ASSUME AInv, UNCHANGED windowVars
  PROVE  /\ window' \in [Windows -> Nat \union {None}] /\ over' \subseteq Windows
         /\ \A w \in Windows : window'[w] # None => window'[w] \in 1 .. Limit[w[2]]
  BY DEF windowVars, AInv, TypeOK

\* Admission counts no window beyond its limit.
LEMMA WindowsAdmitted ==
  ASSUME AInv, NEW c \in Requests, Admit(c)
  PROVE  /\ window' \in [Windows -> Nat \union {None}] /\ over' \subseteq Windows
         /\ \A w \in Windows : window'[w] # None => window'[w] \in 1 .. Limit[w[2]]
<1> DEFINE v == WindowOf(c)
<1>0. v \in Windows /\ v[2] = Operation[c] /\ Limit[v[2]] \in Nat \ {0}
  BY EvidenceAccessAssumption DEF Windows, WindowOf
<1>1. Count(v) \in Nat
  BY <1>0 DEF Count, Kept, AInv, TypeOK
<1>2. Admissible(v) => Count(v) + 1 \in 1 .. Limit[v[2]]
  BY <1>0, <1>1 DEF Admissible
<1>3. window' = [w \in Windows |-> IF w = v /\ Admissible(v) THEN Count(v) + 1
                                   ELSE IF Kept(w) THEN window[w] ELSE None]
      /\ over' = {}
  BY DEF Admit
<1>4. \A w \in Windows : window[w] \in Nat \union {None}
        /\ (window[w] # None => window[w] \in 1 .. Limit[w[2]])
  BY DEF AInv, TypeOK
<1> QED
  BY <1>1, <1>2, <1>3, <1>4 DEF Kept

LEMMA EnterInv ==
  ASSUME AInv, NEW c \in Requests, Enter(c)
  PROVE  AInv'
<1>0. /\ UNCHANGED <<worldVars, windowVars, round, readVars, late>> /\ pc[c] = "idle"
      /\ \/ inflight < Gate /\ Goto(c, "token") /\ inflight' = inflight + 1
         \/ Goto(c, "rejected") /\ inflight' = inflight
  BY DEF Enter, GateOpen
<1>1. GateCounts' /\ inflight' \in 0 .. Gate
  BY <1>0, CounterStep DEF Goto, Running, Ended
<1>2. TypeOK'
  BY <1>0, <1>1 DEF Goto, Ended, worldVars, windowVars, readVars, AInv, TypeOK
<1>3. SnapshotAtTip' /\ LateAtFirstCheck'
  BY <1>0 DEF Goto, worldVars, readVars, AInv, TypeOK, SnapshotAtTip, LateAtFirstCheck
<1> QED
  BY <1>1, <1>2, <1>3 DEF AInv

LEMMA AuthenticateInv ==
  ASSUME AInv, NEW c \in Requests, Authenticate(c)
  PROVE  AInv'
<1>1. Running(c) /\ UNCHANGED <<tip, moves>> /\ UNCHANGED windowVars
  BY DEF Authenticate, FirstMerchantCheck, AskIssuer, SecondMerchantCheck, Running, Ended
<1>2. \/ End(c, "denied") \/ End(c, "busy")
      \/ c \notin late /\ (Proceed(c, "issuer") \/ Proceed(c, "merchant")
                             \/ Proceed(c, "admit") \/ Proceed(c, "info"))
  BY DEF Authenticate, FirstMerchantCheck, AskIssuer, SecondMerchantCheck,
         AInv, TypeOK, LateAtFirstCheck
<1>3. "denied" \in Ended /\ "busy" \in Ended
  BY DEF Ended
<1> QED
  BY <1>1, <1>2, <1>3, WindowsKept, EndInv, ProceedInv

LEMMA AdmitInv ==
  ASSUME AInv, NEW c \in Requests, Admit(c)
  PROVE  AInv'
<1>1. /\ Running(c) /\ c \notin late /\ UNCHANGED <<tip, moves>>
      /\ Proceed(c, "authorize") \/ End(c, "limited")
  BY DEF Admit, Running, Ended, AInv, LateAtFirstCheck
<1>2. "limited" \in Ended
  BY DEF Ended
<1> QED
  BY <1>1, <1>2, WindowsAdmitted, EndInv, ProceedInv

\* The authorization begins, and marks who has lost his grounds.
LEMMA AuthorizeInv ==
  ASSUME AInv, NEW c \in Requests, Authorize(c)
  PROVE  AInv'
<1>1. GateCounts' /\ inflight' \in 0 .. Gate
  BY CounterStep DEF Authorize, Goto, Reauthentication, Running, Ended
<1>2. TypeOK'
  BY <1>1 DEF Authorize, Goto, Reauthentication, worldVars, windowVars, readVars, AInv, TypeOK
<1>3. SnapshotAtTip' /\ LateAtFirstCheck'
  BY DEF Authorize, Goto, Reauthentication, worldVars, readVars,
         AInv, TypeOK, SnapshotAtTip, LateAtFirstCheck
<1> QED
  BY <1>1, <1>2, <1>3 DEF AInv

LEMMA ReadInv ==
  ASSUME AInv, NEW c \in Requests, ReadInfo(c) \/ ReadJob(c) \/ ReadEscrow(c)
  PROVE  AInv'
<1>0. /\ UNCHANGED <<worldVars, windowVars, inflight, round, moved, late>>
      /\ Running(c) /\ pc[c] # "token"
      /\ \E step \in {"block", "escrow", "recheck"} : Goto(c, step)
  BY DEF ReadInfo, ReadJob, ReadEscrow, Running, Ended
<1>1. GateCounts' /\ inflight' \in 0 .. Gate
  BY <1>0, CounterStep DEF Goto, Ended
<1>2. TypeOK'
  BY <1>0, <1>1
  DEF ReadInfo, ReadJob, ReadEscrow, AtPinned, Goto, worldVars, windowVars, AInv, TypeOK
<1>3. SnapshotAtTip'
  BY DEF ReadInfo, ReadJob, ReadEscrow, AtPinned, Goto, AInv, TypeOK, SnapshotAtTip
<1>4. LateAtFirstCheck'
  BY <1>0 DEF Goto, worldVars, AInv, TypeOK, LateAtFirstCheck
<1> QED
  BY <1>1, <1>2, <1>3, <1>4 DEF AInv

\* A snapshot that moved is discarded, once.
LEMMA DiscardInv ==
  ASSUME AInv, NEW c \in Requests, SnapshotMoved(c)
  PROVE  AInv'
<1>0. /\ UNCHANGED <<tip, moves>> /\ UNCHANGED windowVars /\ Running(c) /\ pc[c] = "recheck"
  BY DEF SnapshotMoved, Running, Ended
<1>1. CASE moved[c] = 0
  <2>1. GateCounts' /\ inflight' \in 0 .. Gate
    BY <1>0, <1>1, CounterStep DEF SnapshotMoved, Goto, Ended
  <2>2. TypeOK'
    BY <1>0, <1>1, <2>1 DEF SnapshotMoved, Goto, windowVars, AInv, TypeOK
  <2>3. SnapshotAtTip' /\ LateAtFirstCheck'
    BY <1>1 DEF SnapshotMoved, Goto, AInv, TypeOK, SnapshotAtTip, LateAtFirstCheck
  <2> QED
    BY <2>1, <2>2, <2>3 DEF AInv
<1>2. CASE moved[c] # 0
  <2>1. End(c, "busy") /\ "busy" \in Ended
    BY <1>2 DEF SnapshotMoved, Ended
  <2> QED
    BY <1>0, <2>1, WindowsKept, EndInv
<1> QED
  BY <1>1, <1>2

LEMMA VerdictInv ==
  ASSUME AInv, NEW c \in Requests, ReadBlock(c) \/ Decide(c) \/ TimeOut(c)
  PROVE  AInv'
<1>1. Running(c) /\ UNCHANGED <<tip, moves>> /\ UNCHANGED windowVars
  BY DEF ReadBlock, Decide, TimeOut, Running, Ended
<1>2. \/ End(c, "denied") \/ End(c, "granted")
      \/ c \notin late /\ Proceed(c, "job")
  BY DEF ReadBlock, Decide, TimeOut, AInv, LateAtFirstCheck
<1>3. "denied" \in Ended /\ "granted" \in Ended
  BY DEF Ended
<1> QED
  BY <1>1, <1>2, <1>3, WindowsKept, EndInv, ProceedInv

\* What happens around the handlers.
LEMMA WorldInv ==
  ASSUME AInv, \/ MoveTip \/ \E c \in Requests : Deactivate(c)
               \/ \E w \in Windows : EndWindow(w)
  PROVE  AInv'
<1>1. CASE MoveTip
  <2>1. UNCHANGED <<inactive, disabled, inflight, windowVars, pc, round, readVars, late>>
    BY <1>1 DEF MoveTip
  <2>2. GateCounts'
    BY <2>1 DEF AInv, TypeOK, GateCounts, Running
  <2>3. TypeOK'
    BY <1>1, <2>1, <2>2, EvidenceAccessAssumption
    DEF MoveTip, windowVars, readVars, AInv, TypeOK
  <2>4. SnapshotAtTip' /\ LateAtFirstCheck'
    BY <2>1 DEF readVars, AInv, SnapshotAtTip, LateAtFirstCheck
  <2> QED
    BY <2>3, <2>4 DEF AInv
<1>2. CASE \E c \in Requests : Deactivate(c)
  <2>1. /\ UNCHANGED <<tip, moves, inflight, windowVars, pc, round, readVars, late>>
        /\ inactive \subseteq inactive' /\ disabled \subseteq disabled'
        /\ inactive' \subseteq Requests /\ disabled' \subseteq Requests
    BY <1>2 DEF Deactivate, AInv, TypeOK
  <2>2. GateCounts'
    BY <2>1 DEF AInv, TypeOK, GateCounts, Running
  <2>3. TypeOK'
    BY <2>1, <2>2 DEF windowVars, readVars, AInv, TypeOK
  <2>4. SnapshotAtTip' /\ LateAtFirstCheck'
    BY <2>1 DEF readVars, AInv, SnapshotAtTip, LateAtFirstCheck
  <2> QED
    BY <2>3, <2>4 DEF AInv
<1>3. CASE \E w \in Windows : EndWindow(w)
  <2>1. /\ UNCHANGED <<worldVars, inflight, window, pc, round, readVars, late>>
        /\ over' \subseteq Windows
    BY <1>3 DEF EndWindow, AInv, TypeOK
  <2>2. GateCounts'
    BY <2>1 DEF AInv, TypeOK, GateCounts, Running
  <2>3. TypeOK'
    BY <2>1, <2>2 DEF worldVars, readVars, AInv, TypeOK
  <2>4. SnapshotAtTip' /\ LateAtFirstCheck'
    BY <2>1 DEF worldVars, readVars, AInv, SnapshotAtTip, LateAtFirstCheck
  <2> QED
    BY <2>3, <2>4 DEF AInv
<1> QED
  BY <1>1, <1>2, <1>3

LEMMA StepInv == AInv /\ [Next]_vars => AInv'
<1> SUFFICES ASSUME AInv, [Next]_vars
             PROVE  AInv'
  OBVIOUS
<1>1. CASE UNCHANGED vars
  BY <1>1 DEF vars, worldVars, windowVars, readVars, AInv, TypeOK, GateCounts, Running,
              SnapshotAtTip, LateAtFirstCheck
<1>2. CASE Next
  BY <1>2, EnterInv, AuthenticateInv, AdmitInv, AuthorizeInv, ReadInv, DiscardInv,
     VerdictInv, WorldInv DEF Next, ReadChain
<1> QED
  BY <1>1, <1>2

THEOREM AccessInvariant == Spec => []AInv
<1>1. Init => AInv
  BY InitInv
<1>2. AInv /\ [Next]_vars => AInv'
  BY StepInv
<1> QED
  BY <1>1, <1>2, PTL DEF Spec

-----------------------------------------------------------------------------
(* Types, with the gate: the counter stays between zero and its limit, for *)
(* it is the number of handlers that run.                                  *)
THEOREM AccessTypesHold == Spec => []TypeOK
<1>1. AInv => TypeOK
  BY DEF AInv
<1> QED
  BY <1>1, AccessInvariant, PTL

LEMMA GrantStep ==
  ASSUME AInv, NEW c \in Requests, pc[c] # "granted", pc'[c] = "granted", [Next]_vars
  PROVE  Permits(c, Job[tip], Escrow[tip]) /\ c \notin late
<1>0. Next
  BY DEF vars
<1>1. ASSUME NEW d \in Requests, \/ Enter(d) \/ Authenticate(d) \/ Admit(d) \/ Authorize(d)
                                 \/ ReadInfo(d) \/ ReadBlock(d) \/ ReadJob(d) \/ ReadEscrow(d)
                                 \/ SnapshotMoved(d) \/ TimeOut(d) \/ Deactivate(d)
      PROVE  pc'[c] # "granted"
  BY <1>1 DEF Enter, Authenticate, FirstMerchantCheck, AskIssuer, SecondMerchantCheck,
              Admit, Authorize, Reauthentication, ReadInfo, ReadBlock, ReadJob, ReadEscrow,
              SnapshotMoved, TimeOut, Deactivate, Proceed, End, Goto, AInv, TypeOK
<1>2. (MoveTip \/ \E w \in Windows : EndWindow(w)) => pc'[c] # "granted"
  BY DEF MoveTip, EndWindow
<1>3. PICK d \in Requests : Decide(d)
  BY <1>0, <1>1, <1>2 DEF Next, ReadChain
<1>4. d = c /\ Permits(c, Job[job[c]], Escrow[escrow[c]])
  BY <1>3 DEF Decide, End, Goto, AInv, TypeOK
<1>5. job[c] = tip /\ escrow[c] = tip /\ pc[c] = "recheck"
  BY <1>3, <1>4 DEF Decide, AInv, SnapshotAtTip
<1>6. c \notin late
  BY <1>5 DEF AInv, LateAtFirstCheck
<1> QED
  BY <1>4, <1>5, <1>6

(* Whoever is granted an operation is permitted it by the job and escrow   *)
(* of the node's tip of that moment, and had not lost merchant, client or  *)
(* token when the authorization began, on any chain however it forks.      *)
THEOREM GrantsAreCurrent == Spec => GrantedAtTip
<1>1. AInv /\ [Next]_vars =>
        [\A c \in Requests : pc[c] # "granted" /\ pc'[c] = "granted" =>
           /\ Permits(c, Job[tip], Escrow[tip])
           /\ c \notin late]_vars
  BY GrantStep
<1> QED
  BY <1>1, AccessInvariant, PTL DEF Spec, GrantedAtTip
=============================================================================
