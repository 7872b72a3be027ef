---------------------------- MODULE EvidenceVault ----------------------------
(***************************************************************************)
(* What direct evidence promises for each record: it is reserved within    *)
(* the quota, takes one version while its upload is open, keeps exactly    *)
(* that version readable until the record expires, and is given up once:   *)
(* empty after the upload is over, filled only after the expiry.           *)
(***************************************************************************)
CONSTANTS Records, Versions, Nothing, Fits(_)

VARIABLES
  kept,    \* record -> "free", "reserved", "held" or "gone"
  content, \* record -> the version held, Nothing before
  open,    \* records whose upload is not over
  expired  \* records past their expiry

vars == <<kept, content, open, expired>>

Init ==
  /\ kept    = [r \in Records |-> "free"]
  /\ content = [r \in Records |-> Nothing]
  /\ open    = Records
  /\ expired = {}

Occupied == {r \in Records : kept[r] \in {"reserved", "held"}}

CloseUpload(r) ==
  /\ open' = open \ {r}
  /\ UNCHANGED <<kept, content, expired>>

Expire(r) ==
  /\ r \notin open
  /\ expired' = expired \union {r}
  /\ UNCHANGED <<kept, content, open>>

Reserve(r) ==
  /\ kept[r] = "free"
  /\ Fits(Occupied \union {r})
  /\ kept' = [kept EXCEPT ![r] = "reserved"]
  /\ UNCHANGED <<content, open, expired>>

Hold(r, v) ==
  /\ kept[r] = "reserved"
  /\ r \in open
  /\ kept'    = [kept EXCEPT ![r] = "held"]
  /\ content' = [content EXCEPT ![r] = v]
  /\ UNCHANGED <<open, expired>>

\* Records are given up in batches.
GiveUp(R) ==
  /\ \A r \in R : \/ kept[r] = "reserved" /\ r \notin open
                  \/ kept[r] = "held" /\ r \in expired
  /\ kept' = [r \in Records |-> IF r \in R THEN "gone" ELSE kept[r]]
  /\ UNCHANGED <<content, open, expired>>

Next ==
  \/ \E r \in Records : CloseUpload(r) \/ Expire(r) \/ Reserve(r)
  \/ \E r \in Records : \E v \in Versions : Hold(r, v)
  \/ \E R \in SUBSET Records : GiveUp(R)

Spec == Init /\ [][Next]_vars
=============================================================================
