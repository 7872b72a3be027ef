--------------------------- MODULE EvidenceProofs ---------------------------
(***************************************************************************)
(* Proofs about EvidenceDirect, for any number of records, calls and       *)
(* cleanups, and any quotas; then about EvidenceBackup, for any number of  *)
(* passes, recoveries, retentions, losses and crashes beside them.         *)
(***************************************************************************)
EXTENDS EvidenceBackup, Sums

(***************************************************************************)
(* Direct evidence: the inductive invariant.                               *)
(***************************************************************************)

\* The lock holder has counted, and what it counted has only shrunk.
Prepared ==
  \A r \in Records :
    /\ pc[r] \in {"idle", "reserve", "insert"} => row[r] = "absent"
    /\ pc[r] = "insert" => capacity = r /\ WithinQuota(Counted \union {r})
    /\ row[r] = "absent" => version[r] = 0 /\ age[r] = Open

\* Nothing is deleted before a record is stale.
Uploads ==
  \A r \in Records :
    /\ minted[r] <= MaxUploads[r]
    /\ age[r] < Stale => bucket[r] = 1 .. minted[r]

\* A cleanup deletes under rows it has locked, and those remain eligible.
Cleaning ==
  \A k \in Cleaners :
    /\ todo[k] \subseteq held[k]
    /\ \A r \in held[k] : Eligible(r)
    /\ \A j \in Cleaners \ {k} : held[k] \intersect held[j] = {}
    /\ clean[k] \in Records => clean[k] \in todo[k] /\ listing[k] \in SUBSET Nat

BoundInBucket ==
  \A r \in Records :
    row[r] = "live" /\ version[r] # 0 /\ age[r] < Expired => version[r] \in bucket[r]

\* What a call has read or written holds as long as it may matter.
CompleteKnows(c) ==
  /\ pc[c] \in {"recheck", "finalize"} /\ age[Subject[c]] = Open => read[c] \in bucket[Subject[c]]
  /\ pc[c] \in {"confirm", "done"} /\ age[Subject[c]] < Expired =>
       row[Subject[c]] = "live" /\ version[Subject[c]] # 0

DownloadKnows(c) ==
  pc[c] \in {"url", "done"} /\ age[Subject[c]] < Expired =>
    /\ row[Subject[c]] = "live" /\ version[Subject[c]] # 0
    /\ read[c] = version[Subject[c]]

CallsKnow ==
  /\ \A c \in Completes : CompleteKnows(c)
  /\ \A c \in Downloads : DownloadKnows(c)

DInv == TypeOK /\ QuotaHolds /\ Prepared /\ Uploads /\ Cleaning /\ BoundInBucket /\ CallsKnow

LEMMA Kinds ==
  /\ \A r \in Records : r \notin Calls /\ r # "idle" /\ r # "list"
  /\ \A c \in Calls : c \notin Records /\ Subject[c] \in Records
  /\ \A c \in Completes : c \in Calls /\ c \notin Downloads
  /\ \A c \in Downloads : c \in Calls /\ c \notin Completes
  BY EvidenceDirectAssumption DEF Calls

LEMMA OneMoves ==
  ASSUME TypeOK, NEW c \in Records \union Calls, NEW s \in Steps, pc' = [pc EXCEPT ![c] = s]
  PROVE  /\ pc' \in [Records \union Calls -> Steps] /\ pc'[c] = s
         /\ \A d \in Records \union Calls : d # c => pc'[d] = pc[d]
<1>1. pc \in [Records \union Calls -> Steps]
  BY DEF TypeOK
<1> QED
  BY <1>1

\* Fewer objects never exceed a quota that more of them keep.
LEMMA WithinMonotone ==
  ASSUME NEW R \in SUBSET Records, NEW Q \in SUBSET R, NEW objects \in Nat, NEW bytes \in Nat,
         Within(R, objects, bytes)
  PROVE  Within(Q, objects, bytes)
<1>1. IsFiniteSet(R) /\ \A r \in R : Size[r] \in Nat
  BY FS_Subset, QuotaAssumption
<1>2. IsFiniteSet(Q) /\ Cardinality(Q) <= Cardinality(R)
  BY <1>1, FS_Subset
<1>3. Cardinality(Q) \in Nat /\ Cardinality(R) \in Nat
  BY <1>1, <1>2, FS_CardinalityType
<1>4. Bytes(Q) <= Bytes(R) /\ Bytes(R) \in Nat
  BY <1>1, SumMonotone DEF Bytes
<1>5. Bytes(Q) \in Nat
  BY <1>1, <1>2, SumMonotone DEF Bytes
<1> QED
  BY <1>2, <1>3, <1>4, <1>5 DEF Within

LEMMA QuotaMonotone ==
  /\ WithinQuota({})
  /\ \A R \in SUBSET Records : \A Q \in SUBSET R : WithinQuota(R) => WithinQuota(Q)
<1>1. Cardinality({}) = 0 /\ Bytes({}) = 0
  BY FS_EmptySet, SumMonotone DEF Bytes
<1>2. WithinQuota({})
  BY <1>1, QuotaAssumption DEF WithinQuota, Within
<1>3. ASSUME NEW R \in SUBSET Records, NEW Q \in SUBSET R, WithinQuota(R)
      PROVE  WithinQuota(Q)
  <2>1. Within(Q, GlobalObjects, GlobalBytes)
    BY <1>3, WithinMonotone, QuotaAssumption DEF WithinQuota
  <2>2. ASSUME NEW j \in Jobs
        PROVE  Within({r \in Q : JobOf[r] = j}, JobObjects, JobBytes)
    <3>1. /\ {r \in R : JobOf[r] = j} \in SUBSET Records
          /\ {r \in Q : JobOf[r] = j} \in SUBSET {r \in R : JobOf[r] = j}
          /\ Within({r \in R : JobOf[r] = j}, JobObjects, JobBytes)
      BY <1>3 DEF WithinQuota
    <3> QED
      BY <3>1, WithinMonotone, QuotaAssumption
  <2> QED
    BY <2>1, <2>2 DEF WithinQuota
<1> QED
  BY <1>2, <1>3

LEMMA InitInv == Init => DInv
<1> SUFFICES ASSUME Init
             PROVE  DInv
  OBVIOUS
<1>1. TypeOK
  BY DEF Init, TypeOK, Steps, Phases, Open, Retired
<1>2. Counted = {}
  BY DEF Init, Counted
<1>3. QuotaHolds
  BY <1>2, QuotaMonotone DEF QuotaHolds
<1>4. Prepared
  BY DEF Init, Prepared
<1>5. Uploads
  BY EvidenceDirectAssumption DEF Init, Uploads
<1>6. Cleaning
  BY Kinds DEF Init, Cleaning
<1>7. BoundInBucket /\ CallsKnow
  BY Kinds DEF Init, BoundInBucket, CallsKnow, CompleteKnows, DownloadKnows
<1> QED
  BY <1>1, <1>3, <1>4, <1>5, <1>6, <1>7 DEF DInv

-----------------------------------------------------------------------------
(* prepare.                                                                *)

LEMMA PrepareInv ==
  ASSUME DInv, NEW r \in Records, PrepareStep(r)
  PROVE  DInv'
<1>0. /\ version' = version /\ age' = age /\ bucket' = bucket /\ minted' = minted
      /\ read' = read /\ clean' = clean /\ held' = held /\ todo' = todo /\ listing' = listing
      /\ crashes' = crashes
  BY DEF PrepareStep, MintRecord, CountReservations, InsertReservation, ReturnForm,
         rowVars, s3Vars, cleanVars
<1>1. TypeOK
  BY DEF DInv
<1>2. PICK step \in {"reserve", "insert", "sign", "done", "denied"} :
        /\ pc' = [pc EXCEPT ![r] = step]
        /\ step = "reserve" => pc[r] = "idle" /\ row' = row /\ capacity' = capacity
        /\ step = "insert" => /\ pc[r] = "reserve" /\ row' = row /\ capacity = None
                              /\ capacity' = r /\ WithinQuota(Counted \union {r})
        /\ step = "sign" => /\ pc[r] = "insert" /\ row' = [row EXCEPT ![r] = "live"]
                            /\ capacity' = None
        /\ step \in {"done", "denied"} => row' = row /\ capacity' = capacity
  BY DEF PrepareStep, MintRecord, CountReservations, CapacityFree, InsertReservation, ReturnForm,
         Goto, rowVars
<1>3. /\ pc' \in [Records \union Calls -> Steps] /\ pc'[r] = step
      /\ \A d \in Records \union Calls : d # r => pc'[d] = pc[d]
  BY <1>1, <1>2, OneMoves DEF Steps
<1>4. /\ \A c \in Calls : pc'[c] = pc[c]
      /\ \A q \in Records \ {r} : pc'[q] = pc[q]
  BY <1>3, Kinds
<1>5. form' \subseteq Records
  BY <1>1 DEF PrepareStep, MintRecord, CountReservations, InsertReservation, ReturnForm, TypeOK
<1>6. /\ row' \in [Records -> {"absent", "live", "purged", "pruned"}]
      /\ \A q \in Records \ {r} : row'[q] = row[q]
      /\ row'[r] = IF step = "sign" THEN "live" ELSE row[r]
      /\ capacity' \in Records \union {None}
  BY <1>1, <1>2 DEF TypeOK
<1>7. \A q \in Records : row[q] = "live" => row'[q] = "live"
  BY <1>6
<1>8. TypeOK'
  BY <1>0, <1>1, <1>3, <1>5, <1>6 DEF TypeOK
<1>9. Counted' = IF step = "sign" THEN Counted \union {r} ELSE Counted
  BY <1>6 DEF Counted
<1>10. QuotaHolds'
  BY <1>2, <1>9 DEF DInv, QuotaHolds, Prepared
<1>11. Prepared'
  <2>1. ASSUME NEW q \in Records
        PROVE  /\ pc'[q] \in {"idle", "reserve", "insert"} => row'[q] = "absent"
               /\ row'[q] = "absent" => version'[q] = 0 /\ age'[q] = Open
    BY <1>0, <1>2, <1>3, <1>4, <1>6 DEF DInv, Prepared
  <2>2. ASSUME NEW q \in Records, pc'[q] = "insert"
        PROVE  capacity' = q /\ WithinQuota(Counted' \union {q})
    <3>1. CASE q = r
      BY <1>2, <1>3, <1>9, <2>2, <3>1
    <3>2. CASE q # r
      <4>1. capacity = q /\ WithinQuota(Counted \union {q}) /\ q # None
        BY <1>4, <2>2, <3>2, EvidenceDirectAssumption DEF DInv, Prepared
      <4>2. pc[r] = "insert" => capacity = r
        BY DEF DInv, Prepared
      <4>3. step \notin {"insert", "sign"}
        BY <1>2, <3>2, <4>1, <4>2
      <4> QED
        BY <1>2, <1>9, <4>1, <4>3
    <3> QED
      BY <3>1, <3>2
  <2> QED
    BY <2>1, <2>2 DEF Prepared
<1>12. Uploads'
  BY <1>0 DEF DInv, Uploads
<1>13. Cleaning'
  <2>1. \A q \in Records : Eligible(q) => Eligible(q)'
    BY <1>0, <1>7 DEF Eligible
  <2>2. \A k \in Cleaners : held[k] \subseteq Records
    BY <1>1 DEF TypeOK
  <2> QED
    BY <1>0, <2>1, <2>2 DEF DInv, Cleaning
<1>14. BoundInBucket'
  <2>1. row[r] = "absent" \/ step # "sign"
    BY <1>2 DEF DInv, Prepared
  <2>2. \A q \in Records : row'[q] = "live" => row[q] = "live" \/ version[q] = 0
    BY <1>6, <2>1 DEF DInv, Prepared
  <2> QED
    BY <1>0, <2>2 DEF DInv, BoundInBucket
<1>15. CallsKnow'
  BY <1>0, <1>4, <1>7, Kinds DEF DInv, CallsKnow, CompleteKnows, DownloadKnows
<1> QED
  BY <1>8, <1>10, <1>11, <1>12, <1>13, <1>14, <1>15 DEF DInv

-----------------------------------------------------------------------------
(* complete and download.                                                  *)

\* The latest of versions numbered from one is there.
LEMMA LatestThere ==
  ASSUME Uploads, TypeOK, NEW r \in Records, age[r] = Open, bucket[r] # {}
  PROVE  Latest(r) \in bucket[r] /\ Latest(r) \in Nat
<1>1. minted[r] \in Nat /\ bucket[r] = 1 .. minted[r]
  BY DEF Uploads, TypeOK, Open, Stale
<1>2. minted[r] \in bucket[r] /\ \A v \in bucket[r] : minted[r] >= v
  BY <1>1
<1>3. Latest(r) \in bucket[r]
  BY <1>2 DEF Latest, Max
<1> QED
  BY <1>1, <1>3

\* A call's step that writes no row.
LEMMA CallFrame ==
  ASSUME DInv, NEW c \in Calls, NEW step \in Steps,
         pc' = [pc EXCEPT ![c] = step],
         row' = row, version' = version, age' = age, bucket' = bucket, minted' = minted,
         form' = form, capacity' = capacity, clean' = clean, held' = held, todo' = todo,
         listing' = listing, crashes' = crashes,
         read' \in [Calls -> Nat], \A d \in Calls \ {c} : read'[d] = read[d],
         c \in Completes => CompleteKnows(c)',
         c \in Downloads => DownloadKnows(c)'
  PROVE  DInv'
<1>1. TypeOK
  BY DEF DInv
<1>2. /\ pc' \in [Records \union Calls -> Steps] /\ pc'[c] = step
      /\ \A d \in Records \union Calls : d # c => pc'[d] = pc[d]
  BY <1>1, OneMoves
<1>3. /\ \A d \in Calls \ {c} : pc'[d] = pc[d]
      /\ \A r \in Records : pc'[r] = pc[r]
  BY <1>2, Kinds
<1>4. TypeOK'
  BY <1>1, <1>2 DEF TypeOK
<1>5. Counted' = Counted
  BY DEF Counted
<1>6. QuotaHolds' /\ Prepared'
  BY <1>3, <1>5 DEF DInv, QuotaHolds, Prepared
<1>7. Uploads' /\ BoundInBucket'
  BY DEF DInv, Uploads, BoundInBucket
<1>8. Cleaning'
  BY DEF DInv, Cleaning, Eligible
<1>9. CallsKnow'
  <2>1. ASSUME NEW d \in Completes \ {c}
        PROVE  CompleteKnows(d)'
    <3>1. CompleteKnows(d) /\ d \in Calls
      BY Kinds DEF DInv, CallsKnow
    <3> QED
      BY <1>3, <3>1 DEF CompleteKnows
  <2>2. ASSUME NEW d \in Downloads \ {c}
        PROVE  DownloadKnows(d)'
    <3>1. DownloadKnows(d) /\ d \in Calls
      BY Kinds DEF DInv, CallsKnow
    <3> QED
      BY <1>3, <3>1 DEF DownloadKnows
  <2> QED
    BY <2>1, <2>2 DEF CallsKnow
<1> QED
  BY <1>4, <1>6, <1>7, <1>8, <1>9 DEF DInv

LEMMA ReadingInv ==
  ASSUME DInv, NEW c \in Completes,
         FindForComplete(c) \/ VerifyUpload(c) \/ RecheckUpload(c) \/ ConfirmComplete(c)
  PROVE  DInv'
<1> DEFINE r == Subject[c]
<1>0. /\ row' = row /\ version' = version /\ age' = age /\ bucket' = bucket /\ minted' = minted
      /\ form' = form /\ capacity' = capacity /\ clean' = clean /\ held' = held /\ todo' = todo
      /\ listing' = listing /\ crashes' = crashes
  BY DEF FindForComplete, VerifyUpload, RecheckUpload, ConfirmComplete,
         rowVars, s3Vars, cleanVars
<1>1. TypeOK /\ Uploads
  BY DEF DInv
<1>2. c \in Calls /\ c \notin Downloads /\ r \in Records
  BY Kinds
<1>3. read \in [Calls -> Nat] /\ version \in [Records -> Nat] /\ age[r] \in Phases
  BY <1>1, <1>2 DEF TypeOK
<1>4. PICK step \in {"verify", "recheck", "finalize", "confirm", "done", "denied"}, v \in Nat :
        /\ pc' = [pc EXCEPT ![c] = step] /\ read' = [read EXCEPT ![c] = v]
        /\ step \in {"recheck", "finalize"} /\ age[r] = Open => v \in bucket[r]
        /\ step \in {"confirm", "done"} /\ age[r] < Expired => row[r] = "live" /\ version[r] # 0
  <2>1. CASE FindForComplete(c) \/ Deny(c)
    <3>1. CASE Deny(c)
      BY <3>1 DEF Deny, Goto
    <3>2. CASE /\ Found(r) /\ read' = [read EXCEPT ![c] = version[r]]
               /\ Goto(c, IF version[r] = 0 THEN "verify" ELSE "confirm")
      BY <1>2, <1>3, <3>2 DEF Found, Goto
    <3> QED
      BY <2>1, <3>1, <3>2 DEF FindForComplete
  <2>2. CASE /\ pc[c] = "verify" /\ age[r] = Open /\ bucket[r] # {}
             /\ read' = [read EXCEPT ![c] = Latest(r)] /\ Goto(c, "recheck")
    BY <1>1, <1>2, <2>2, LatestThere DEF Goto
  <2>3. read[c] \in Nat /\ read' = read => read' = [read EXCEPT ![c] = read[c]]
    BY <1>3
  <2>4. CompleteKnows(c)
    BY DEF DInv, CallsKnow
  <2>5. CASE pc[c] = "recheck" /\ age[r] = Open /\ Goto(c, "finalize") /\ read' = read
    BY <1>2, <1>3, <2>3, <2>4, <2>5 DEF Goto, CompleteKnows
  <2>6. CASE pc[c] = "confirm" /\ age[r] < Expired /\ Goto(c, "done") /\ read' = read
    BY <1>2, <1>3, <2>3, <2>4, <2>6 DEF Goto, CompleteKnows
  <2> QED
    BY <2>1, <2>2, <2>5, <2>6 DEF VerifyUpload, RecheckUpload, ConfirmComplete
<1>5. /\ read' \in [Calls -> Nat] /\ read'[c] = v /\ \A d \in Calls \ {c} : read'[d] = read[d]
  BY <1>2, <1>3, <1>4
<1>6. pc'[c] = step
  BY <1>1, <1>2, <1>4, OneMoves DEF Steps
<1>7. CompleteKnows(c)'
  BY <1>0, <1>4, <1>5, <1>6 DEF CompleteKnows
<1>8. step \in Steps
  BY DEF Steps
<1> QED
  BY <1>0, <1>2, <1>4, <1>5, <1>7, <1>8, CallFrame

LEMMA DownloadInv ==
  ASSUME DInv, NEW c \in Downloads, DownloadStep(c)
  PROVE  DInv'
<1> DEFINE r == Subject[c]
<1>0. /\ row' = row /\ version' = version /\ age' = age /\ bucket' = bucket /\ minted' = minted
      /\ form' = form /\ capacity' = capacity /\ clean' = clean /\ held' = held /\ todo' = todo
      /\ listing' = listing /\ crashes' = crashes
  BY DEF DownloadStep, FindForDownload, ReturnUrl, rowVars, s3Vars, cleanVars
<1>1. TypeOK
  BY DEF DInv
<1>2. c \in Calls /\ c \notin Completes /\ r \in Records
  BY Kinds
<1>3. read \in [Calls -> Nat] /\ version \in [Records -> Nat]
  BY <1>1, <1>2 DEF TypeOK
<1>4. PICK step \in {"url", "done", "denied"}, v \in Nat :
        /\ pc' = [pc EXCEPT ![c] = step] /\ read' = [read EXCEPT ![c] = v]
        /\ step \in {"url", "done"} /\ age[r] < Expired =>
             row[r] = "live" /\ version[r] # 0 /\ v = version[r]
  <2>1. CASE Deny(c)
    BY <2>1 DEF Deny, Goto
  <2>2. CASE /\ Found(r) /\ version[r] # 0
             /\ read' = [read EXCEPT ![c] = version[r]] /\ Goto(c, "url")
    BY <1>2, <1>3, <2>2 DEF Found, Goto
  <2>3. DownloadKnows(c)
    BY DEF DInv, CallsKnow
  <2>4. CASE pc[c] = "url" /\ age[r] < Expired /\ Goto(c, "done") /\ read' = read
    <3>1. read' = [read EXCEPT ![c] = read[c]] /\ read[c] \in Nat
      BY <1>2, <1>3, <2>4
    <3> QED
      BY <2>3, <2>4, <3>1 DEF Goto, DownloadKnows
  <2> QED
    BY <2>1, <2>2, <2>4 DEF DownloadStep, FindForDownload, ReturnUrl
<1>5. /\ read' \in [Calls -> Nat] /\ read'[c] = v /\ \A d \in Calls \ {c} : read'[d] = read[d]
  BY <1>2, <1>3, <1>4
<1>6. pc'[c] = step
  BY <1>1, <1>2, <1>4, OneMoves DEF Steps
<1>7. DownloadKnows(c)'
  BY <1>0, <1>4, <1>5, <1>6 DEF DownloadKnows
<1>8. step \in Steps
  BY DEF Steps
<1> QED
  BY <1>0, <1>2, <1>4, <1>5, <1>7, <1>8, CallFrame

\* The UPDATE binds what was verified while the upload was open, or changes nothing.
LEMMA FinalizeInv ==
  ASSUME DInv, NEW c \in Completes, Finalize(c)
  PROVE  DInv'
<1> DEFINE r == Subject[c]
<1>0. /\ row' = row /\ age' = age /\ bucket' = bucket /\ minted' = minted
      /\ form' = form /\ capacity' = capacity /\ clean' = clean /\ held' = held /\ todo' = todo
      /\ listing' = listing /\ crashes' = crashes
  BY DEF Finalize, s3Vars, cleanVars
<1>1. TypeOK
  BY DEF DInv
<1>2. c \in Calls /\ c \notin Downloads /\ r \in Records
  BY Kinds
<1>3. read \in [Calls -> Nat] /\ version \in [Records -> Nat]
  BY <1>1 DEF TypeOK
<1>4. CompleteKnows(c) /\ pc[c] = "finalize"
  BY DEF DInv, CallsKnow, Finalize
<1>5. CASE Deny(c) /\ version' = version
  <2>1. /\ read' \in [Calls -> Nat] /\ \A d \in Calls \ {c} : read'[d] = read[d]
        /\ pc' = [pc EXCEPT ![c] = "denied"] /\ "denied" \in Steps
    BY <1>2, <1>3, <1>5 DEF Deny, Goto, Steps
  <2>2. CompleteKnows(c)'
    BY <1>1, <1>2, <2>1, OneMoves DEF CompleteKnows
  <2> QED
    BY <1>0, <1>2, <1>5, <2>1, <2>2, CallFrame
<1>6. CASE Finalizable(r) /\ version[r] # 0 /\ version' = version
           /\ Goto(c, "confirm") /\ read' = read
  <2>1. /\ pc' = [pc EXCEPT ![c] = "confirm"] /\ "confirm" \in Steps
    BY <1>6 DEF Goto, Steps
  <2>2. CompleteKnows(c)'
    BY <1>0, <1>1, <1>2, <1>6, <2>1, OneMoves DEF Finalizable, CompleteKnows
  <2>3. read' \in [Calls -> Nat] /\ \A d \in Calls \ {c} : read'[d] = read[d]
    BY <1>3, <1>6
  <2> QED
    BY <1>0, <1>2, <1>6, <2>1, <2>2, <2>3, CallFrame
<1>7. CASE Finalizable(r) /\ version[r] = 0 /\ version' = [version EXCEPT ![r] = read[c]]
           /\ Goto(c, "confirm") /\ read' = read
  <2>1. row[r] = "live" /\ age[r] = Open
    BY <1>7 DEF Finalizable
  <2>2. read[c] \in bucket[r] /\ bucket[r] = 1 .. minted[r] /\ minted[r] \in Nat
    BY <1>1, <1>2, <1>4, <2>1 DEF CompleteKnows, DInv, Uploads, Open, Stale, TypeOK
  <2>3. read[c] # 0 /\ read[c] \in Nat
    BY <2>2
  <2>4. /\ version'[r] = read[c] /\ \A q \in Records \ {r} : version'[q] = version[q]
        /\ version' \in [Records -> Nat]
    BY <1>2, <1>3, <1>7, <2>3
  <2>5. /\ pc' \in [Records \union Calls -> Steps] /\ pc'[c] = "confirm"
        /\ \A d \in Records \union Calls : d # c => pc'[d] = pc[d]
    BY <1>1, <1>2, <1>7, OneMoves DEF Goto, Steps
  <2>6. /\ \A d \in Calls \ {c} : pc'[d] = pc[d]
        /\ \A q \in Records : pc'[q] = pc[q]
    BY <2>5, Kinds
  <2>7. TypeOK'
    BY <1>0, <1>1, <1>3, <1>7, <2>4, <2>5 DEF TypeOK
  <2>8. Counted' = Counted
    BY <1>0 DEF Counted
  <2>9. QuotaHolds' /\ Uploads'
    BY <1>0, <2>8 DEF DInv, QuotaHolds, Uploads
  <2>10. Prepared'
    BY <1>0, <2>1, <2>4, <2>6, <2>8 DEF DInv, Prepared
  <2>11. Cleaning'
    <3>1. ~Eligible(r)
      BY <2>1 DEF Eligible, Open, Stale, Expired
    <3>2. \A q \in Records : Eligible(q) => Eligible(q)'
      BY <1>0, <2>4, <3>1 DEF Eligible
    <3>3. \A k \in Cleaners : held[k] \subseteq Records
      BY <1>1 DEF TypeOK
    <3> QED
      BY <1>0, <3>2, <3>3 DEF DInv, Cleaning
  <2>12. BoundInBucket'
    BY <1>0, <2>2, <2>4 DEF DInv, BoundInBucket
  <2>13. ASSUME NEW d \in Completes
         PROVE  CompleteKnows(d)'
    <3>1. CASE d = c
      BY <1>0, <2>1, <2>3, <2>4, <2>5, <3>1 DEF CompleteKnows
    <3>2. CASE d # c
      <4>1. CompleteKnows(d) /\ d \in Calls /\ Subject[d] \in Records
        BY Kinds DEF DInv, CallsKnow
      <4>2. version[Subject[d]] # 0 => version'[Subject[d]] # 0
        BY <2>3, <2>4, <4>1
      <4> QED
        BY <1>0, <1>7, <2>6, <3>2, <4>1, <4>2 DEF CompleteKnows
    <3> QED
      BY <3>1, <3>2
  <2>14. ASSUME NEW d \in Downloads
         PROVE  DownloadKnows(d)'
    <3>1. DownloadKnows(d) /\ d \in Calls /\ Subject[d] \in Records /\ d # c
      BY <1>2, Kinds DEF DInv, CallsKnow
    <3>2. version[Subject[d]] # 0 => version'[Subject[d]] = version[Subject[d]]
      BY <1>7, <2>4, <3>1
    <3> QED
      BY <1>0, <1>7, <2>6, <3>1, <3>2 DEF DownloadKnows
  <2> QED
    BY <2>7, <2>9, <2>10, <2>11, <2>12, <2>13, <2>14 DEF DInv, CallsKnow
<1>8. version[r] # 0 => [version EXCEPT ![r] = version[r]] = version
  BY <1>2, <1>3
<1> QED
  BY <1>5, <1>6, <1>7, <1>8 DEF Finalize, Bind

-----------------------------------------------------------------------------
(* The client, the clock, and processes that stop.                         *)

LEMMA UploadInv ==
  ASSUME DInv, NEW r \in Records, Upload(r)
  PROVE  DInv'
<1>0. /\ row' = row /\ version' = version /\ age' = age /\ pc' = pc /\ read' = read
      /\ form' = form /\ capacity' = capacity /\ clean' = clean /\ held' = held /\ todo' = todo
      /\ listing' = listing /\ crashes' = crashes
      /\ minted[r] < MaxUploads[r] /\ minted' = [minted EXCEPT ![r] = minted[r] + 1]
      /\ bucket' = [bucket EXCEPT ![r] = bucket[r] \union {minted[r] + 1}]
  BY DEF Upload, rowVars, callVars, cleanVars
<1>1. TypeOK
  BY DEF DInv
<1>2. minted[r] \in Nat /\ MaxUploads[r] \in Nat /\ bucket[r] \subseteq Nat
  BY <1>1, EvidenceDirectAssumption DEF TypeOK
<1>3. /\ minted' \in [Records -> Nat] /\ minted'[r] = minted[r] + 1
      /\ bucket' \in [Records -> SUBSET Nat] /\ bucket'[r] = bucket[r] \union {minted[r] + 1}
      /\ \A q \in Records \ {r} : minted'[q] = minted[q] /\ bucket'[q] = bucket[q]
      /\ \A q \in Records : bucket[q] \subseteq bucket'[q]
  BY <1>0, <1>1, <1>2 DEF TypeOK
<1>4. TypeOK'
  BY <1>0, <1>1, <1>3 DEF TypeOK
<1>5. Counted' = Counted
  BY <1>0 DEF Counted
<1>6. QuotaHolds' /\ Prepared'
  BY <1>0, <1>5 DEF DInv, QuotaHolds, Prepared
<1>7. Uploads'
  <2>1. minted'[r] <= MaxUploads[r]
    BY <1>0, <1>2, <1>3
  <2>2. age[r] < Stale => bucket'[r] = 1 .. minted'[r]
    <3>1. age[r] < Stale => bucket[r] = 1 .. minted[r]
      BY DEF DInv, Uploads
    <3> QED
      BY <1>2, <1>3, <3>1
  <2> QED
    BY <1>0, <1>3, <2>1, <2>2 DEF DInv, Uploads
<1>8. Cleaning'
  BY <1>0 DEF DInv, Cleaning, Eligible
<1>9. BoundInBucket'
  BY <1>0, <1>3 DEF DInv, BoundInBucket
<1>10. CallsKnow'
  BY <1>0, <1>3, Kinds DEF DInv, CallsKnow, CompleteKnows, DownloadKnows
<1> QED
  BY <1>4, <1>6, <1>7, <1>8, <1>9, <1>10 DEF DInv

LEMMA TickInv ==
  ASSUME DInv, NEW r \in Records, Tick(r)
  PROVE  DInv'
<1>0. /\ row' = row /\ version' = version /\ pc' = pc /\ read' = read
      /\ form' = form /\ capacity' = capacity /\ clean' = clean /\ held' = held /\ todo' = todo
      /\ listing' = listing /\ crashes' = crashes /\ minted' = minted /\ bucket' = bucket
      /\ row[r] # "absent" /\ age[r] < Retired /\ age' = [age EXCEPT ![r] = age[r] + 1]
  BY DEF Tick, rowVars, s3Vars, callVars, cleanVars
<1>1. TypeOK
  BY DEF DInv
<1>2. age \in [Records -> 0 .. 4]
  BY <1>1 DEF TypeOK, Phases, Open, Retired
<1>3. /\ age' \in [Records -> 0 .. 4] /\ age'[r] = age[r] + 1
      /\ \A q \in Records \ {r} : age'[q] = age[q]
  BY <1>0, <1>2 DEF Retired
<1>4. \A q \in Records :
        /\ age'[q] = Open => age[q] = Open
        /\ age'[q] < Stale => age[q] < Stale
        /\ age[q] >= Stale => age'[q] >= Stale
        /\ age'[q] < Expired => age[q] < Expired
        /\ age[q] >= Expired => age'[q] >= Expired
  BY <1>2, <1>3 DEF Open, Stale, Expired
<1>5. TypeOK'
  BY <1>0, <1>1, <1>3 DEF TypeOK, Phases, Open, Retired
<1>6. Counted' = Counted
  BY <1>0 DEF Counted
<1>7. QuotaHolds' /\ Prepared'
  BY <1>0, <1>3, <1>6 DEF DInv, QuotaHolds, Prepared
<1>8. Uploads'
  BY <1>0, <1>4 DEF DInv, Uploads
<1>9. Cleaning'
  <2>1. \A q \in Records : Eligible(q) => Eligible(q)'
    BY <1>0, <1>4 DEF Eligible
  <2>2. \A k \in Cleaners : held[k] \subseteq Records
    BY <1>1 DEF TypeOK
  <2> QED
    BY <1>0, <2>1, <2>2 DEF DInv, Cleaning
<1>10. BoundInBucket'
  BY <1>0, <1>4 DEF DInv, BoundInBucket
<1>11. CallsKnow'
  BY <1>0, <1>4, Kinds DEF DInv, CallsKnow, CompleteKnows, DownloadKnows
<1> QED
  BY <1>5, <1>7, <1>8, <1>9, <1>10, <1>11 DEF DInv

LEMMA CrashCallInv ==
  ASSUME DInv, NEW c \in Records \union Calls, CrashCall(c)
  PROVE  DInv'
<1>0. /\ row' = row /\ version' = version /\ age' = age
      /\ form' = form /\ clean' = clean /\ held' = held /\ todo' = todo
      /\ listing' = listing /\ crashes' = crashes + 1 /\ minted' = minted /\ bucket' = bucket
      /\ pc[c] \notin {"idle", "done", "denied"} /\ pc' = [pc EXCEPT ![c] = "denied"]
      /\ read' = [d \in Calls |-> IF d = c THEN 0 ELSE read[d]]
      /\ capacity' = IF capacity = c THEN None ELSE capacity
  BY DEF CrashCall, Goto, rowVars, s3Vars, cleanVars
<1>1. TypeOK
  BY DEF DInv
<1>2. /\ pc' \in [Records \union Calls -> Steps] /\ pc'[c] = "denied"
      /\ \A d \in Records \union Calls : d # c => pc'[d] = pc[d]
  BY <1>0, <1>1, OneMoves DEF Steps
<1>3. /\ read' \in [Calls -> Nat] /\ \A d \in Calls \ {c} : read'[d] = read[d]
  BY <1>0, <1>1 DEF TypeOK
<1>4. crashes' \in Nat
  BY <1>0, <1>1 DEF TypeOK
<1>5. capacity' \in Records \union {None}
  BY <1>0, <1>1 DEF TypeOK
<1>6. TypeOK'
  BY <1>0, <1>1, <1>2, <1>3, <1>4, <1>5 DEF TypeOK
<1>7. Counted' = Counted
  BY <1>0 DEF Counted
<1>8. QuotaHolds' /\ Uploads' /\ BoundInBucket'
  BY <1>0, <1>7 DEF DInv, QuotaHolds, Uploads, BoundInBucket
<1>9. Prepared'
  BY <1>0, <1>2, <1>7 DEF DInv, Prepared
<1>10. Cleaning'
  BY <1>0 DEF DInv, Cleaning, Eligible
<1>11. ASSUME NEW d \in Completes
       PROVE  CompleteKnows(d)'
  <2>1. CompleteKnows(d) /\ d \in Calls
    BY Kinds DEF DInv, CallsKnow
  <2> QED
    BY <1>0, <1>2, <1>3, <2>1 DEF CompleteKnows
<1>12. ASSUME NEW d \in Downloads
       PROVE  DownloadKnows(d)'
  <2>1. DownloadKnows(d) /\ d \in Calls
    BY Kinds DEF DInv, CallsKnow
  <2> QED
    BY <1>0, <1>2, <1>3, <2>1 DEF DownloadKnows
<1> QED
  BY <1>6, <1>8, <1>9, <1>10, <1>11, <1>12 DEF DInv, CallsKnow

-----------------------------------------------------------------------------
(* Cleanup.                                                                *)

LEMMA BatchWithin == ASSUME NEW R, NEW P \in Batches(R) PROVE P \subseteq R
  BY DEF Batches, kSubset

LEMMA EarliestWithin == ASSUME NEW R PROVE Earliest(R) \subseteq R
  BY DEF Earliest

\* A cleanup's step that writes no row.
LEMMA CleanFrame ==
  ASSUME DInv, row' = row, version' = version, age' = age, pc' = pc, read' = read,
         form' = form, capacity' = capacity, minted' = minted, crashes' \in Nat,
         bucket' \in [Records -> SUBSET Nat],
         \A r \in Records : bucket'[r] # bucket[r] => Eligible(r),
         clean' \in [Cleaners -> {"idle", "list"} \union Records],
         held' \in [Cleaners -> SUBSET Records], todo' \in [Cleaners -> SUBSET Records],
         listing' \in [Cleaners -> (SUBSET Nat) \union {None}],
         Cleaning'
  PROVE  DInv'
<1>1. TypeOK
  BY DEF DInv
<1>2. TypeOK'
  BY <1>1 DEF TypeOK
<1>3. Counted' = Counted
  BY DEF Counted
<1>4. QuotaHolds' /\ Prepared'
  BY <1>3 DEF DInv, QuotaHolds, Prepared
<1>5. \A r \in Records :
        /\ age[r] < Stale => bucket'[r] = bucket[r]
        /\ version[r] # 0 /\ age[r] < Expired => bucket'[r] = bucket[r]
  <2>1. \A r \in Records : age[r] \in 0 .. 4
    BY <1>1 DEF TypeOK, Phases, Open, Retired
  <2> QED
    BY <2>1 DEF Eligible, Stale, Expired
<1>6. Uploads'
  BY <1>5 DEF DInv, Uploads
<1>7. BoundInBucket'
  BY <1>5 DEF DInv, BoundInBucket
<1>8. ASSUME NEW d \in Completes
      PROVE  CompleteKnows(d)'
  <2>1. CompleteKnows(d) /\ Subject[d] \in Records
    BY Kinds DEF DInv, CallsKnow
  <2>2. age[Subject[d]] = Open => bucket'[Subject[d]] = bucket[Subject[d]]
    BY <1>5, <2>1 DEF Open, Stale
  <2> QED
    BY <2>1, <2>2 DEF CompleteKnows
<1>9. \A d \in Downloads : DownloadKnows(d)'
  BY DEF DInv, CallsKnow, DownloadKnows
<1> QED
  BY <1>2, <1>4, <1>6, <1>7, <1>8, <1>9 DEF DInv, CallsKnow

LEMMA SelectInv ==
  ASSUME DInv, NEW k \in Cleaners, SelectRows(k)
  PROVE  DInv'
<1>0. /\ row' = row /\ version' = version /\ age' = age /\ pc' = pc /\ read' = read
      /\ form' = form /\ capacity' = capacity /\ minted' = minted /\ bucket' = bucket
      /\ listing' = listing /\ crashes' = crashes
  BY DEF SelectRows, rowVars, s3Vars, callVars
<1>1. TypeOK
  BY DEF DInv
<1> DEFINE R == Earliest({r \in Records : Eligible(r) /\ ~Locked(r)})
<1>2. /\ held' = [held EXCEPT ![k] = R]
      /\ todo' = [todo EXCEPT ![k] = R]
      /\ clean' = [clean EXCEPT ![k] = "list"]
  BY DEF SelectRows
<1>3. R \subseteq {r \in Records : Eligible(r) /\ ~Locked(r)}
  BY EarliestWithin
<1> HIDE DEF R
<1>4. /\ held' \in [Cleaners -> SUBSET Records] /\ todo' \in [Cleaners -> SUBSET Records]
      /\ clean' \in [Cleaners -> {"idle", "list"} \union Records]
      /\ held'[k] = R /\ todo'[k] = R /\ clean'[k] = "list"
      /\ \A j \in Cleaners \ {k} :
           held'[j] = held[j] /\ todo'[j] = todo[j] /\ clean'[j] = clean[j]
  BY <1>1, <1>2, <1>3 DEF TypeOK
<1>5. \A r \in Records : Eligible(r)' <=> Eligible(r)
  BY <1>0 DEF Eligible
<1>6. \A j \in Cleaners \ {k} : R \intersect held[j] = {}
  BY <1>3 DEF Locked
<1>7. Cleaning'
  <2>1. ASSUME NEW j \in Cleaners
        PROVE  /\ todo'[j] \subseteq held'[j]
               /\ \A r \in held'[j] : Eligible(r)'
               /\ \A i \in Cleaners \ {j} : held'[j] \intersect held'[i] = {}
               /\ clean'[j] \in Records => clean'[j] \in todo'[j] /\ listing'[j] \in SUBSET Nat
    <3>1. CASE j = k
      BY <1>3, <1>4, <1>5, <1>6, <3>1, Kinds
    <3>2. CASE j # k
      <4>1. /\ todo[j] \subseteq held[j] /\ held[j] \subseteq Records
            /\ \A r \in held[j] : Eligible(r)
            /\ \A i \in Cleaners \ {j} : held[j] \intersect held[i] = {}
            /\ clean[j] \in Records => clean[j] \in todo[j] /\ listing[j] \in SUBSET Nat
        BY <1>1 DEF DInv, Cleaning, TypeOK
      <4> QED
        BY <1>0, <1>4, <1>5, <1>6, <3>2, <4>1
    <3> QED
      BY <3>1, <3>2
  <2> QED
    BY <2>1 DEF Cleaning
<1>8. crashes' \in Nat /\ bucket' \in [Records -> SUBSET Nat]
      /\ listing' \in [Cleaners -> (SUBSET Nat) \union {None}]
  BY <1>0, <1>1 DEF TypeOK
<1> QED
  BY <1>0, <1>4, <1>7, <1>8, CleanFrame

LEMMA ListInv ==
  ASSUME DInv, NEW k \in Cleaners, ListVersions(k)
  PROVE  DInv'
<1>0. /\ row' = row /\ version' = version /\ age' = age /\ pc' = pc /\ read' = read
      /\ form' = form /\ capacity' = capacity /\ minted' = minted /\ bucket' = bucket
      /\ held' = held /\ todo' = todo /\ crashes' = crashes
  BY DEF ListVersions, rowVars, s3Vars, callVars
<1>1. TypeOK
  BY DEF DInv
<1>2. PICK r \in todo[k] :
        clean' = [clean EXCEPT ![k] = r] /\ listing' = [listing EXCEPT ![k] = bucket[r]]
  BY DEF ListVersions
<1>3. r \in Records /\ bucket[r] \in SUBSET Nat
  BY <1>1 DEF TypeOK
<1>4. /\ clean' \in [Cleaners -> {"idle", "list"} \union Records]
      /\ listing' \in [Cleaners -> (SUBSET Nat) \union {None}]
      /\ clean'[k] = r /\ listing'[k] = bucket[r]
      /\ \A j \in Cleaners \ {k} : clean'[j] = clean[j] /\ listing'[j] = listing[j]
  BY <1>1, <1>2, <1>3 DEF TypeOK
<1>5. Cleaning'
  BY <1>0, <1>3, <1>4 DEF DInv, Cleaning, Eligible
<1>6. /\ crashes' \in Nat /\ bucket' \in [Records -> SUBSET Nat]
      /\ held' \in [Cleaners -> SUBSET Records] /\ todo' \in [Cleaners -> SUBSET Records]
  BY <1>0, <1>1 DEF TypeOK
<1> QED
  BY <1>0, <1>4, <1>5, <1>6, CleanFrame

LEMMA DeleteInv ==
  ASSUME DInv, NEW k \in Cleaners, DeleteVersion(k)
  PROVE  DInv'
<1>0. /\ row' = row /\ version' = version /\ age' = age /\ pc' = pc /\ read' = read
      /\ form' = form /\ capacity' = capacity /\ minted' = minted
      /\ held' = held /\ todo' = todo /\ crashes' = crashes /\ clean' = clean
      /\ clean[k] \in Records
  BY DEF DeleteVersion, rowVars, callVars
<1>1. TypeOK
  BY DEF DInv
<1>2. PICK v \in listing[k] :
        /\ listing' = [listing EXCEPT ![k] = listing[k] \ {v}]
        /\ bucket' = [bucket EXCEPT ![clean[k]] = bucket[clean[k]] \ {v}]
  BY DEF DeleteVersion
<1>3. listing[k] \in SUBSET Nat /\ clean[k] \in held[k] /\ Eligible(clean[k])
  BY <1>0 DEF DInv, Cleaning
<1>4. /\ listing' \in [Cleaners -> (SUBSET Nat) \union {None}]
      /\ listing'[k] \in SUBSET Nat
      /\ \A j \in Cleaners \ {k} : listing'[j] = listing[j]
  BY <1>1, <1>2, <1>3 DEF TypeOK
<1>5. /\ bucket' \in [Records -> SUBSET Nat]
      /\ \A r \in Records : bucket'[r] # bucket[r] => r = clean[k]
  BY <1>0, <1>1, <1>2 DEF TypeOK
<1>6. Cleaning'
  BY <1>0, <1>4 DEF DInv, Cleaning, Eligible
<1>7. /\ crashes' \in Nat /\ clean' \in [Cleaners -> {"idle", "list"} \union Records]
      /\ held' \in [Cleaners -> SUBSET Records] /\ todo' \in [Cleaners -> SUBSET Records]
  BY <1>0, <1>1 DEF TypeOK
<1> QED
  BY <1>0, <1>3, <1>4, <1>5, <1>6, <1>7, CleanFrame

LEMMA MarkInv ==
  ASSUME DInv, NEW k \in Cleaners, MarkPurged(k)
  PROVE  DInv'
<1>0. /\ row' = row /\ version' = version /\ age' = age /\ pc' = pc /\ read' = read
      /\ form' = form /\ capacity' = capacity /\ minted' = minted /\ bucket' = bucket
      /\ held' = held /\ crashes' = crashes
      /\ todo' = [todo EXCEPT ![k] = todo[k] \ {clean[k]}]
      /\ listing' = [listing EXCEPT ![k] = None]
      /\ clean' = [clean EXCEPT ![k] = "list"]
  BY DEF MarkPurged, rowVars, s3Vars, callVars
<1>1. TypeOK
  BY DEF DInv
<1>2. /\ todo' \in [Cleaners -> SUBSET Records] /\ todo'[k] \subseteq todo[k]
      /\ listing' \in [Cleaners -> (SUBSET Nat) \union {None}]
      /\ clean' \in [Cleaners -> {"idle", "list"} \union Records] /\ clean'[k] = "list"
      /\ \A j \in Cleaners \ {k} :
           todo'[j] = todo[j] /\ listing'[j] = listing[j] /\ clean'[j] = clean[j]
  BY <1>0, <1>1 DEF TypeOK
<1>3. Cleaning'
  BY <1>0, <1>2, Kinds DEF DInv, Cleaning, Eligible
<1>4. /\ crashes' \in Nat /\ bucket' \in [Records -> SUBSET Nat]
      /\ held' \in [Cleaners -> SUBSET Records]
  BY <1>0, <1>1 DEF TypeOK
<1> QED
  BY <1>0, <1>2, <1>3, <1>4, CleanFrame

LEMMA RollBackInv ==
  ASSUME DInv, NEW k \in Cleaners, RollBack(k), crashes' \in Nat
  PROVE  DInv'
<1>0. /\ row' = row /\ version' = version /\ age' = age /\ pc' = pc /\ read' = read
      /\ form' = form /\ capacity' = capacity /\ minted' = minted /\ bucket' = bucket
      /\ todo' = [todo EXCEPT ![k] = {}] /\ held' = [held EXCEPT ![k] = {}]
      /\ listing' = [listing EXCEPT ![k] = None]
      /\ clean' = [clean EXCEPT ![k] = "idle"]
  BY DEF RollBack, rowVars, s3Vars, callVars
<1>1. TypeOK
  BY DEF DInv
<1>2. /\ todo' \in [Cleaners -> SUBSET Records] /\ todo'[k] = {}
      /\ held' \in [Cleaners -> SUBSET Records] /\ held'[k] = {}
      /\ listing' \in [Cleaners -> (SUBSET Nat) \union {None}]
      /\ clean' \in [Cleaners -> {"idle", "list"} \union Records] /\ clean'[k] = "idle"
      /\ \A j \in Cleaners \ {k} : /\ todo'[j] = todo[j] /\ held'[j] = held[j]
                                   /\ listing'[j] = listing[j] /\ clean'[j] = clean[j]
  BY <1>0, <1>1 DEF TypeOK
<1>3. Cleaning'
  BY <1>0, <1>2, Kinds DEF DInv, Cleaning, Eligible
<1>4. bucket' \in [Records -> SUBSET Nat]
  BY <1>0, <1>1 DEF TypeOK
<1> QED
  BY <1>0, <1>2, <1>3, <1>4, CleanFrame

\* The rows the cleanup held, and tombstones of others.
LEMMA CommitInv ==
  ASSUME DInv, NEW k \in Cleaners, CommitCleanup(k)
  PROVE  /\ DInv'
         /\ \A r \in Records : r \in held[k] => row[r] = "live" /\ row'[r] \in {"purged", "pruned"}
         /\ \A r \in Records \ held[k] :
              row'[r] = row[r] \/ (row[r] = "purged" /\ row'[r] = "pruned")
<1>0. /\ version' = version /\ age' = age /\ pc' = pc /\ read' = read
      /\ form' = form /\ capacity' = capacity /\ minted' = minted /\ bucket' = bucket
      /\ listing' = listing /\ crashes' = crashes /\ todo' = todo /\ todo[k] = {}
      /\ held' = [held EXCEPT ![k] = {}]
      /\ clean' = [clean EXCEPT ![k] = "idle"]
  BY DEF CommitCleanup, s3Vars, callVars
<1>1. TypeOK
  BY DEF DInv
<1> DEFINE P == Earliest(Prunable(k))
<1>2. row' = [r \in Records |-> IF r \in P THEN "pruned"
                                ELSE IF r \in held[k] THEN "purged" ELSE row[r]]
  BY DEF CommitCleanup
<1>3. \A r \in P : row[r] = "purged" \/ r \in held[k]
  BY EarliestWithin DEF Prunable
<1> HIDE DEF P
<1>4. \A r \in held[k] : row[r] = "live" /\ Eligible(r)
  BY DEF DInv, Cleaning, Eligible
<1>5. /\ \A r \in Records : r \in held[k] => row[r] = "live" /\ row'[r] \in {"purged", "pruned"}
      /\ \A r \in Records \ held[k] :
           row'[r] = row[r] \/ (row[r] = "purged" /\ row'[r] = "pruned")
  BY <1>2, <1>3, <1>4
<1>6. row' \in [Records -> {"absent", "live", "purged", "pruned"}]
  BY <1>1, <1>2 DEF TypeOK
<1>7. /\ held' \in [Cleaners -> SUBSET Records] /\ held'[k] = {}
      /\ clean' \in [Cleaners -> {"idle", "list"} \union Records] /\ clean'[k] = "idle"
      /\ \A j \in Cleaners \ {k} : held'[j] = held[j] /\ clean'[j] = clean[j]
  BY <1>0, <1>1 DEF TypeOK
<1>8. TypeOK'
  BY <1>0, <1>1, <1>6, <1>7 DEF TypeOK
<1>9. Counted' \subseteq Counted /\ Counted \subseteq Records
  BY <1>5 DEF Counted
<1>10. \A r \in Records : WithinQuota(Counted \union {r}) => WithinQuota(Counted' \union {r})
  BY <1>9, QuotaMonotone
<1>11. QuotaHolds'
  BY <1>9, QuotaMonotone DEF DInv, QuotaHolds
<1>12. \A r \in Records : row'[r] = "absent" <=> row[r] = "absent"
  BY <1>5
<1>13. Prepared'
  BY <1>0, <1>10, <1>12 DEF DInv, Prepared
<1>14. Uploads'
  BY <1>0 DEF DInv, Uploads
<1>15. \A r \in Records : row'[r] = "live" => row[r] = "live"
  BY <1>5
<1>16. BoundInBucket'
  BY <1>0, <1>15 DEF DInv, BoundInBucket
<1>17. \A r \in Records : row[r] = "live" /\ version[r] # 0 /\ age[r] < Expired => row'[r] = "live"
  <2>1. \A r \in Records : age[r] \in 0 .. 4
    BY <1>1 DEF TypeOK, Phases, Open, Retired
  <2>2. \A r \in Records : version[r] # 0 /\ age[r] < Expired => ~Eligible(r)
    BY <2>1 DEF Eligible, Expired
  <2> QED
    BY <1>4, <1>5, <2>2
<1>18. CallsKnow'
  BY <1>0, <1>17, Kinds DEF DInv, CallsKnow, CompleteKnows, DownloadKnows
<1>19. Cleaning'
  <2>1. ASSUME NEW j \in Cleaners
        PROVE  /\ todo'[j] \subseteq held'[j]
               /\ \A r \in held'[j] : Eligible(r)'
               /\ \A i \in Cleaners \ {j} : held'[j] \intersect held'[i] = {}
               /\ clean'[j] \in Records => clean'[j] \in todo'[j] /\ listing'[j] \in SUBSET Nat
    <3>1. CASE j = k
      BY <1>0, <1>7, <3>1, Kinds
    <3>2. CASE j # k
      <4>1. /\ todo[j] \subseteq held[j] /\ held[j] \subseteq Records
            /\ \A r \in held[j] : Eligible(r)
            /\ \A i \in Cleaners \ {j} : held[j] \intersect held[i] = {}
            /\ clean[j] \in Records => clean[j] \in todo[j] /\ listing[j] \in SUBSET Nat
        BY <1>1 DEF DInv, Cleaning, TypeOK
      <4>2. \A r \in held[j] : row[r] = "live" /\ r \notin held[k]
        BY <3>2, <4>1 DEF Eligible
      <4>3. \A r \in held[j] : row'[r] = "live"
        BY <1>5, <4>1, <4>2
      <4>4. \A r \in held[j] : Eligible(r)'
        BY <1>0, <4>1, <4>3 DEF Eligible
      <4> QED
        BY <1>0, <1>7, <3>2, <4>1, <4>4
    <3> QED
      BY <3>1, <3>2
  <2> QED
    BY <2>1 DEF Cleaning
<1> QED
  BY <1>5, <1>8, <1>11, <1>13, <1>14, <1>16, <1>18, <1>19 DEF DInv

-----------------------------------------------------------------------------
(* The invariant, and what it is for.                                      *)

LEMMA StepInv == DInv /\ [Next]_vars => DInv'
<1> SUFFICES ASSUME DInv, [Next]_vars
             PROVE  DInv'
  OBVIOUS
<1>1. ASSUME NEW r \in Records, PrepareStep(r) \/ Upload(r) \/ Tick(r)
      PROVE  DInv'
  BY <1>1, PrepareInv, UploadInv, TickInv
<1>2. ASSUME NEW c \in Completes, CompleteStep(c)
      PROVE  DInv'
  BY <1>2, ReadingInv, FinalizeInv DEF CompleteStep
<1>3. ASSUME NEW c \in Downloads, DownloadStep(c)
      PROVE  DInv'
  BY <1>3, DownloadInv
<1>4. ASSUME NEW c \in Records \union Calls, CrashCall(c)
      PROVE  DInv'
  BY <1>4, CrashCallInv
<1>5. ASSUME NEW k \in Cleaners, CleanupStep(k) \/ AbortCleanup(k)
      PROVE  DInv'
  <2>1. CASE RefuseBatch(k) \/ AbortCleanup(k)
    <3>1. crashes' \in Nat
      BY <2>1 DEF RefuseBatch, AbortCleanup, DInv, TypeOK
    <3> QED
      BY <2>1, <3>1, RollBackInv DEF RefuseBatch, AbortCleanup
  <2> QED
    BY <1>5, <2>1, SelectInv, ListInv, DeleteInv, MarkInv, CommitInv DEF CleanupStep
<1>6. CASE UNCHANGED vars
  <2>0. /\ row' = row /\ version' = version /\ age' = age /\ pc' = pc /\ read' = read
        /\ form' = form /\ capacity' = capacity /\ minted' = minted /\ bucket' = bucket
        /\ listing' = listing /\ crashes' = crashes /\ todo' = todo /\ held' = held
        /\ clean' = clean
    BY <1>6 DEF vars, rowVars, s3Vars, callVars, cleanVars
  <2>1. /\ crashes' \in Nat /\ bucket' \in [Records -> SUBSET Nat]
        /\ held' \in [Cleaners -> SUBSET Records] /\ todo' \in [Cleaners -> SUBSET Records]
        /\ clean' \in [Cleaners -> {"idle", "list"} \union Records]
        /\ listing' \in [Cleaners -> (SUBSET Nat) \union {None}]
    BY <2>0 DEF DInv, TypeOK
  <2>2. Cleaning'
    BY <2>0 DEF DInv, Cleaning, Eligible
  <2> QED
    BY <2>0, <2>1, <2>2, CleanFrame
<1> QED
  BY <1>1, <1>2, <1>3, <1>4, <1>5, <1>6 DEF Next, Operation

\* The inductive invariant holds of every reachable state.
THEOREM DirectInvariant == Spec => []DInv
  BY InitInv, StepInv, PTL DEF Spec

\* Every variable stays in its type, row, versions and the transactions' state alike.
THEOREM DirectTypesHold == Spec => []TypeOK
<1>1. DInv => TypeOK
  BY DEF DInv
<1> QED
  BY <1>1, DirectInvariant, PTL

\* reserve counts under its lock what a cleanup only shrinks: however many prepares
\* and cleanups run or fail, the live rows keep every quota.
THEOREM DirectKeepsQuota == Spec => []QuotaHolds
<1>1. DInv => QuotaHolds
  BY DEF DInv
<1> QED
  BY <1>1, DirectInvariant, PTL

\* No cleanup, ended or broken off, deletes a version that a row that has not
\* expired, or a URL signed for it, names; and complete's answers stay true.
THEOREM FinalizedStaysReadable == Spec => []FinalizedReadable
<1>1. ASSUME DInv
      PROVE  FinalizedReadable
  <2>1. BoundInBucket /\ CallsKnow
    BY <1>1 DEF DInv
  <2> QED
    BY <2>1, Kinds DEF FinalizedReadable, BoundInBucket, CallsKnow, CompleteKnows, DownloadKnows
<1> QED
  BY <1>1, DirectInvariant, PTL

-----------------------------------------------------------------------------
(* The vault.                                                              *)

LEMMA KeptOf ==
  ASSUME TypeOK, NEW r \in Records
  PROVE  /\ Kept[r] = "free" <=> row[r] = "absent"
         /\ Kept[r] = "reserved" <=> row[r] = "live" /\ version[r] = 0
         /\ Kept[r] = "held" <=> row[r] = "live" /\ version[r] # 0
         /\ Kept[r] = "gone" <=> row[r] \in {"purged", "pruned"}
         /\ Kept[r] \in {"free", "reserved", "held", "gone"}
<1>1. row[r] \in {"absent", "live", "purged", "pruned"}
  BY DEF TypeOK
<1> QED
  BY <1>1 DEF Kept

LEMMA VaultFrame ==
  ASSUME row' = row, version' = version, age' = age
  PROVE  UNCHANGED Vault!vars
<1>1. Kept' = Kept
  BY DEF Kept
<1> QED
  BY <1>1 DEF Vault!vars

LEMMA VaultInit == Init => Vault!Init
<1> SUFFICES ASSUME Init
             PROVE  Vault!Init
  OBVIOUS
<1>1. Kept = [r \in Records |-> "free"]
  BY DEF Init, Kept
<1>2. {r \in Records : age[r] = Open} = Records
  BY DEF Init
<1>3. {r \in Records : age[r] >= Expired} = {}
  BY DEF Init, Open, Expired
<1> QED
  BY <1>1, <1>2, <1>3 DEF Vault!Init, Init

\* An insert reserves.
LEMMA InsertMaps ==
  ASSUME DInv, NEW r \in Records, InsertReservation(r)
  PROVE  Vault!Next
<1>0. /\ version' = version /\ age' = age /\ pc[r] = "insert"
      /\ row' = [row EXCEPT ![r] = "live"]
  BY DEF InsertReservation
<1>1. TypeOK
  BY DEF DInv
<1>2. row[r] = "absent" /\ version[r] = 0 /\ WithinQuota(Counted \union {r})
  BY <1>0 DEF DInv, Prepared
<1>3. Kept' = [Kept EXCEPT ![r] = "reserved"]
  BY <1>0, <1>1, <1>2 DEF Kept, TypeOK
<1>4. {q \in Records : Kept[q] \in {"reserved", "held"}} = Counted
  BY <1>1, KeptOf DEF Counted
<1>5. Kept[r] = "free"
  BY <1>1, <1>2, KeptOf
<1>6. Vault!Reserve(r)
  BY <1>0, <1>2, <1>3, <1>4, <1>5 DEF Vault!Reserve, Vault!Occupied
<1> QED
  BY <1>6 DEF Vault!Next

\* A version that is bound is held.
LEMMA BindMaps ==
  ASSUME DInv, NEW c \in Completes, Finalize(c)
  PROVE  [Vault!Next]_(Vault!vars)
<1> DEFINE r == Subject[c]
<1>0. row' = row /\ age' = age /\ pc[c] = "finalize"
  BY DEF Finalize
<1>1. TypeOK /\ c \in Calls /\ r \in Records /\ version \in [Records -> Nat]
  BY Kinds DEF DInv, TypeOK
<1>2. CASE version' = version
  BY <1>0, <1>2, VaultFrame
<1>3. CASE Finalizable(r) /\ version[r] = 0 /\ version' = [version EXCEPT ![r] = read[c]]
  <2>1. row[r] = "live" /\ age[r] = Open
    BY <1>3 DEF Finalizable
  <2>2. CompleteKnows(c)
    BY DEF DInv, CallsKnow
  <2>3. read[c] \in bucket[r]
    BY <1>0, <2>1, <2>2 DEF CompleteKnows
  <2>4. /\ bucket[r] = 1 .. minted[r] /\ minted[r] <= MaxUploads[r] /\ minted[r] \in Nat
        /\ MaxUploads[r] \in Nat
    BY <1>1, <2>1, EvidenceDirectAssumption DEF DInv, Uploads, Open, Stale, TypeOK
  <2>5. read[c] \in 1 .. MaxUploads[r] /\ read[c] # 0
    BY <2>3, <2>4
  <2>6. read[c] \in Versions
    BY <1>1, <2>5 DEF Versions
  <2>7. Kept' = [Kept EXCEPT ![r] = "held"]
    BY <1>0, <1>1, <1>3, <2>1, <2>5 DEF Kept
  <2>8. Kept[r] = "reserved"
    BY <1>1, <1>3, <2>1, KeptOf
  <2>9. r \in {q \in Records : age[q] = Open}
    BY <1>1, <2>1
  <2>10. Vault!Hold(r, read[c])
    BY <1>0, <1>3, <2>7, <2>8, <2>9 DEF Vault!Hold
  <2> QED
    BY <1>1, <2>6, <2>10 DEF Vault!Next
<1>4. version[r] # 0 => [version EXCEPT ![r] = version[r]] = version
  BY <1>1
<1> QED
  BY <1>2, <1>3, <1>4 DEF Finalize, Bind

\* Time closes an upload, or expires a record.
LEMMA TickMaps ==
  ASSUME DInv, NEW r \in Records, Tick(r)
  PROVE  [Vault!Next]_(Vault!vars)
<1>0. /\ row' = row /\ version' = version /\ age' = [age EXCEPT ![r] = age[r] + 1]
      /\ age[r] < Retired
  BY DEF Tick, rowVars
<1>1. age \in [Records -> 0 .. 4]
  BY DEF DInv, TypeOK, Phases, Open, Retired
<1>2. Kept' = Kept
  BY <1>0 DEF Kept
<1>3. age'[r] = age[r] + 1 /\ \A q \in Records \ {r} : age'[q] = age[q]
  BY <1>0, <1>1
<1>4. CASE age[r] = Open
  <2>1. {q \in Records : age'[q] = Open} = {q \in Records : age[q] = Open} \ {r}
    BY <1>1, <1>3, <1>4 DEF Open
  <2>2. {q \in Records : age'[q] >= Expired} = {q \in Records : age[q] >= Expired}
    BY <1>1, <1>3, <1>4 DEF Open, Expired
  <2>3. Vault!CloseUpload(r)
    BY <1>0, <1>2, <2>1, <2>2 DEF Vault!CloseUpload
  <2> QED
    BY <2>3 DEF Vault!Next
<1>5. CASE age[r] # Open
  <2>1. {q \in Records : age'[q] = Open} = {q \in Records : age[q] = Open}
    BY <1>1, <1>3, <1>5 DEF Open
  <2>2. CASE age[r] = Stale
    <3>1. {q \in Records : age'[q] >= Expired} = {q \in Records : age[q] >= Expired} \union {r}
      BY <1>1, <1>3, <2>2 DEF Stale, Expired
    <3>2. r \notin {q \in Records : age[q] = Open}
      BY <1>5
    <3>3. Vault!Expire(r)
      BY <1>0, <1>2, <2>1, <3>1, <3>2 DEF Vault!Expire
    <3> QED
      BY <3>3 DEF Vault!Next
  <2>3. CASE age[r] # Stale
    <3>1. {q \in Records : age'[q] >= Expired} = {q \in Records : age[q] >= Expired}
      BY <1>1, <1>3, <1>5, <2>3 DEF Open, Stale, Expired
    <3> QED
      BY <1>0, <1>2, <2>1, <3>1 DEF Vault!vars
  <2> QED
    BY <2>2, <2>3
<1> QED
  BY <1>4, <1>5

\* A cleanup that commits gives up the rows it held.
LEMMA CommitMaps ==
  ASSUME DInv, NEW k \in Cleaners, CommitCleanup(k)
  PROVE  Vault!Next
<1>0. version' = version /\ age' = age
  BY DEF CommitCleanup
<1>1. TypeOK /\ TypeOK' /\ held[k] \in SUBSET Records
  BY CommitInv DEF DInv, TypeOK
<1>2. /\ \A r \in Records : r \in held[k] => row[r] = "live" /\ row'[r] \in {"purged", "pruned"}
      /\ \A r \in Records \ held[k] :
           row'[r] = row[r] \/ (row[r] = "purged" /\ row'[r] = "pruned")
  BY CommitInv
<1>3. Kept' = [r \in Records |-> IF r \in held[k] THEN "gone" ELSE Kept[r]]
  <2>1. Kept' = [r \in Records |->
          CASE row'[r] = "absent" -> "free"
            [] row'[r] = "live"   -> IF version'[r] = 0 THEN "reserved" ELSE "held"
            [] OTHER             -> "gone"]
    BY DEF Kept
  <2>2. ASSUME NEW r \in Records, r \in held[k]
        PROVE  Kept'[r] = "gone"
    BY <1>2, <2>1, <2>2
  <2>3. ASSUME NEW r \in Records, r \notin held[k]
        PROVE  Kept'[r] = Kept[r]
    <3>1. row'[r] = row[r] \/ (row[r] = "purged" /\ row'[r] = "pruned")
      BY <1>2, <2>3
    <3> QED
      BY <1>0, <2>1, <3>1 DEF Kept
  <2> QED
    BY <2>1, <2>2, <2>3
<1>4. ASSUME NEW r \in held[k]
      PROVE  \/ Kept[r] = "reserved" /\ r \notin {q \in Records : age[q] = Open}
             \/ Kept[r] = "held" /\ r \in {q \in Records : age[q] >= Expired}
  <2>1. r \in Records /\ Eligible(r) /\ age[r] \in 0 .. 4
    BY <1>1 DEF DInv, Cleaning, TypeOK, Phases, Open, Retired
  <2> QED
    BY <1>1, <2>1, KeptOf DEF Eligible, Open, Stale, Expired
<1>5. Vault!GiveUp(held[k])
  BY <1>0, <1>3, <1>4 DEF Vault!GiveUp
<1> QED
  BY <1>1, <1>5 DEF Vault!Next

LEMMA VaultNext ==
  ASSUME DInv, [Next]_vars
  PROVE  [Vault!Next]_(Vault!vars)
<1>1. ASSUME NEW r \in Records, PrepareStep(r)
      PROVE  [Vault!Next]_(Vault!vars)
  <2>1. CASE InsertReservation(r)
    BY <2>1, InsertMaps
  <2>2. CASE MintRecord(r) \/ CountReservations(r) \/ ReturnForm(r)
    BY <2>2, VaultFrame DEF MintRecord, CountReservations, ReturnForm, rowVars
  <2> QED
    BY <1>1, <2>1, <2>2 DEF PrepareStep
<1>2. ASSUME NEW r \in Records, Upload(r) \/ Tick(r)
      PROVE  [Vault!Next]_(Vault!vars)
  <2>1. CASE Upload(r)
    BY <2>1, VaultFrame DEF Upload, rowVars
  <2> QED
    BY <1>2, <2>1, TickMaps
<1>3. ASSUME NEW c \in Completes, CompleteStep(c)
      PROVE  [Vault!Next]_(Vault!vars)
  <2>1. CASE Finalize(c)
    BY <2>1, BindMaps
  <2>2. CASE FindForComplete(c) \/ VerifyUpload(c) \/ RecheckUpload(c) \/ ConfirmComplete(c)
    BY <2>2, VaultFrame
    DEF FindForComplete, VerifyUpload, RecheckUpload, ConfirmComplete, rowVars
  <2> QED
    BY <1>3, <2>1, <2>2 DEF CompleteStep
<1>4. ASSUME NEW c \in Downloads, DownloadStep(c)
      PROVE  [Vault!Next]_(Vault!vars)
  BY <1>4, VaultFrame DEF DownloadStep, FindForDownload, ReturnUrl, rowVars
<1>5. ASSUME NEW c \in Records \union Calls, CrashCall(c)
      PROVE  [Vault!Next]_(Vault!vars)
  BY <1>5, VaultFrame DEF CrashCall, rowVars
<1>6. ASSUME NEW k \in Cleaners, CleanupStep(k) \/ AbortCleanup(k)
      PROVE  [Vault!Next]_(Vault!vars)
  <2>1. CASE CommitCleanup(k)
    BY <2>1, CommitMaps
  <2>2. CASE SelectRows(k) \/ ListVersions(k) \/ DeleteVersion(k) \/ MarkPurged(k)
    BY <2>2, VaultFrame DEF SelectRows, ListVersions, DeleteVersion, MarkPurged, rowVars
  <2>3. CASE RefuseBatch(k) \/ AbortCleanup(k)
    BY <2>3, VaultFrame DEF RefuseBatch, AbortCleanup, RollBack, rowVars
  <2> QED
    BY <1>6, <2>1, <2>2, <2>3 DEF CleanupStep
<1>7. CASE UNCHANGED vars
  BY <1>7, VaultFrame DEF vars, rowVars
<1> QED
  BY <1>1, <1>2, <1>3, <1>4, <1>5, <1>6, <1>7 DEF Next, Operation

\* Rows, calls and cleanups together are a vault: each record reserved within the
\* quota, bound to one version while its upload is open, and given up once.
THEOREM ImplementsVault == Spec => VaultSpec
<1>1. DInv /\ [Next]_vars => [Vault!Next]_(Vault!vars)
  BY VaultNext
<1> QED
  BY <1>1, VaultInit, DirectInvariant, PTL DEF Spec, VaultSpec, Vault!Spec

(***************************************************************************)
(* Its backup: the inductive invariant.                                    *)
(***************************************************************************)

\* What EvidenceDirect says of its rows and of the cleanups that lock them.
RowsKept == QuotaHolds /\ Prepared /\ Cleaning

\* Versions are numbered in the order S3 stores them.
Numbered == \A r \in Records : bucket[r] \subseteq 1 .. minted[r]

\* Nothing but restores lies under the key of r.
RestoresOnly(r) == \A v \in bucket[r] : \E tag \in tags[r] : tag[1] = v

\* A cleanup verifies the absence when no upload can arrive any more.
Cleaned ==
  /\ \A k \in Cleaners : \A r \in held[k] \ todo[k] : RestoresOnly(r)
  /\ \A r \in Records : row[r] \in {"purged", "pruned"} => age[r] >= Stale /\ RestoresOnly(r)

\* Restored versions are numbered like uploads.
Tagged == \A r \in Records : \A tag \in tags[r] : tag[1] # 0

\* No write outlives the grace, and the intent of a copy is recorded before it.
InFlight ==
  \A m \in puts : age[m.record] < Retired /\ (m.kind = "copy" => ledger[m.record] # "none")

\* A pass has a candidate with an intent, and verifies a copy it has seen.
PassKnows(p) ==
  LET r == current[p] IN
  pass[p] \notin {"idle", "next"} =>
    /\ r \in Records
    /\ age[r] < Retired => ledger[r] # "none"
    /\ pass[p] = "verify" /\ age[r] < Retired => copy[p] \in copies[r]

PassesKnow == \A p \in Passes : PassKnows(p)

\* Copies are deleted of records whose grace is over.
Retiring ==
  \A t \in Retirers :
    /\ retire[t] = None => doomed[t] = {}
    /\ retire[t] # None => age[retire[t]] = Retired

\* The condition on the write lets one copy exist.
OneCopy == \A r \in Records : \A m, n \in copies[r] : m = n

\* What the ledger of a verified record says of its row.
Backed(r) ==
  /\ version[r] # 0
  /\ manifest[r] \in copies[r] /\ manifest[r].source = expected[r]
  /\ IF restored[r] = 0 THEN version[r] = expected[r]
     ELSE version[r] = restored[r] /\ <<restored[r], manifest[r]>> \in tags[r]

VerifiedBacked ==
  \A r \in Records : age[r] < Retired =>
    /\ ledger[r] = "verified" => Backed(r)
    /\ ledger[r] # "verified" => restored[r] = 0

\* A recovery works on the verified copy of its record, until the grace is over.
RecoveryKnows(q) ==
  LET r == RecoveryOf[q] IN
  /\ recovery[q] \notin {"idle", "done"} /\ age[r] < Retired =>
       ledger[r] = "verified" /\ copy[q] = manifest[r]
  /\ recovery[q] = "put" => copy[q] \in Copy
  /\ recovery[q] = "commit" => <<target[q], copy[q]>> \in tags[r]
  /\ recovery[q] = "done" => /\ target[q] # 0 /\ version[r] = target[q]
                             /\ age[r] < Retired => restored[r] = target[q]

RecoveriesKnow == \A q \in Recoveries : RecoveryKnows(q)

\* What the processes of the backup know, and what its ledger says.
CopiesKept ==
  /\ InFlight /\ PassesKnow /\ Retiring /\ OneCopy /\ CopiesRecorded
  /\ Tagged /\ VerifiedBacked /\ RecoveriesKnow

BInv == BackupTypeOK /\ RowsKept /\ Numbered /\ Cleaned /\ CopiesKept

(***************************************************************************)
(* Types, by group of variables.                                           *)
(***************************************************************************)

LedgerTypes ==
  /\ ledger \in [Records -> {"none", "pending", "verified"}]
  /\ expected \in [Records -> Nat]
  /\ manifest \in [Records -> Copy \union {None}]
  /\ restored \in [Records -> Nat]

CopyTypes ==
  /\ copies \in [Records -> SUBSET Copy]
  /\ made \in [Records -> Nat]
  /\ tags \in [Records -> SUBSET (Nat \X Copy)]

CopyPuts == [by : Passes, record : Records, kind : {"copy"}, of : Nat]
RestorePuts == [by : Recoveries, record : Records, kind : {"restore"}, of : Copy]

PassTypes ==
  /\ session \in Passes \union {None}
  /\ pass \in [Passes -> {"idle", "next", "check", "put", "wait", "recheck", "readback", "verify"}]
  /\ queue \in [Passes -> SUBSET Records]
  /\ current \in [Passes -> Records \union {None}]
  /\ source \in [Passes -> Nat]

CopyHeld == copy \in [Passes \union Recoveries -> Copy \union {None}]

RecoveryTypes ==
  /\ recovery \in [Recoveries -> {"idle", "check", "put", "wait", "recheck", "commit", "done"}]
  /\ target \in [Recoveries -> Nat]

RetireTypes ==
  /\ retire \in [Retirers -> Records \union {None}]
  /\ doomed \in [Retirers -> SUBSET Copy]

LEMMA TypeGroups ==
  BackupTypeOK <=>
    /\ TypeOK /\ LedgerTypes /\ CopyTypes /\ puts \subseteq CopyPuts \union RestorePuts
    /\ PassTypes /\ CopyHeld /\ RecoveryTypes /\ RetireTypes /\ losses \in Nat
  BY DEF BackupTypeOK, LedgerTypes, CopyTypes, CopyPuts, RestorePuts, PassTypes, CopyHeld,
         RecoveryTypes, RetireTypes

LEMMA TypeGroupsNext ==
  ASSUME TypeOK', LedgerTypes', CopyTypes', puts' \subseteq CopyPuts \union RestorePuts,
         PassTypes', CopyHeld', RecoveryTypes', RetireTypes', losses' \in Nat
  PROVE  BackupTypeOK'
  BY DEF BackupTypeOK, LedgerTypes, CopyTypes, CopyPuts, RestorePuts, PassTypes, CopyHeld,
         RecoveryTypes, RetireTypes

\* Groups whose variables stay keep their types.
LEMMA DirectFrame == ASSUME TypeOK, UNCHANGED vars PROVE TypeOK'
  BY DEF TypeOK, vars, rowVars, s3Vars, callVars, cleanVars

LEMMA LedgerFrame == ASSUME LedgerTypes, UNCHANGED ledgerVars PROVE LedgerTypes'
  BY DEF LedgerTypes, ledgerVars

LEMMA CopyFrame == ASSUME CopyTypes, UNCHANGED <<copyVars, tags>> PROVE CopyTypes'
  BY DEF CopyTypes, copyVars

LEMMA PassFrame == ASSUME PassTypes, UNCHANGED passVars PROVE PassTypes'
  BY DEF PassTypes, passVars

LEMMA RecoveryFrame == ASSUME RecoveryTypes, UNCHANGED recoverVars PROVE RecoveryTypes'
  BY DEF RecoveryTypes, recoverVars

LEMMA RetireFrame == ASSUME RetireTypes, UNCHANGED retireVars PROVE RetireTypes'
  BY DEF RetireTypes, retireVars
(***************************************************************************)
(* The latest of some versions exists.                                     *)
(***************************************************************************)

Below == {ss \in Nat \X Nat : ss[1] < ss[2]}

LEMMA BelowWF == IsWellFoundedOn(Below, Nat)
  BY NatLessThanWellFounded DEF OpToRel, Below

\* Some natural numbers have a least one.
LEMMA LeastNat ==
  ASSUME NEW S \in SUBSET Nat, S # {}
  PROVE  \E n \in S : \A m \in S : n <= m
<1>1. PICK n \in S : \A m \in S : ~(<<m, n>> \in Below)
  BY BelowWF, WFMin
<1>2. ASSUME NEW m \in S
      PROVE  n <= m
  <2>1. m < n => <<m, n>> \in Below
    BY DEF Below
  <2>2. m \in Nat /\ n \in Nat
    OBVIOUS
  <2> QED
    BY <1>1, <2>1, <2>2
<1> QED
  BY <1>2

\* What is numbered up to n has a last one.
LEMMA LatestExists ==
  ASSUME NEW n \in Nat, NEW S \in SUBSET (1 .. n), S # {}
  PROVE  Max(S) \in S
<1> DEFINE T == {n - v : v \in S}
<1>1. PICK t \in T : \A u \in T : t <= u
  <2>1. T \in SUBSET Nat
    OBVIOUS
  <2>2. T # {}
    OBVIOUS
  <2> HIDE DEF T
  <2> QED
    BY <2>1, <2>2, LeastNat
<1>2. PICK v \in S : t = n - v
  OBVIOUS
<1>3. \A u \in S : v >= u
  <2> SUFFICES ASSUME NEW u \in S PROVE v >= u
    OBVIOUS
  <2>1. n - v <= n - u
    BY <1>1, <1>2
  <2> QED
    BY <1>2, <2>1
<1> QED
  BY <1>2, <1>3 DEF Max

(***************************************************************************)
(* Calls, uploads and cleanups keep their types without what EvidenceDirect *)
(* says of the bucket, which losses and restores change.                   *)
(***************************************************************************)

LEMMA PrepareTypes ==
  ASSUME TypeOK, NEW r \in Records, PrepareStep(r)
  PROVE  TypeOK'
<1> USE DEF TypeOK, rowVars, s3Vars, cleanVars, Goto, Steps
<1>1. CASE MintRecord(r)
  BY <1>1 DEF MintRecord
<1>2. CASE CountReservations(r)
  BY <1>2 DEF CountReservations
<1>3. CASE InsertReservation(r)
  BY <1>3 DEF InsertReservation
<1>4. CASE ReturnForm(r)
  BY <1>4 DEF ReturnForm
<1> QED
  BY <1>1, <1>2, <1>3, <1>4 DEF PrepareStep

LEMMA CallTypes ==
  ASSUME TypeOK, Numbered, NEW c \in Calls, CompleteStep(c) \/ DownloadStep(c)
  PROVE  TypeOK'
<1>0. Subject[c] \in Records
  BY Kinds
<1> USE DEF TypeOK, rowVars, s3Vars, cleanVars, Goto, Steps, Deny
<1>1. CASE FindForComplete(c)
  BY <1>0, <1>1 DEF FindForComplete
<1>2. CASE VerifyUpload(c)
  <2>1. bucket[Subject[c]] # {} => Latest(Subject[c]) \in Nat
    BY <1>0, LatestExists DEF Numbered, Latest
  <2> QED
    BY <1>0, <1>2, <2>1 DEF VerifyUpload
<1>3. CASE RecheckUpload(c)
  BY <1>3 DEF RecheckUpload
<1>4. CASE Finalize(c)
  BY <1>0, <1>4 DEF Finalize, Bind
<1>5. CASE ConfirmComplete(c)
  BY <1>5 DEF ConfirmComplete
<1>6. CASE FindForDownload(c)
  BY <1>0, <1>6 DEF FindForDownload
<1>7. CASE ReturnUrl(c)
  BY <1>7 DEF ReturnUrl
<1> QED
  BY <1>1, <1>2, <1>3, <1>4, <1>5, <1>6, <1>7 DEF CompleteStep, DownloadStep

LEMMA CleanupTypes ==
  ASSUME TypeOK, Cleaning, NEW k \in Cleaners, CleanupStep(k) \/ AbortCleanup(k)
  PROVE  TypeOK'
<1> USE DEF TypeOK, rowVars, s3Vars, callVars
<1>1. CASE SelectRows(k)
  <2>1. Earliest({r \in Records : Eligible(r) /\ ~Locked(r)}) \subseteq Records
    BY EarliestWithin
  <2> QED
    BY <1>1, <2>1 DEF SelectRows
<1>2. CASE ListVersions(k)
  BY <1>2 DEF ListVersions
<1>3. CASE DeleteVersion(k)
  <2>1. listing[k] \in SUBSET Nat
    BY <1>3 DEF Cleaning, DeleteVersion
  <2> QED
    BY <1>3, <2>1 DEF DeleteVersion
<1>4. CASE MarkPurged(k)
  BY <1>4 DEF MarkPurged
<1>5. CASE CommitCleanup(k)
  <2>1. row' = [r \in Records |-> IF r \in Earliest(Prunable(k)) THEN "pruned"
                                  ELSE IF r \in held[k] THEN "purged" ELSE row[r]]
    BY <1>5 DEF CommitCleanup
  <2>2. row' \in [Records -> {"absent", "live", "purged", "pruned"}]
    BY <2>1
  <2> QED
    BY <1>5, <2>2 DEF CommitCleanup
<1>6. CASE RefuseBatch(k) \/ AbortCleanup(k)
  BY <1>6 DEF RefuseBatch, AbortCleanup, RollBack
<1> QED
  BY <1>1, <1>2, <1>3, <1>4, <1>5, <1>6 DEF CleanupStep

LEMMA OperationTypes ==
  ASSUME TypeOK, Cleaning, Numbered, Operation
  PROVE  TypeOK'
<1>1. ASSUME NEW r \in Records, Upload(r)
      PROVE  TypeOK'
  BY <1>1 DEF TypeOK, Upload, rowVars, callVars, cleanVars
<1>2. ASSUME NEW c \in Records \union Calls, CrashCall(c)
      PROVE  TypeOK'
  <2>1. read' \in [Calls -> Nat]
    BY <1>2 DEF TypeOK, CrashCall
  <2> QED
    BY <1>2, <2>1 DEF TypeOK, CrashCall, Goto, Steps, rowVars, s3Vars, cleanVars
<1>3. Completes \subseteq Calls /\ Downloads \subseteq Calls
  BY DEF Calls
<1> QED
  BY <1>1, <1>2, <1>3, PrepareTypes, CallTypes, CleanupTypes DEF Operation

(***************************************************************************)
(* Rows: the quota, the reservations and the cleanups' locks.              *)
(***************************************************************************)

\* A step that writes at most the version of a row that is live and not locked.
LEMMA RowsFrame ==
  ASSUME TypeOK, RowsKept,
         row' = row, age' = age, capacity' = capacity, \A r \in Records : pc'[r] = pc[r],
         UNCHANGED cleanVars,
         \A r \in Records : version'[r] = version[r] \/ (row[r] = "live" /\ ~Locked(r))
  PROVE  RowsKept'
<1>1. Counted' = Counted
  BY DEF Counted
<1>2. QuotaHolds'
  BY <1>1 DEF RowsKept, QuotaHolds
<1>3. Prepared'
  BY <1>1 DEF RowsKept, Prepared
<1>4. Cleaning'
  <2>1. clean' = clean /\ held' = held /\ todo' = todo /\ listing' = listing
    BY DEF cleanVars
  <2>2. ASSUME NEW k \in Cleaners, NEW r \in held[k]
        PROVE  Eligible(r)'
    <3>1. r \in Records /\ Eligible(r)
      BY DEF TypeOK, RowsKept, Cleaning
    <3>2. version'[r] = version[r]
      BY <3>1 DEF Locked
    <3> QED
      BY <3>1, <3>2 DEF Eligible
  <2> QED
    BY <2>1, <2>2 DEF RowsKept, Cleaning
<1> QED
  BY <1>2, <1>3, <1>4 DEF RowsKept

LEMMA RowsPrepare ==
  ASSUME TypeOK, RowsKept, NEW r \in Records, PrepareStep(r)
  PROVE  RowsKept'
<1>0. /\ version' = version /\ age' = age /\ clean' = clean /\ held' = held /\ todo' = todo
      /\ listing' = listing
  BY DEF PrepareStep, MintRecord, CountReservations, InsertReservation, ReturnForm,
         rowVars, cleanVars
<1>1. PICK step \in {"reserve", "insert", "sign", "done", "denied"} :
        /\ pc' = [pc EXCEPT ![r] = step]
        /\ step = "reserve" => pc[r] = "idle" /\ row' = row /\ capacity' = capacity
        /\ step = "insert" => /\ pc[r] = "reserve" /\ row' = row /\ capacity = None
                              /\ capacity' = r /\ WithinQuota(Counted \union {r})
        /\ step = "sign" => /\ pc[r] = "insert" /\ row' = [row EXCEPT ![r] = "live"]
                            /\ capacity' = None
        /\ step \in {"done", "denied"} => row' = row /\ capacity' = capacity
  BY DEF PrepareStep, MintRecord, CountReservations, CapacityFree, InsertReservation, ReturnForm,
         Goto, rowVars
<1>2. /\ pc'[r] = step
      /\ \A q \in Records \ {r} : pc'[q] = pc[q]
  BY <1>1, OneMoves DEF Steps
<1>3. /\ \A q \in Records \ {r} : row'[q] = row[q]
      /\ row'[r] = IF step = "sign" THEN "live" ELSE row[r]
  BY <1>1 DEF TypeOK
<1>4. Counted' = IF step = "sign" THEN Counted \union {r} ELSE Counted
  BY <1>3 DEF Counted
<1>5. QuotaHolds'
  BY <1>1, <1>4 DEF RowsKept, QuotaHolds, Prepared
<1>6. Prepared'
  <2>1. ASSUME NEW q \in Records
        PROVE  /\ pc'[q] \in {"idle", "reserve", "insert"} => row'[q] = "absent"
               /\ row'[q] = "absent" => version'[q] = 0 /\ age'[q] = Open
    BY <1>0, <1>1, <1>2, <1>3 DEF RowsKept, Prepared
  <2>2. ASSUME NEW q \in Records, pc'[q] = "insert"
        PROVE  capacity' = q /\ WithinQuota(Counted' \union {q})
    <3>1. CASE q = r
      BY <1>1, <1>2, <1>4, <2>2, <3>1
    <3>2. CASE q # r
      <4>1. capacity = q /\ WithinQuota(Counted \union {q}) /\ q # None
        BY <1>2, <2>2, <3>2, EvidenceDirectAssumption DEF RowsKept, Prepared
      <4>2. pc[r] = "insert" => capacity = r
        BY DEF RowsKept, Prepared
      <4>3. step \notin {"insert", "sign"}
        BY <1>1, <3>2, <4>1, <4>2
      <4> QED
        BY <1>1, <1>4, <4>1, <4>3
    <3> QED
      BY <3>1, <3>2
  <2> QED
    BY <2>1, <2>2 DEF Prepared
<1>7. Cleaning'
  <2>1. \A q \in Records : Eligible(q) => Eligible(q)'
    BY <1>0, <1>3 DEF Eligible
  <2>2. \A k \in Cleaners : held[k] \subseteq Records
    BY DEF TypeOK
  <2> QED
    BY <1>0, <2>1, <2>2 DEF RowsKept, Cleaning
<1> QED
  BY <1>5, <1>6, <1>7 DEF RowsKept

LEMMA RowsCall ==
  ASSUME TypeOK, RowsKept, NEW c \in Calls, CompleteStep(c) \/ DownloadStep(c)
  PROVE  RowsKept'
<1>1. /\ row' = row /\ age' = age /\ capacity' = capacity /\ UNCHANGED cleanVars
      /\ \E s \in Steps : pc' = [pc EXCEPT ![c] = s]
  BY DEF CompleteStep, FindForComplete, VerifyUpload, RecheckUpload, Finalize, ConfirmComplete,
         DownloadStep, FindForDownload, ReturnUrl, Deny, Goto, Steps, rowVars
<1>2. \A r \in Records : pc'[r] = pc[r]
  BY <1>1, OneMoves, Kinds
<1>3. \A r \in Records : version'[r] = version[r] \/ (row[r] = "live" /\ ~Locked(r))
  <2>1. CASE Finalize(c)
    BY <2>1 DEF Finalize, Finalizable, TypeOK
  <2>2. CASE ~Finalize(c)
    BY <2>2 DEF CompleteStep, FindForComplete, VerifyUpload, RecheckUpload, ConfirmComplete,
                DownloadStep, FindForDownload, ReturnUrl, rowVars
  <2> QED
    BY <2>1, <2>2
<1> QED
  BY <1>1, <1>2, <1>3, RowsFrame

LEMMA RowsCrash ==
  ASSUME TypeOK, RowsKept, NEW c \in Records \union Calls, CrashCall(c)
  PROVE  RowsKept'
<1>0. /\ row' = row /\ version' = version /\ age' = age /\ UNCHANGED cleanVars
      /\ pc[c] \notin {"idle", "done", "denied"} /\ pc' = [pc EXCEPT ![c] = "denied"]
      /\ capacity' = IF capacity = c THEN None ELSE capacity
  BY DEF CrashCall, Goto, rowVars
<1>1. /\ pc'[c] = "denied"
      /\ \A d \in Records \union Calls : d # c => pc'[d] = pc[d]
  BY <1>0, OneMoves DEF Steps
<1>2. Counted' = Counted
  BY <1>0 DEF Counted
<1>3. QuotaHolds'
  BY <1>2 DEF RowsKept, QuotaHolds
<1>4. Prepared'
  BY <1>0, <1>1, <1>2 DEF RowsKept, Prepared
<1>5. Cleaning'
  BY <1>0 DEF RowsKept, Cleaning, Eligible, cleanVars
<1> QED
  BY <1>3, <1>4, <1>5 DEF RowsKept

\* A cleanup's step that writes no row.
LEMMA RowsCleanFrame ==
  ASSUME RowsKept, row' = row, version' = version, age' = age, pc' = pc, capacity' = capacity,
         Cleaning'
  PROVE  RowsKept'
<1>1. Counted' = Counted
  BY DEF Counted
<1> QED
  BY <1>1 DEF RowsKept, QuotaHolds, Prepared

LEMMA RowsSelect ==
  ASSUME TypeOK, RowsKept, NEW k \in Cleaners, SelectRows(k)
  PROVE  RowsKept'
<1>0. /\ row' = row /\ version' = version /\ age' = age /\ pc' = pc /\ capacity' = capacity
      /\ listing' = listing
  BY DEF SelectRows, rowVars, callVars
<1> DEFINE R == Earliest({r \in Records : Eligible(r) /\ ~Locked(r)})
<1>1. /\ held' = [held EXCEPT ![k] = R]
      /\ todo' = [todo EXCEPT ![k] = R]
      /\ clean' = [clean EXCEPT ![k] = "list"]
  BY DEF SelectRows
<1>2. R \subseteq {r \in Records : Eligible(r) /\ ~Locked(r)}
  BY EarliestWithin
<1> HIDE DEF R
<1>3. /\ held'[k] = R /\ todo'[k] = R /\ clean'[k] = "list"
      /\ \A j \in Cleaners \ {k} :
           held'[j] = held[j] /\ todo'[j] = todo[j] /\ clean'[j] = clean[j]
  BY <1>1 DEF TypeOK
<1>4. \A r \in Records : Eligible(r)' <=> Eligible(r)
  BY <1>0 DEF Eligible
<1>5. \A j \in Cleaners \ {k} : R \intersect held[j] = {}
  BY <1>2 DEF Locked
<1>6. ASSUME NEW j \in Cleaners
      PROVE  /\ todo'[j] \subseteq held'[j]
             /\ \A r \in held'[j] : Eligible(r)'
             /\ \A i \in Cleaners \ {j} : held'[j] \intersect held'[i] = {}
             /\ clean'[j] \in Records => clean'[j] \in todo'[j] /\ listing'[j] \in SUBSET Nat
  <2>1. CASE j = k
    BY <1>2, <1>3, <1>4, <1>5, <2>1, Kinds
  <2>2. CASE j # k
    <3>1. /\ todo[j] \subseteq held[j] /\ held[j] \subseteq Records
          /\ \A r \in held[j] : Eligible(r)
          /\ \A i \in Cleaners \ {j} : held[j] \intersect held[i] = {}
          /\ clean[j] \in Records => clean[j] \in todo[j] /\ listing[j] \in SUBSET Nat
      BY DEF RowsKept, Cleaning, TypeOK
    <3> QED
      BY <1>0, <1>3, <1>4, <1>5, <2>2, <3>1
  <2> QED
    BY <2>1, <2>2
<1>7. Cleaning'
  BY <1>6 DEF Cleaning
<1> QED
  BY <1>0, <1>7, RowsCleanFrame

LEMMA RowsList ==
  ASSUME TypeOK, RowsKept, NEW k \in Cleaners, ListVersions(k)
  PROVE  RowsKept'
<1>0. /\ row' = row /\ version' = version /\ age' = age /\ pc' = pc /\ capacity' = capacity
      /\ held' = held /\ todo' = todo
  BY DEF ListVersions, rowVars, callVars
<1>1. PICK r \in todo[k] :
        clean' = [clean EXCEPT ![k] = r] /\ listing' = [listing EXCEPT ![k] = bucket[r]]
  BY DEF ListVersions
<1>2. bucket[r] \in SUBSET Nat
  BY DEF TypeOK
<1>3. /\ clean'[k] = r /\ listing'[k] = bucket[r]
      /\ \A j \in Cleaners \ {k} : clean'[j] = clean[j] /\ listing'[j] = listing[j]
  BY <1>1 DEF TypeOK
<1>4. Cleaning'
  BY <1>0, <1>2, <1>3 DEF RowsKept, Cleaning, Eligible
<1> QED
  BY <1>0, <1>4, RowsCleanFrame

LEMMA RowsDelete ==
  ASSUME TypeOK, RowsKept, NEW k \in Cleaners, DeleteVersion(k)
  PROVE  RowsKept'
<1>0. /\ row' = row /\ version' = version /\ age' = age /\ pc' = pc /\ capacity' = capacity
      /\ held' = held /\ todo' = todo /\ clean' = clean
  BY DEF DeleteVersion, rowVars, callVars
<1>1. PICK v \in listing[k] : listing' = [listing EXCEPT ![k] = listing[k] \ {v}]
  BY DEF DeleteVersion
<1>2. /\ listing'[k] = listing[k] \ {v}
      /\ \A j \in Cleaners \ {k} : listing'[j] = listing[j]
  BY <1>1 DEF TypeOK
<1>3. Cleaning'
  BY <1>0, <1>2 DEF RowsKept, Cleaning, Eligible
<1> QED
  BY <1>0, <1>3, RowsCleanFrame

LEMMA RowsMark ==
  ASSUME TypeOK, RowsKept, NEW k \in Cleaners, MarkPurged(k)
  PROVE  RowsKept'
<1>0. /\ row' = row /\ version' = version /\ age' = age /\ pc' = pc /\ capacity' = capacity
      /\ held' = held
      /\ todo' = [todo EXCEPT ![k] = todo[k] \ {clean[k]}]
      /\ listing' = [listing EXCEPT ![k] = None]
      /\ clean' = [clean EXCEPT ![k] = "list"]
  BY DEF MarkPurged, rowVars, callVars
<1>1. /\ todo'[k] \subseteq todo[k] /\ clean'[k] = "list"
      /\ \A j \in Cleaners \ {k} :
           todo'[j] = todo[j] /\ listing'[j] = listing[j] /\ clean'[j] = clean[j]
  BY <1>0 DEF TypeOK
<1>2. Cleaning'
  BY <1>0, <1>1, Kinds DEF RowsKept, Cleaning, Eligible
<1> QED
  BY <1>0, <1>2, RowsCleanFrame

LEMMA RowsRollBack ==
  ASSUME TypeOK, RowsKept, NEW k \in Cleaners, RollBack(k)
  PROVE  RowsKept'
<1>0. /\ row' = row /\ version' = version /\ age' = age /\ pc' = pc /\ capacity' = capacity
      /\ todo' = [todo EXCEPT ![k] = {}] /\ held' = [held EXCEPT ![k] = {}]
      /\ listing' = [listing EXCEPT ![k] = None]
      /\ clean' = [clean EXCEPT ![k] = "idle"]
  BY DEF RollBack, rowVars, callVars
<1>1. /\ todo'[k] = {} /\ held'[k] = {} /\ clean'[k] = "idle"
      /\ \A j \in Cleaners \ {k} : /\ todo'[j] = todo[j] /\ held'[j] = held[j]
                                   /\ listing'[j] = listing[j] /\ clean'[j] = clean[j]
  BY <1>0 DEF TypeOK
<1>2. Cleaning'
  BY <1>0, <1>1, Kinds DEF RowsKept, Cleaning, Eligible
<1> QED
  BY <1>0, <1>2, RowsCleanFrame

\* The rows the cleanup held, and tombstones of others.
LEMMA RowsCommit ==
  ASSUME TypeOK, RowsKept, NEW k \in Cleaners, CommitCleanup(k)
  PROVE  /\ RowsKept'
         /\ \A r \in held[k] : row'[r] \in {"purged", "pruned"}
         /\ \A r \in Records \ held[k] :
              row'[r] = row[r] \/ (row[r] = "purged" /\ row'[r] = "pruned")
<1>0. /\ version' = version /\ age' = age /\ pc' = pc /\ capacity' = capacity
      /\ listing' = listing /\ todo' = todo /\ todo[k] = {}
      /\ held' = [held EXCEPT ![k] = {}]
      /\ clean' = [clean EXCEPT ![k] = "idle"]
  BY DEF CommitCleanup, callVars
<1> DEFINE P == Earliest(Prunable(k))
<1>1. row' = [r \in Records |-> IF r \in P THEN "pruned"
                                ELSE IF r \in held[k] THEN "purged" ELSE row[r]]
  BY DEF CommitCleanup
<1>2. \A r \in P : row[r] = "purged" \/ r \in held[k]
  BY EarliestWithin DEF Prunable
<1> HIDE DEF P
<1>3. \A r \in held[k] : r \in Records /\ row[r] = "live"
  BY DEF RowsKept, Cleaning, Eligible, TypeOK
<1>4. /\ \A r \in held[k] : row'[r] \in {"purged", "pruned"}
      /\ \A r \in Records \ held[k] :
           row'[r] = row[r] \/ (row[r] = "purged" /\ row'[r] = "pruned")
  BY <1>1, <1>2, <1>3
<1>5. /\ held'[k] = {} /\ clean'[k] = "idle"
      /\ \A j \in Cleaners \ {k} : held'[j] = held[j] /\ clean'[j] = clean[j]
  BY <1>0 DEF TypeOK
<1>6. Counted' \subseteq Counted /\ Counted \subseteq Records
  BY <1>4 DEF Counted
<1>7. \A r \in Records : WithinQuota(Counted \union {r}) => WithinQuota(Counted' \union {r})
  BY <1>6, QuotaMonotone
<1>8. QuotaHolds'
  BY <1>6, QuotaMonotone DEF RowsKept, QuotaHolds
<1>9. \A r \in Records : row'[r] = "absent" <=> row[r] = "absent"
  BY <1>3, <1>4
<1>10. Prepared'
  BY <1>0, <1>7, <1>9 DEF RowsKept, Prepared
<1>11. ASSUME NEW j \in Cleaners
       PROVE  /\ todo'[j] \subseteq held'[j]
              /\ \A r \in held'[j] : Eligible(r)'
              /\ \A i \in Cleaners \ {j} : held'[j] \intersect held'[i] = {}
              /\ clean'[j] \in Records => clean'[j] \in todo'[j] /\ listing'[j] \in SUBSET Nat
  <2>1. CASE j = k
    BY <1>0, <1>5, <2>1, Kinds
  <2>2. CASE j # k
    <3>1. /\ todo[j] \subseteq held[j] /\ held[j] \subseteq Records
          /\ \A r \in held[j] : Eligible(r)
          /\ \A i \in Cleaners \ {j} : held[j] \intersect held[i] = {}
          /\ clean[j] \in Records => clean[j] \in todo[j] /\ listing[j] \in SUBSET Nat
      BY DEF RowsKept, Cleaning, TypeOK
    <3>2. \A r \in held[j] : row[r] = "live" /\ r \notin held[k]
      BY <2>2, <3>1 DEF Eligible
    <3>3. \A r \in held[j] : row'[r] = "live"
      BY <1>4, <3>1, <3>2
    <3>4. \A r \in held[j] : Eligible(r)'
      BY <1>0, <3>1, <3>3 DEF Eligible
    <3> QED
      BY <1>0, <1>5, <2>2, <3>1, <3>4
  <2> QED
    BY <2>1, <2>2
<1>12. Cleaning'
  BY <1>11 DEF Cleaning
<1> QED
  BY <1>4, <1>8, <1>10, <1>12 DEF RowsKept

LEMMA RowsOperation ==
  ASSUME TypeOK, RowsKept, Operation
  PROVE  RowsKept'
<1>1. ASSUME NEW r \in Records, Upload(r)
      PROVE  RowsKept'
  BY <1>1, RowsFrame DEF Upload, rowVars, callVars
<1>2. ASSUME NEW k \in Cleaners, CleanupStep(k) \/ AbortCleanup(k)
      PROVE  RowsKept'
  BY <1>2, RowsSelect, RowsList, RowsDelete, RowsMark, RowsCommit, RowsRollBack
  DEF CleanupStep, RefuseBatch, AbortCleanup
<1>3. Completes \subseteq Calls /\ Downloads \subseteq Calls
  BY DEF Calls
<1> QED
  BY <1>1, <1>2, <1>3, RowsPrepare, RowsCall, RowsCrash DEF Operation

\* Time passes for rows that exist; none becomes less eligible.
LEMMA RowsTick ==
  ASSUME TypeOK, RowsKept, NEW r \in Records, Tick(r)
  PROVE  RowsKept'
<1>0. /\ row' = row /\ version' = version /\ pc' = pc /\ capacity' = capacity
      /\ UNCHANGED cleanVars /\ row[r] # "absent"
  BY DEF Tick, rowVars, callVars
<1>1. \A q \in Records : age'[q] >= age[q] /\ (q # r => age'[q] = age[q])
  BY DEF Tick, TypeOK, Phases, Open, Retired
<1>2. \A q \in Records : age[q] \in Nat /\ age'[q] \in Nat
  BY DEF Tick, TypeOK, Phases, Open, Retired
<1>3. \A q \in Records : Eligible(q) => Eligible(q)'
  BY <1>0, <1>1, <1>2 DEF Eligible, Stale, Expired
<1>4. Cleaning'
  <2>1. \A k \in Cleaners : held[k] \subseteq Records
    BY DEF TypeOK
  <2> QED
    BY <1>0, <1>3, <2>1 DEF RowsKept, Cleaning, cleanVars
<1>5. Counted' = Counted
  BY <1>0 DEF Counted
<1>6. QuotaHolds' /\ Prepared'
  BY <1>0, <1>1, <1>5 DEF RowsKept, QuotaHolds, Prepared
<1> QED
  BY <1>4, <1>6 DEF RowsKept

(***************************************************************************)
(* Versions: what lies under the keys of records.                          *)
(***************************************************************************)

\* Versions go away, and are told apart by their tags.
LEMMA StaysRestored ==
  ASSUME NEW r, bucket'[r] \subseteq bucket[r], tags[r] \subseteq tags'[r], RestoresOnly(r)
  PROVE  RestoresOnly(r)'
  BY DEF RestoresOnly

\* A step that verifies no absence, and gives no row up.
LEMMA CleanedFrame ==
  ASSUME TypeOK, Cleaned,
         \A r \in Records : row'[r] \in {"purged", "pruned"} => row[r] \in {"purged", "pruned"},
         \A r \in Records : age[r] >= Stale => age'[r] >= Stale,
         \A k \in Cleaners : held'[k] \ todo'[k] \subseteq held[k] \ todo[k],
         \A r \in Records : RestoresOnly(r) => RestoresOnly(r)'
  PROVE  Cleaned'
<1>1. \A k \in Cleaners : held[k] \subseteq Records
  BY DEF TypeOK
<1> QED
  BY <1>1 DEF Cleaned

LEMMA VersionsOfCalls ==
  ASSUME TypeOK, Cleaned, Numbered, tags' = tags,
         \/ \E r \in Records : PrepareStep(r)
         \/ \E c \in Calls : CompleteStep(c) \/ DownloadStep(c)
         \/ \E c \in Records \union Calls : CrashCall(c)
  PROVE  Numbered' /\ Cleaned'
<1>1. /\ age' = age /\ bucket' = bucket /\ minted' = minted /\ held' = held /\ todo' = todo
      /\ row' = row \/ \E r \in Records : row' = [row EXCEPT ![r] = "live"]
  BY DEF PrepareStep, MintRecord, CountReservations, InsertReservation, ReturnForm,
         CompleteStep, FindForComplete, VerifyUpload, RecheckUpload, Finalize, ConfirmComplete,
         DownloadStep, FindForDownload, ReturnUrl, CrashCall, rowVars, s3Vars, cleanVars
<1>2. Numbered'
  BY <1>1 DEF Numbered
<1>3. \A r \in Records : row'[r] \in {"purged", "pruned"} => row[r] \in {"purged", "pruned"}
  BY <1>1 DEF TypeOK
<1>4. \A r \in Records : RestoresOnly(r) => RestoresOnly(r)'
  BY <1>1 DEF RestoresOnly
<1> QED
  BY <1>1, <1>2, <1>3, <1>4, CleanedFrame

\* An upload comes before any cleanup.
LEMMA VersionsOfUpload ==
  ASSUME TypeOK, RowsKept, Cleaned, Numbered, tags' = tags, NEW r \in Records, Upload(r)
  PROVE  Numbered' /\ Cleaned'
<1>0. /\ row' = row /\ age' = age /\ held' = held /\ todo' = todo
      /\ minted' = [minted EXCEPT ![r] = minted[r] + 1]
      /\ bucket' = [bucket EXCEPT ![r] = bucket[r] \union {minted[r] + 1}]
      /\ age[r] <= Over
  BY DEF Upload, rowVars, cleanVars
<1>1. Numbered'
  <2>1. /\ minted'[r] = minted[r] + 1 /\ minted[r] \in Nat
        /\ bucket'[r] = bucket[r] \union {minted[r] + 1}
        /\ \A q \in Records \ {r} : minted'[q] = minted[q] /\ bucket'[q] = bucket[q]
    BY <1>0 DEF TypeOK
  <2> QED
    BY <2>1 DEF Numbered
<1>2. ~(age[r] >= Stale)
  BY <1>0 DEF TypeOK, Phases, Open, Retired, Over, Stale
<1>3. \A q \in Records \ {r} : RestoresOnly(q) => RestoresOnly(q)'
  BY <1>0 DEF TypeOK, RestoresOnly
<1>4. \A k \in Cleaners : r \notin held[k]
  <2>1. Eligible(r) => age[r] >= Stale
    BY DEF Eligible, TypeOK, Phases, Open, Retired, Stale, Expired
  <2> QED
    BY <1>2, <2>1 DEF RowsKept, Cleaning
<1>5. \A k \in Cleaners : held[k] \subseteq Records
  BY DEF TypeOK
<1>6. Cleaned'
  BY <1>0, <1>2, <1>3, <1>4, <1>5 DEF Cleaned
<1> QED
  BY <1>1, <1>6

LEMMA VersionsOfCleanup ==
  ASSUME TypeOK, RowsKept, Cleaned, Numbered, tags' = tags,
         NEW k \in Cleaners, CleanupStep(k) \/ AbortCleanup(k)
  PROVE  Numbered' /\ Cleaned'
<1>0. age' = age /\ minted' = minted
  BY DEF CleanupStep, SelectRows, ListVersions, DeleteVersion, MarkPurged, CommitCleanup,
         RefuseBatch, AbortCleanup, RollBack, s3Vars
<1>1. \A r \in Records : bucket'[r] \subseteq bucket[r]
  <2>1. CASE DeleteVersion(k)
    <3>1. PICK v \in listing[k] : bucket' = [bucket EXCEPT ![clean[k]] = bucket[clean[k]] \ {v}]
      BY <2>1 DEF DeleteVersion
    <3> QED
      BY <3>1 DEF TypeOK
  <2>2. CASE ~DeleteVersion(k)
    BY <2>2 DEF CleanupStep, SelectRows, ListVersions, MarkPurged, CommitCleanup,
                RefuseBatch, AbortCleanup, RollBack, s3Vars
  <2> QED
    BY <2>1, <2>2
<1>2. Numbered'
  BY <1>0, <1>1 DEF Numbered
<1>3. \A r \in Records : RestoresOnly(r) => RestoresOnly(r)'
  BY <1>1, StaysRestored
<1>4. CASE SelectRows(k) \/ RefuseBatch(k) \/ AbortCleanup(k)
  <2>1. row' = row
    BY <1>4 DEF SelectRows, RefuseBatch, AbortCleanup, RollBack, rowVars
  <2>2. \E R \in SUBSET Records :
          held' = [held EXCEPT ![k] = R] /\ todo' = [todo EXCEPT ![k] = R]
    <3>1. Earliest({r \in Records : Eligible(r) /\ ~Locked(r)}) \subseteq Records
      BY EarliestWithin
    <3> QED
      BY <1>4, <3>1 DEF SelectRows, RefuseBatch, AbortCleanup, RollBack
  <2>3. \A j \in Cleaners : held'[j] \ todo'[j] \subseteq held[j] \ todo[j]
    BY <2>2 DEF TypeOK
  <2> QED
    BY <1>0, <1>2, <1>3, <2>1, <2>3, CleanedFrame
<1>5. CASE ListVersions(k) \/ DeleteVersion(k)
  <2>1. row' = row /\ held' = held /\ todo' = todo
    BY <1>5 DEF ListVersions, DeleteVersion, rowVars
  <2> QED
    BY <1>0, <1>2, <1>3, <2>1, CleanedFrame
<1>6. CASE MarkPurged(k)
  <2>1. /\ row' = row /\ held' = held
        /\ todo' = [todo EXCEPT ![k] = todo[k] \ {clean[k]}]
        /\ bucket[clean[k]] = {} /\ clean[k] \in Records
    BY <1>6 DEF MarkPurged, VerifiedAbsent, rowVars
  <2>2. RestoresOnly(clean[k])
    BY <2>1 DEF RestoresOnly
  <2>3. ASSUME NEW j \in Cleaners, NEW r \in held'[j] \ todo'[j]
        PROVE  RestoresOnly(r)'
    <3>1. r \in Records /\ (r \in held[j] \ todo[j] \/ r = clean[k])
      BY <2>1, <2>3 DEF TypeOK
    <3> QED
      BY <1>3, <2>2, <3>1 DEF Cleaned
  <2> QED
    BY <1>0, <1>2, <1>3, <2>1, <2>3 DEF Cleaned
<1>7. CASE CommitCleanup(k)
  <2>1. /\ held' = [held EXCEPT ![k] = {}] /\ todo' = todo /\ todo[k] = {}
    BY <1>7 DEF CommitCleanup
  <2>2. \A j \in Cleaners : held'[j] \ todo'[j] \subseteq held[j] \ todo[j]
    BY <2>1 DEF TypeOK
  <2>3. \A r \in held[k] : r \in Records /\ age[r] >= Stale /\ RestoresOnly(r)
    <3>1. \A r \in held[k] : r \in Records /\ Eligible(r)
      BY DEF RowsKept, Cleaning, TypeOK
    <3>2. \A r \in Records : Eligible(r) => age[r] >= Stale
      BY DEF Eligible, TypeOK, Phases, Open, Retired, Stale, Expired
    <3> QED
      BY <2>1, <3>1, <3>2 DEF Cleaned
  <2>4. \A r \in Records : row'[r] \in {"purged", "pruned"} =>
          r \in held[k] \/ row[r] \in {"purged", "pruned"}
    BY <1>7, RowsCommit
  <2>5. \A r \in Records : row'[r] \in {"purged", "pruned"} => age[r] >= Stale /\ RestoresOnly(r)
    BY <2>3, <2>4 DEF Cleaned
  <2>6. \A j \in Cleaners : held[j] \subseteq Records
    BY DEF TypeOK
  <2> QED
    BY <1>0, <1>2, <1>3, <2>2, <2>5, <2>6 DEF Cleaned
<1> QED
  BY <1>4, <1>5, <1>6, <1>7 DEF CleanupStep

LEMMA VersionsOfOperation ==
  ASSUME TypeOK, RowsKept, Cleaned, Numbered, tags' = tags, Operation
  PROVE  Numbered' /\ Cleaned'
<1>1. Completes \subseteq Calls /\ Downloads \subseteq Calls
  BY DEF Calls
<1> QED
  BY <1>1, VersionsOfCalls, VersionsOfUpload, VersionsOfCleanup DEF Operation

(***************************************************************************)
(* Types of the backup's own steps.                                        *)
(***************************************************************************)

LEMMA Operators ==
  /\ \A q \in Recoveries : RecoveryOf[q] \in Records /\ q \notin Passes
  /\ \A p \in Passes : p # None /\ p \notin Recoveries
  BY EvidenceBackupAssumption

\* The pass goes on with another candidate.
LEMMA NextItemTypes ==
  ASSUME PassTypes, CopyHeld, NEW p \in Passes, NextItem(p), UNCHANGED session
  PROVE  PassTypes' /\ CopyHeld'
  BY DEF PassTypes, CopyHeld, NextItem

LEMMA UseExistingTypes ==
  ASSUME CopyTypes, PassTypes, CopyHeld, NEW p \in Passes, current[p] \in Records,
         UseExisting(p), UNCHANGED session
  PROVE  PassTypes' /\ CopyHeld'
<1>1. ASSUME NEW m \in Existing(p), copy' = [copy EXCEPT ![p] = m],
             pass' = [pass EXCEPT ![p] = "readback"], UNCHANGED <<queue, current, source>>
      PROVE  PassTypes' /\ CopyHeld'
  <2>1. m \in Copy
    BY <1>1 DEF Existing, CopyTypes
  <2> QED
    BY <1>1, <2>1 DEF PassTypes, CopyHeld
<1>2. CASE NextItem(p)
  BY <1>2, NextItemTypes
<1> QED
  BY <1>1, <1>2 DEF UseExisting

\* What a pass leaves alone.
LEMMA PassKeeps ==
  ASSUME NEW p \in Passes, PassStep(p)
  PROVE  /\ UNCHANGED vars /\ UNCHANGED <<copyVars, tags>> /\ UNCHANGED recoverVars
         /\ UNCHANGED retireVars /\ losses' = losses /\ restored' = restored
  BY DEF PassStep, StartPass, ReserveIntent, CheckCopy, SendCopy, RecheckCopy, ReadBack,
         VerifyIntent, EndPass, GiveUpCopy, ledgerVars

LEMMA PassStepTypes ==
  ASSUME BackupTypeOK, PassesKnow, NEW p \in Passes, PassStep(p)
  PROVE  BackupTypeOK'
<1>0. /\ TypeOK /\ LedgerTypes /\ CopyTypes /\ puts \subseteq CopyPuts \union RestorePuts
      /\ PassTypes /\ CopyHeld /\ RecoveryTypes /\ RetireTypes /\ losses \in Nat
  BY TypeGroups
<1>1. TypeOK' /\ CopyTypes' /\ RecoveryTypes' /\ RetireTypes' /\ losses' \in Nat
  BY <1>0, PassKeeps, DirectFrame, CopyFrame, RecoveryFrame, RetireFrame
<1>2. pass[p] \notin {"idle", "next"} => current[p] \in Records
  BY DEF PassesKnow, PassKnows
<1>3. LedgerTypes'
  <2>1. CASE ReserveIntent(p)
    BY <1>0, <2>1 DEF ReserveIntent, LedgerTypes, TypeOK
  <2>2. CASE VerifyIntent(p)
    BY <1>0, <2>2 DEF VerifyIntent, LedgerTypes, CopyHeld
  <2>3. CASE ~ReserveIntent(p) /\ ~VerifyIntent(p)
    <3>1. UNCHANGED ledgerVars
      BY <2>3 DEF PassStep, StartPass, CheckCopy, SendCopy, RecheckCopy, ReadBack, EndPass,
                  GiveUpCopy
    <3> QED
      BY <1>0, <3>1, LedgerFrame
  <2> QED
    BY <2>1, <2>2, <2>3
<1>4. puts' \subseteq CopyPuts \union RestorePuts
  <2>1. CASE SendCopy(p)
    <3>1. Put(p, current[p], "copy", source[p]) \in CopyPuts
      BY <1>0, <1>2, <2>1 DEF SendCopy, Put, CopyPuts, PassTypes
    <3> QED
      BY <1>0, <2>1, <3>1 DEF SendCopy
  <2>2. CASE ~SendCopy(p)
    <3>1. puts' = puts
      BY <2>2 DEF PassStep, StartPass, ReserveIntent, CheckCopy, RecheckCopy, ReadBack,
                  VerifyIntent, EndPass, GiveUpCopy
    <3> QED
      BY <1>0, <3>1
  <2> QED
    BY <2>1, <2>2
<1>5. PassTypes' /\ CopyHeld'
  <2>1. CASE StartPass(p)
    <3>1. \A R \in Batches(Candidates) : R \subseteq Records
      BY BatchWithin DEF Candidates
    <3> QED
      BY <1>0, <2>1, <3>1 DEF StartPass, PassTypes, CopyHeld
  <2>2. CASE ReserveIntent(p)
    <3>1. /\ session' = session /\ copy' = copy
          /\ pass' \in {pass, [pass EXCEPT ![p] = "check"]}
          /\ \E r \in Records :
               /\ queue' \in {queue, [queue EXCEPT ![p] = queue[p] \ {r}]}
               /\ current' \in {current, [current EXCEPT ![p] = r]}
               /\ source' \in {source, [source EXCEPT ![p] = version[r]]}
      BY <1>0, <2>2 DEF ReserveIntent, PassTypes
    <3>2. PassTypes'
      <4>1. PICK r \in Records :
              /\ queue' \in {queue, [queue EXCEPT ![p] = queue[p] \ {r}]}
              /\ current' \in {current, [current EXCEPT ![p] = r]}
              /\ source' \in {source, [source EXCEPT ![p] = version[r]]}
        BY <3>1
      <4>2. version[r] \in Nat
        BY <1>0 DEF TypeOK
      <4>3. queue' \in [Passes -> SUBSET Records]
        BY <1>0, <4>1 DEF PassTypes
      <4>4. current' \in [Passes -> Records \union {None}] /\ source' \in [Passes -> Nat]
        BY <1>0, <4>1, <4>2 DEF PassTypes
      <4> QED
        BY <1>0, <3>1, <4>3, <4>4 DEF PassTypes
    <3> QED
      BY <1>0, <3>1, <3>2 DEF CopyHeld
  <2>3. CASE CheckCopy(p)
    <3>1. CASE copies[current[p]] = {}
      BY <1>0, <2>3, <3>1 DEF CheckCopy, PassTypes, CopyHeld
    <3>2. CASE copies[current[p]] # {}
      BY <1>0, <1>2, <2>3, <3>2, UseExistingTypes DEF CheckCopy
    <3> QED
      BY <3>1, <3>2
  <2>4. CASE SendCopy(p)
    <3>1. CASE pass' = [pass EXCEPT ![p] = "wait"] /\ UNCHANGED <<queue, current, source, copy>>
      BY <1>0, <2>4, <3>1 DEF SendCopy, PassTypes, CopyHeld
    <3>2. CASE NextItem(p)
      BY <1>0, <2>4, <3>2, NextItemTypes DEF SendCopy
    <3> QED
      BY <2>4, <3>1, <3>2 DEF SendCopy
  <2>5. CASE RecheckCopy(p)
    BY <1>0, <1>2, <2>5, UseExistingTypes DEF RecheckCopy
  <2>6. CASE ReadBack(p)
    <3>1. CASE pass' = [pass EXCEPT ![p] = "verify"] /\ UNCHANGED <<queue, current, source, copy>>
      BY <1>0, <2>6, <3>1 DEF ReadBack, PassTypes, CopyHeld
    <3>2. CASE NextItem(p)
      BY <1>0, <2>6, <3>2, NextItemTypes DEF ReadBack
    <3> QED
      BY <2>6, <3>1, <3>2 DEF ReadBack
  <2>7. CASE VerifyIntent(p) \/ GiveUpCopy(p)
    BY <1>0, <2>7, NextItemTypes DEF VerifyIntent, GiveUpCopy
  <2>8. CASE EndPass(p)
    BY <1>0, <2>8 DEF EndPass, Unlock, PassTypes, CopyHeld
  <2> QED
    BY <2>1, <2>2, <2>3, <2>4, <2>5, <2>6, <2>7, <2>8 DEF PassStep
<1> QED
  BY <1>1, <1>3, <1>4, <1>5, TypeGroupsNext

LEMMA LoseSessionTypes ==
  ASSUME BackupTypeOK, NEW p \in Passes, LoseSession(p)
  PROVE  BackupTypeOK'
<1>0. /\ TypeOK /\ LedgerTypes /\ CopyTypes /\ puts \subseteq CopyPuts \union RestorePuts
      /\ PassTypes /\ CopyHeld /\ RecoveryTypes /\ RetireTypes /\ losses \in Nat
  BY TypeGroups
<1>1. /\ crashes' = crashes + 1 /\ UNCHANGED <<rowVars, s3Vars, callVars, cleanVars, age>>
      /\ UNCHANGED ledgerVars /\ UNCHANGED <<copyVars, tags>> /\ puts' = puts
      /\ UNCHANGED recoverVars /\ UNCHANGED retireVars /\ losses' = losses
  BY DEF LoseSession
<1>2. TypeOK'
  BY <1>0, <1>1 DEF TypeOK, rowVars, s3Vars, callVars, cleanVars
<1>3. LedgerTypes' /\ CopyTypes' /\ RecoveryTypes' /\ RetireTypes'
  BY <1>0, <1>1, LedgerFrame, CopyFrame, RecoveryFrame, RetireFrame
<1>4. PassTypes' /\ CopyHeld'
  BY <1>0 DEF LoseSession, PassTypes, CopyHeld
<1> QED
  BY <1>0, <1>1, <1>2, <1>3, <1>4, TypeGroupsNext

\* The recovery ends without a result.
LEMMA QuitTypes ==
  ASSUME CopyHeld, RecoveryTypes, NEW q \in Recoveries, Quit(q)
  PROVE  CopyHeld' /\ RecoveryTypes'
  BY DEF CopyHeld, RecoveryTypes, Quit

LEMMA UseRestoredTypes ==
  ASSUME CopyTypes, CopyHeld, RecoveryTypes, NEW q \in Recoveries, UseRestored(q)
  PROVE  CopyHeld' /\ RecoveryTypes'
<1> DEFINE latest == Max(bucket[RecoveryOf[q]])
<1>1. ASSUME <<latest, copy[q]>> \in tags[RecoveryOf[q]],
             target' = [target EXCEPT ![q] = latest],
             recovery' = [recovery EXCEPT ![q] = "commit"], copy' = copy
      PROVE  CopyHeld' /\ RecoveryTypes'
  <2>1. latest \in Nat
    BY <1>1, Operators DEF CopyTypes
  <2> HIDE DEF latest
  <2> QED
    BY <1>1, <2>1 DEF CopyHeld, RecoveryTypes
<1>2. CASE Quit(q)
  BY <1>2, QuitTypes
<1> QED
  BY <1>1, <1>2 DEF UseRestored

LEMMA RecoveryStepTypes ==
  ASSUME BackupTypeOK, RecoveriesKnow, NEW q \in Recoveries, RecoveryStep(q)
  PROVE  BackupTypeOK'
<1> DEFINE r == RecoveryOf[q]
<1>0. /\ TypeOK /\ LedgerTypes /\ CopyTypes /\ puts \subseteq CopyPuts \union RestorePuts
      /\ PassTypes /\ CopyHeld /\ RecoveryTypes /\ RetireTypes /\ losses \in Nat
  BY TypeGroups
<1>1. r \in Records
  BY Operators
<1>2. /\ UNCHANGED <<copyVars, tags>> /\ UNCHANGED passVars /\ UNCHANGED retireVars
      /\ losses' = losses
  BY DEF RecoveryStep, LoadRecovery, CheckRestored, SendRestore, RecheckRestored,
         CommitRestore, AbandonRecovery
<1>3. CopyTypes' /\ PassTypes' /\ RetireTypes' /\ losses' \in Nat
  BY <1>0, <1>2, CopyFrame, PassFrame, RetireFrame
<1>4. TypeOK' /\ LedgerTypes'
  <2>1. CASE CommitRestore(q)
    <3>1. /\ version' = version /\ restored' = restored
          \/ /\ version' = [version EXCEPT ![r] = target[q]]
             /\ restored' = [restored EXCEPT ![r] = target[q]]
      BY <2>1 DEF CommitRestore
    <3>2. version' \in [Records -> Nat] /\ restored' \in [Records -> Nat]
      <4>1. version \in [Records -> Nat] /\ restored \in [Records -> Nat] /\ target[q] \in Nat
        BY <1>0 DEF TypeOK, LedgerTypes, RecoveryTypes
      <4> QED
        BY <3>1, <4>1
    <3>3. /\ UNCHANGED <<row, s3Vars, callVars, cleanVars, age, crashes>>
          /\ UNCHANGED <<ledger, expected, manifest>>
      BY <2>1 DEF CommitRestore
    <3> QED
      BY <1>0, <3>2, <3>3 DEF TypeOK, LedgerTypes, s3Vars, callVars, cleanVars
  <2>2. CASE ~CommitRestore(q)
    <3>1. UNCHANGED vars /\ UNCHANGED ledgerVars
      BY <2>2 DEF RecoveryStep, LoadRecovery, CheckRestored, SendRestore, RecheckRestored,
                  AbandonRecovery
    <3> QED
      BY <1>0, <3>1, DirectFrame, LedgerFrame
  <2> QED
    BY <2>1, <2>2
<1>5. puts' \subseteq CopyPuts \union RestorePuts
  <2>1. CASE SendRestore(q)
    <3>1. recovery[q] = "put"
      BY <2>1 DEF SendRestore
    <3>2. copy[q] \in Copy
      BY <3>1 DEF RecoveriesKnow, RecoveryKnows
    <3>3. Put(q, r, "restore", copy[q]) \in RestorePuts
      BY <1>1, <3>2 DEF Put, RestorePuts
    <3> QED
      BY <1>0, <2>1, <3>3 DEF SendRestore
  <2>2. CASE ~SendRestore(q)
    <3>1. puts' = puts
      BY <2>2 DEF RecoveryStep, LoadRecovery, CheckRestored, RecheckRestored, CommitRestore,
                  AbandonRecovery
    <3> QED
      BY <1>0, <3>1
  <2> QED
    BY <2>1, <2>2
<1>6. CopyHeld' /\ RecoveryTypes'
  <2>1. CASE LoadRecovery(q)
    BY <1>0, <1>1, <2>1 DEF LoadRecovery, CopyHeld, RecoveryTypes, LedgerTypes, recoverVars
  <2>2. CASE CheckRestored(q)
    <3>1. CASE recovery' = [recovery EXCEPT ![q] = "put"] /\ UNCHANGED <<copy, target>>
      BY <1>0, <3>1 DEF CopyHeld, RecoveryTypes
    <3>2. CASE Quit(q) \/ UseRestored(q)
      BY <1>0, <3>2, QuitTypes, UseRestoredTypes
    <3> QED
      BY <2>2, <3>1, <3>2 DEF CheckRestored
  <2>3. CASE SendRestore(q)
    <3>1. CASE recovery' = [recovery EXCEPT ![q] = "wait"] /\ UNCHANGED <<copy, target>>
      BY <1>0, <3>1 DEF CopyHeld, RecoveryTypes
    <3>2. CASE Quit(q)
      BY <1>0, <3>2, QuitTypes
    <3> QED
      BY <2>3, <3>1, <3>2 DEF SendRestore
  <2>4. CASE RecheckRestored(q)
    BY <1>0, <2>4, UseRestoredTypes DEF RecheckRestored
  <2>5. CASE CommitRestore(q)
    <3>1. CASE recovery' = [recovery EXCEPT ![q] = "done"] /\ UNCHANGED <<copy, target>>
      BY <1>0, <3>1 DEF CopyHeld, RecoveryTypes
    <3>2. CASE Quit(q)
      BY <1>0, <3>2, QuitTypes
    <3> QED
      BY <2>5, <3>1, <3>2 DEF CommitRestore
  <2>6. CASE AbandonRecovery(q)
    BY <1>0, <2>6, QuitTypes DEF AbandonRecovery
  <2> QED
    BY <2>1, <2>2, <2>3, <2>4, <2>5, <2>6 DEF RecoveryStep
<1> QED
  BY <1>3, <1>4, <1>5, <1>6, TypeGroupsNext

\* Writes on their way name a record, a sender and what they write.
LEMMA PutKinds ==
  ASSUME puts \subseteq CopyPuts \union RestorePuts, NEW m \in puts
  PROVE  /\ m.record \in Records
         /\ m.kind = "copy" => m.by \in Passes /\ m.of \in Nat
         /\ m.kind = "restore" => m.by \in Recoveries /\ m.of \in Copy
         /\ m.kind \in {"copy", "restore"}
  BY DEF CopyPuts, RestorePuts

LEMMA PutTypes ==
  ASSUME BackupTypeOK, NEW m \in puts, LandPut(m) \/ LosePut(m)
  PROVE  BackupTypeOK'
<1> DEFINE r == m.record
<1>0. /\ TypeOK /\ LedgerTypes /\ CopyTypes /\ puts \subseteq CopyPuts \union RestorePuts
      /\ PassTypes /\ CopyHeld /\ RecoveryTypes /\ RetireTypes /\ losses \in Nat
  BY TypeGroups
<1>1. /\ puts' \subseteq puts /\ UNCHANGED ledgerVars /\ copy' = copy /\ UNCHANGED retireVars
      /\ losses' = losses
  BY DEF LandPut, LosePut
<1>2. LedgerTypes' /\ RetireTypes' /\ CopyHeld' /\ losses' \in Nat
      /\ puts' \subseteq CopyPuts \union RestorePuts
  BY <1>0, <1>1, LedgerFrame, RetireFrame DEF CopyHeld
<1>3. CASE LosePut(m)
  <2>1. UNCHANGED vars /\ UNCHANGED <<copyVars, tags>> /\ UNCHANGED passVars
        /\ UNCHANGED recoverVars
    BY <1>3 DEF LosePut
  <2> QED
    BY <1>0, <1>2, <2>1, DirectFrame, CopyFrame, PassFrame, RecoveryFrame, TypeGroupsNext
<1>4. CASE LandPut(m)
  <2>0. /\ UNCHANGED <<rowVars, callVars, cleanVars, age, crashes>>
        /\ UNCHANGED <<session, queue, current, source, target>>
    BY <1>4 DEF LandPut
  <2>1. PassTypes' /\ RecoveryTypes'
    <3>1. CASE m.kind = "copy"
      <4>1. /\ pass' = [pass EXCEPT ![m.by] = IF pass[m.by] = "wait" THEN "recheck" ELSE pass[m.by]]
            /\ recovery' = recovery
        BY <1>4, <3>1 DEF LandPut, Answered
      <4> QED
        BY <1>0, <2>0, <4>1 DEF PassTypes, RecoveryTypes
    <3>2. CASE m.kind # "copy"
      <4>1. /\ recovery' = [recovery EXCEPT ![m.by] =
                              IF recovery[m.by] = "wait" THEN "recheck" ELSE recovery[m.by]]
            /\ pass' = pass
        BY <1>4, <3>2 DEF LandPut, Answered
      <4> QED
        BY <1>0, <2>0, <4>1 DEF PassTypes, RecoveryTypes
    <3> QED
      BY <3>1, <3>2
  <2>2. r \in Records /\ (m.kind = "copy" => m.of \in Nat) /\ (m.kind = "restore" => m.of \in Copy)
    BY <1>0, PutKinds
  <2>3. CASE LandCopy(m)
    <3>1. UNCHANGED s3Vars /\ tags' = tags /\ m.of \in Nat
      BY <2>2, <2>3 DEF LandCopy
    <3>2. made[r] + 1 \in Nat /\ [id |-> made[r] + 1, source |-> m.of] \in Copy
      BY <1>0, <2>2, <3>1 DEF CopyTypes, Copy
    <3>3. \/ UNCHANGED copyVars
          \/ /\ made' = [made EXCEPT ![r] = made[r] + 1]
             /\ copies' = [copies EXCEPT ![r] =
                             copies[r] \union {[id |-> made[r] + 1, source |-> m.of]}]
      BY <2>3 DEF LandCopy
    <3>4. CopyTypes'
      BY <1>0, <2>2, <3>1, <3>2, <3>3 DEF CopyTypes, copyVars
    <3>5. TypeOK'
      BY <1>0, <2>0, <3>1, DirectFrame DEF vars
    <3> QED
      BY <1>2, <2>1, <3>4, <3>5, TypeGroupsNext
  <2>4. CASE LandRestore(m)
    <3>1. UNCHANGED copyVars /\ m.of \in Copy
      BY <2>2, <2>4 DEF LandRestore
    <3>2. minted[r] + 1 \in Nat /\ <<minted[r] + 1, m.of>> \in Nat \X Copy
      BY <1>0, <2>2, <3>1 DEF TypeOK
    <3>3. \/ UNCHANGED <<s3Vars, tags>>
          \/ /\ minted' = [minted EXCEPT ![r] = minted[r] + 1]
             /\ bucket' = [bucket EXCEPT ![r] = bucket[r] \union {minted[r] + 1}]
             /\ tags' = [tags EXCEPT ![r] = tags[r] \union {<<minted[r] + 1, m.of>>}]
      BY <2>4 DEF LandRestore
    <3>4. CopyTypes'
      BY <1>0, <2>2, <3>1, <3>2, <3>3 DEF CopyTypes, copyVars
    <3>5. minted' \in [Records -> Nat] /\ bucket' \in [Records -> SUBSET Nat]
      BY <1>0, <2>2, <3>2, <3>3 DEF TypeOK, s3Vars
    <3>6. TypeOK'
      BY <1>0, <2>0, <3>5 DEF TypeOK, rowVars, callVars, cleanVars
    <3> QED
      BY <1>2, <2>1, <3>4, <3>6, TypeGroupsNext
  <2> QED
    BY <1>4, <2>3, <2>4 DEF LandPut
<1> QED
  BY <1>3, <1>4

LEMMA WorldTypes ==
  ASSUME BackupTypeOK, NEW r \in Records, LoseVersions(r) \/ TimePasses(r)
  PROVE  BackupTypeOK'
<1>0. /\ TypeOK /\ LedgerTypes /\ CopyTypes /\ puts \subseteq CopyPuts \union RestorePuts
      /\ PassTypes /\ CopyHeld /\ RecoveryTypes /\ RetireTypes /\ losses \in Nat
  BY TypeGroups
<1>1. /\ UNCHANGED ledgerVars /\ UNCHANGED <<copyVars, tags>> /\ puts' = puts
      /\ UNCHANGED passVars /\ copy' = copy /\ UNCHANGED recoverVars /\ UNCHANGED retireVars
  BY DEF LoseVersions, TimePasses, backupVars
<1>2. losses' \in Nat
  BY <1>0 DEF LoseVersions, TimePasses, backupVars
<1>3. TypeOK'
  <2>1. CASE LoseVersions(r)
    <3>1. bucket' \in [Records -> SUBSET Nat]
      BY <1>0, <2>1 DEF LoseVersions, TypeOK
    <3>2. /\ UNCHANGED rowVars /\ minted' = minted /\ UNCHANGED callVars /\ UNCHANGED cleanVars
          /\ age' = age /\ crashes' = crashes
      BY <2>1 DEF LoseVersions
    <3> QED
      BY <1>0, <3>1, <3>2 DEF TypeOK, rowVars, callVars, cleanVars
  <2>2. CASE TimePasses(r)
    <3>1. age' \in [Records -> Phases]
      BY <1>0, <2>2 DEF TimePasses, Tick, TypeOK, Phases, Open, Retired
    <3>2. /\ UNCHANGED rowVars /\ UNCHANGED s3Vars /\ UNCHANGED callVars
          /\ UNCHANGED cleanVars /\ crashes' = crashes
      BY <2>2 DEF TimePasses, Tick
    <3> QED
      BY <1>0, <3>1, <3>2 DEF TypeOK, rowVars, s3Vars, callVars, cleanVars
  <2> QED
    BY <2>1, <2>2
<1>4. LedgerTypes' /\ CopyTypes' /\ PassTypes' /\ CopyHeld' /\ RecoveryTypes' /\ RetireTypes'
  BY <1>0, <1>1, LedgerFrame, CopyFrame, PassFrame, RecoveryFrame, RetireFrame DEF CopyHeld
<1> QED
  BY <1>0, <1>1, <1>2, <1>3, <1>4, TypeGroupsNext

LEMMA RetireStepTypes ==
  ASSUME BackupTypeOK, NEW t \in Retirers, RetireStep(t) \/ AbortRetirement(t)
  PROVE  BackupTypeOK'
<1>0. /\ TypeOK /\ LedgerTypes /\ CopyTypes /\ puts \subseteq CopyPuts \union RestorePuts
      /\ PassTypes /\ CopyHeld /\ RecoveryTypes /\ RetireTypes /\ losses \in Nat
  BY TypeGroups
<1>1. /\ made' = made /\ tags' = tags /\ puts' = puts /\ UNCHANGED passVars /\ copy' = copy
      /\ UNCHANGED recoverVars /\ losses' = losses
  BY DEF RetireStep, StartRetirement, DeleteCopy, CommitRetirement, AbortRetirement, copyVars
<1>2. TypeOK'
  <2>1. UNCHANGED <<rowVars, s3Vars, callVars, cleanVars, age>> /\ crashes' \in {crashes, crashes + 1}
    BY DEF RetireStep, StartRetirement, DeleteCopy, CommitRetirement, AbortRetirement, vars
  <2> QED
    BY <1>0, <2>1 DEF TypeOK, rowVars, s3Vars, callVars, cleanVars
<1>3. LedgerTypes'
  <2>1. CASE CommitRetirement(t)
    BY <1>0, <2>1 DEF CommitRetirement, LedgerTypes
  <2>2. CASE ~CommitRetirement(t)
    <3>1. UNCHANGED ledgerVars
      BY <2>2 DEF RetireStep, StartRetirement, DeleteCopy, AbortRetirement
    <3> QED
      BY <1>0, <3>1, LedgerFrame
  <2> QED
    BY <2>1, <2>2
<1>4. CopyTypes'
  <2>1. copies' = copies \/ \E x, m : copies' = [copies EXCEPT ![x] = copies[x] \ {m}]
    BY DEF RetireStep, StartRetirement, DeleteCopy, CommitRetirement, AbortRetirement, copyVars
  <2> QED
    BY <1>0, <1>1, <2>1 DEF CopyTypes
<1>5. RetireTypes'
  <2>1. CASE StartRetirement(t)
    BY <1>0, <2>1 DEF StartRetirement, RetireTypes, CopyTypes
  <2>2. CASE DeleteCopy(t)
    BY <1>0, <2>2 DEF DeleteCopy, RetireTypes
  <2>3. CASE CommitRetirement(t) \/ AbortRetirement(t)
    BY <1>0, <2>3 DEF CommitRetirement, AbortRetirement, RetireTypes
  <2> QED
    BY <2>1, <2>2, <2>3 DEF RetireStep
<1>6. PassTypes' /\ CopyHeld' /\ RecoveryTypes'
  BY <1>0, <1>1, PassFrame, RecoveryFrame DEF CopyHeld
<1> QED
  BY <1>0, <1>1, <1>2, <1>3, <1>4, <1>5, <1>6, TypeGroupsNext

(***************************************************************************)
(* Copies, intents and recoveries.                                         *)
(***************************************************************************)

\* No operation of EvidenceDirect exchanges a version or lets time pass.
LEMMA BoundStays ==
  ASSUME TypeOK, Operation
  PROVE  /\ age' = age
         /\ \A r \in Records : version[r] # 0 => version'[r] = version[r]
<1>1. ASSUME NEW c \in Completes, Finalize(c)
      PROVE  /\ age' = age
             /\ \A r \in Records : version[r] # 0 => version'[r] = version[r]
  <2>1. age' = age
    BY <1>1 DEF Finalize
  <2>2. version' = version
        \/ version' = [version EXCEPT ![Subject[c]] = Bind(Subject[c], read[c])]
    BY <1>1 DEF Finalize
  <2> QED
    BY <2>1, <2>2 DEF Bind, TypeOK
<1>2. CASE ~\E c \in Completes : Finalize(c)
  BY <1>2 DEF Operation, PrepareStep, MintRecord, CountReservations, InsertReservation,
     ReturnForm, Upload, CompleteStep, FindForComplete, VerifyUpload, RecheckUpload,
     ConfirmComplete, DownloadStep, FindForDownload, ReturnUrl, CrashCall, CleanupStep,
     SelectRows, ListVersions, DeleteVersion, MarkPurged, CommitCleanup, RefuseBatch,
     AbortCleanup, RollBack, rowVars
<1> QED
  BY <1>1, <1>2

\* What stays true of bound rows when only their versions are bound.
LEMMA CopiesOfOperation ==
  ASSUME BInv, Operation, UNCHANGED backupVars
  PROVE  CopiesKept'
<1>1. /\ age' = age
      /\ \A r \in Records : version[r] # 0 => version'[r] = version[r]
  BY BoundStays, TypeGroups DEF BInv
<1>2. /\ ledger' = ledger /\ expected' = expected /\ manifest' = manifest /\ restored' = restored
      /\ copies' = copies /\ made' = made /\ tags' = tags /\ puts' = puts
      /\ pass' = pass /\ current' = current /\ copy' = copy /\ recovery' = recovery
      /\ target' = target /\ retire' = retire /\ doomed' = doomed
  BY DEF backupVars, ledgerVars, copyVars, passVars, recoverVars, retireVars
<1>3. CopiesKept
  BY DEF BInv
<1>4. InFlight' /\ Retiring' /\ OneCopy' /\ CopiesRecorded' /\ Tagged'
  BY <1>1, <1>2, <1>3 DEF CopiesKept, InFlight, Retiring, OneCopy, CopiesRecorded, Tagged
<1>5. PassesKnow'
  BY <1>1, <1>2, <1>3 DEF CopiesKept, PassesKnow, PassKnows
<1>6. VerifiedBacked'
  <2>1. \A r \in Records : Backed(r) => Backed(r)'
    BY <1>1, <1>2 DEF Backed
  <2> QED
    BY <1>1, <1>2, <1>3, <2>1 DEF CopiesKept, VerifiedBacked
<1>7. RecoveriesKnow'
  <2> SUFFICES ASSUME NEW q \in Recoveries
               PROVE  RecoveryKnows(q)'
    BY DEF RecoveriesKnow
  <2>1. RecoveryKnows(q) /\ RecoveryOf[q] \in Records
    BY <1>3, Operators DEF CopiesKept, RecoveriesKnow
  <2>2. recovery[q] = "done" => version'[RecoveryOf[q]] = version[RecoveryOf[q]]
    BY <1>1, <2>1 DEF RecoveryKnows
  <2> QED
    BY <1>1, <1>2, <2>1, <2>2 DEF RecoveryKnows
<1> QED
  BY <1>4, <1>5, <1>6, <1>7 DEF CopiesKept

\* A verified copy is never exchanged, and an intent never forgotten.
LEMMA LedgerMoves ==
  ASSUME BInv, NEW p \in Passes, PassStep(p)
  PROVE  /\ \A r \in Records : ledger[r] # "none" => ledger'[r] # "none"
         /\ \A r \in Records : ledger[r] = "verified" /\ age[r] < Retired =>
              ledger'[r] = "verified" /\ manifest'[r] = manifest[r] /\ expected'[r] = expected[r]
         /\ \A r \in Records : ledger[r] # "verified" /\ ledger'[r] = "verified" =>
              /\ age[r] < Retired
              /\ version[r] # 0 /\ version[r] = expected[r] /\ expected'[r] = expected[r]
              /\ manifest'[r] \in copies[r] /\ manifest'[r].source = expected[r]
<1>0. LedgerTypes /\ TypeOK
  BY TypeGroups DEF BInv
<1>1. CASE ReserveIntent(p)
  <2>1. manifest' = manifest
    BY <1>1 DEF ReserveIntent
  <2>2. \/ ledger' = ledger /\ expected' = expected
        \/ \E r \in Records :
             /\ ledger[r] = "none" \/ expected[r] = version[r]
             /\ ledger' = [ledger EXCEPT ![r] = IF ledger[r] = "none" THEN "pending" ELSE ledger[r]]
             /\ expected' = [expected EXCEPT ![r] = version[r]]
    <3>1. queue[p] \subseteq Records
      BY TypeGroups DEF BInv, PassTypes
    <3> QED
      BY <1>1, <3>1 DEF ReserveIntent
  <2> QED
    BY <1>0, <2>1, <2>2 DEF LedgerTypes
<1>2. CASE VerifyIntent(p)
  <2> DEFINE r == current[p]
  <2>1. expected' = expected
    BY <1>2 DEF VerifyIntent
  <2>2. CASE ledger' = ledger /\ manifest' = manifest
    BY <2>1, <2>2
  <2>3. CASE ~(ledger' = ledger /\ manifest' = manifest)
    <3>1. /\ SourceAvailable(r) /\ ledger[r] # "none" /\ expected[r] = version[r]
          /\ copy[p].source = expected[r] /\ pass[p] = "verify"
          /\ ledger' = [ledger EXCEPT ![r] = "verified"]
          /\ manifest' = [manifest EXCEPT ![r] = copy[p]]
      BY <1>2, <2>3 DEF VerifyIntent
    <3>2. r \in Records /\ version[r] # 0 /\ age[r] < Retired
      BY <1>0, <3>1 DEF BInv, CopiesKept, PassesKnow, PassKnows, SourceAvailable, TypeOK, Phases,
                        Open, Expired, Retired
    <3>3. copy[p] \in copies[r]
      BY <3>1, <3>2 DEF BInv, CopiesKept, PassesKnow, PassKnows
    <3>4. ledger[r] = "verified" => manifest[r] = copy[p]
      BY <3>2, <3>3 DEF BInv, CopiesKept, VerifiedBacked, Backed, OneCopy
    <3>5. /\ ledger'[r] = "verified" /\ manifest'[r] = copy[p]
          /\ \A x \in Records \ {r} : ledger'[x] = ledger[x] /\ manifest'[x] = manifest[x]
      BY <1>0, <3>1, <3>2 DEF LedgerTypes
    <3> QED
      BY <2>1, <3>1, <3>2, <3>3, <3>4, <3>5
  <2> QED
    BY <2>2, <2>3
<1>3. CASE ~ReserveIntent(p) /\ ~VerifyIntent(p)
  <2>1. UNCHANGED ledgerVars
    BY <1>3 DEF PassStep, StartPass, CheckCopy, SendCopy, RecheckCopy, ReadBack, EndPass,
                GiveUpCopy
  <2> QED
    BY <2>1 DEF ledgerVars
<1> QED
  BY <1>1, <1>2, <1>3

\* Where a pass goes, and what it has seen when it gets there.
LEMMA PassMoves ==
  ASSUME BInv, NEW p \in Passes, PassStep(p)
  PROVE  /\ \A x \in Passes \ {p} :
              pass'[x] = pass[x] /\ current'[x] = current[x] /\ copy'[x] = copy[x]
         /\ \A q \in Recoveries : copy'[q] = copy[q]
         /\ pass'[p] \notin {"idle", "next"} =>
              LET r == current'[p] IN
              /\ r \in Records
              /\ \/ ledger'[r] # "none"
                 \/ pass[p] \notin {"idle", "next"} /\ r = current[p]
              /\ pass'[p] = "verify" => copy'[p] \in copies[r]
<1>0. PassTypes /\ CopyHeld /\ LedgerTypes
  BY TypeGroups DEF BInv
<1>1. pass[p] \notin {"idle", "next"} => current[p] \in Records
  BY DEF BInv, CopiesKept, PassesKnow, PassKnows
<1>2. \A q \in Recoveries : q # p
  BY Operators
<1>3. CASE NextItem(p)
  BY <1>0, <1>2, <1>3 DEF NextItem, PassTypes, CopyHeld
<1>4. CASE StartPass(p) \/ EndPass(p)
  <2>1. /\ \/ pass' = [pass EXCEPT ![p] = "next"]
           \/ pass' = [pass EXCEPT ![p] = "idle"]
        /\ current' = current /\ copy' = copy
    BY <1>4 DEF StartPass, EndPass
  <2> QED
    BY <1>0, <2>1 DEF PassTypes
<1>5. CASE ReserveIntent(p)
  <2>1. copy' = copy /\ queue[p] \subseteq Records
    BY <1>0, <1>5 DEF ReserveIntent, PassTypes
  <2>2. CASE pass' = pass /\ current' = current
    BY <1>0, <1>5, <2>1, <2>2 DEF ReserveIntent
  <2>3. CASE \E r \in queue[p] :
               /\ ledger' = [ledger EXCEPT ![r] = IF ledger[r] = "none" THEN "pending" ELSE ledger[r]]
               /\ current' = [current EXCEPT ![p] = r] /\ pass' = [pass EXCEPT ![p] = "check"]
    BY <1>0, <2>1, <2>3 DEF PassTypes, LedgerTypes
  <2> QED
    BY <1>5, <2>2, <2>3 DEF ReserveIntent
<1>6. CASE current' = current /\ \E step \in {"put", "wait", "readback"}, m \in Copy \union {None} :
              /\ pass' = [pass EXCEPT ![p] = step]
              /\ copy' = [copy EXCEPT ![p] = m]
              /\ pass[p] \notin {"idle", "next"}
  BY <1>0, <1>1, <1>2, <1>6 DEF PassTypes, CopyHeld
<1>7. CASE UseExisting(p) /\ pass[p] \notin {"idle", "next"}
  <2>1. \A m \in Existing(p) : m \in Copy
    BY <1>1, <1>7, TypeGroups DEF BInv, Existing, CopyTypes
  <2> QED
    BY <1>3, <1>6, <1>7, <2>1 DEF UseExisting
<1>8. CASE CheckCopy(p) \/ SendCopy(p)
  <2>1. pass[p] \in {"check", "put"}
    BY <1>8 DEF CheckCopy, SendCopy
  <2>2. copy = [copy EXCEPT ![p] = copy[p]] /\ copy[p] \in Copy \union {None}
    BY <1>0 DEF CopyHeld
  <2>3. CASE UseExisting(p) \/ NextItem(p)
    BY <1>3, <1>7, <2>1, <2>3
  <2>4. CASE /\ current' = current /\ copy' = copy
             /\ pass' = [pass EXCEPT ![p] = "put"] \/ pass' = [pass EXCEPT ![p] = "wait"]
    BY <1>6, <2>1, <2>2, <2>4
  <2> QED
    BY <1>8, <2>3, <2>4 DEF CheckCopy, SendCopy
<1>9. CASE RecheckCopy(p)
  BY <1>7, <1>9 DEF RecheckCopy
<1>10. CASE ReadBack(p)
  <2>1. CASE /\ copy[p] \in copies[current[p]]
             /\ pass' = [pass EXCEPT ![p] = "verify"] /\ UNCHANGED <<current, copy>>
    <3>1. pass[p] \notin {"idle", "next"}
      BY <1>10 DEF ReadBack
    <3> QED
      BY <1>0, <1>1, <2>1, <3>1 DEF PassTypes
  <2> QED
    BY <1>3, <1>10, <2>1 DEF ReadBack
<1>11. CASE VerifyIntent(p) \/ GiveUpCopy(p)
  BY <1>3, <1>11 DEF VerifyIntent, GiveUpCopy
<1> QED
  BY <1>4, <1>5, <1>8, <1>9, <1>10, <1>11 DEF PassStep

LEMMA CopiesOfPass ==
  ASSUME BInv, NEW p \in Passes, PassStep(p)
  PROVE  CopiesKept'
<1>0. CopiesKept /\ TypeOK /\ LedgerTypes
  BY TypeGroups DEF BInv
<1>1. /\ version' = version /\ age' = age /\ copies' = copies /\ tags' = tags
      /\ recovery' = recovery /\ target' = target /\ retire' = retire /\ doomed' = doomed
      /\ restored' = restored
  BY PassKeeps DEF vars, rowVars, copyVars, recoverVars, retireVars
<1>2. /\ \A r \in Records : ledger[r] # "none" => ledger'[r] # "none"
      /\ \A r \in Records : ledger[r] = "verified" /\ age[r] < Retired =>
           ledger'[r] = "verified" /\ manifest'[r] = manifest[r] /\ expected'[r] = expected[r]
      /\ \A r \in Records : ledger[r] # "verified" /\ ledger'[r] = "verified" =>
           /\ age[r] < Retired
           /\ version[r] # 0 /\ version[r] = expected[r] /\ expected'[r] = expected[r]
           /\ manifest'[r] \in copies[r] /\ manifest'[r].source = expected[r]
  BY LedgerMoves
<1>3. InFlight'
  <2>1. \A m \in puts : m.record \in Records
    BY PutKinds, TypeGroups DEF BInv
  <2>2. CASE puts' = puts
    BY <1>0, <1>1, <1>2, <2>1, <2>2 DEF CopiesKept, InFlight
  <2>3. CASE /\ SendCopy(p) /\ Restorable(current[p])
             /\ puts' = puts \union {Put(p, current[p], "copy", source[p])}
    <3>1. current[p] \in Records /\ age[current[p]] < Retired
      BY <1>0, <2>3 DEF SendCopy, CopiesKept, PassesKnow, PassKnows, Restorable, TypeOK, Phases,
                        Open, Expired, Retired
    <3>2. ledger[current[p]] # "none"
      BY <1>0, <2>3, <3>1 DEF SendCopy, CopiesKept, PassesKnow, PassKnows
    <3>3. Put(p, current[p], "copy", source[p]).record = current[p]
      BY DEF Put
    <3>4. \A m \in puts' : m \in puts \/ m.record = current[p]
      BY <2>3, <3>3
    <3> QED
      BY <1>0, <1>1, <1>2, <2>1, <3>1, <3>2, <3>4 DEF CopiesKept, InFlight
  <2> QED
    BY <2>2, <2>3 DEF PassStep, StartPass, ReserveIntent, CheckCopy, SendCopy, RecheckCopy,
                      ReadBack, VerifyIntent, EndPass, GiveUpCopy
<1>4. PassesKnow'
  <2>1. ASSUME NEW x \in Passes \ {p}
        PROVE  PassKnows(x)'
    <3>1. PassKnows(x)
      BY <1>0 DEF CopiesKept, PassesKnow
    <3>2. pass'[x] = pass[x] /\ current'[x] = current[x] /\ copy'[x] = copy[x]
      BY PassMoves
    <3> QED
      BY <1>1, <1>2, <3>1, <3>2 DEF PassKnows
  <2>2. PassKnows(p)'
    <3>1. PassKnows(p)
      BY <1>0 DEF CopiesKept, PassesKnow
    <3>2. pass'[p] \notin {"idle", "next"} =>
            /\ current'[p] \in Records
            /\ \/ ledger'[current'[p]] # "none"
               \/ pass[p] \notin {"idle", "next"} /\ current'[p] = current[p]
            /\ pass'[p] = "verify" => copy'[p] \in copies[current'[p]]
      BY PassMoves
    <3> QED
      BY <1>1, <1>2, <3>1, <3>2 DEF PassKnows
  <2> QED
    BY <2>1, <2>2 DEF PassesKnow
<1>5. Retiring' /\ OneCopy' /\ CopiesRecorded' /\ Tagged'
  BY <1>0, <1>1, <1>2 DEF CopiesKept, Retiring, OneCopy, CopiesRecorded, Tagged
<1>6. VerifiedBacked'
  <2> SUFFICES ASSUME NEW r \in Records, age[r] < Retired
               PROVE  /\ ledger'[r] = "verified" => Backed(r)'
                      /\ ledger'[r] # "verified" => restored'[r] = 0
    BY <1>1 DEF VerifiedBacked
  <2>1. CASE ledger[r] = "verified"
    BY <1>0, <1>1, <1>2, <2>1 DEF CopiesKept, VerifiedBacked, Backed
  <2>2. CASE ledger[r] # "verified"
    <3>1. restored[r] = 0
      BY <1>0, <2>2 DEF CopiesKept, VerifiedBacked
    <3> QED
      BY <1>1, <1>2, <2>2, <3>1 DEF Backed
  <2> QED
    BY <2>1, <2>2
<1>7. RecoveriesKnow'
  <2> SUFFICES ASSUME NEW q \in Recoveries
               PROVE  RecoveryKnows(q)'
    BY DEF RecoveriesKnow
  <2>1. RecoveryKnows(q) /\ RecoveryOf[q] \in Records
    BY <1>0, Operators DEF CopiesKept, RecoveriesKnow
  <2>2. copy'[q] = copy[q]
    BY PassMoves
  <2> QED
    BY <1>1, <1>2, <2>1, <2>2 DEF RecoveryKnows
<1> QED
  BY <1>3, <1>4, <1>5, <1>6, <1>7 DEF CopiesKept

\* The session's end resets the pass or leaves it.
LEMMA CopiesOfLostSession ==
  ASSUME BInv, NEW p \in Passes, LoseSession(p)
  PROVE  CopiesKept'
<1>0. CopiesKept /\ PassTypes /\ CopyHeld
  BY TypeGroups DEF BInv
<1>1. /\ version' = version /\ age' = age /\ copies' = copies /\ tags' = tags /\ puts' = puts
      /\ recovery' = recovery /\ target' = target /\ retire' = retire /\ doomed' = doomed
      /\ ledger' = ledger /\ expected' = expected /\ manifest' = manifest
      /\ restored' = restored
  BY DEF LoseSession, rowVars, ledgerVars, copyVars, recoverVars, retireVars
<1>2. /\ \A x \in Passes \ {p} :
           pass'[x] = pass[x] /\ current'[x] = current[x] /\ copy'[x] = copy[x]
      /\ \/ pass'[p] = "idle"
         \/ pass'[p] = pass[p] /\ current'[p] = current[p] /\ copy'[p] = copy[p]
      /\ \A q \in Recoveries : copy'[q] = copy[q]
  <2>1. CASE UNCHANGED <<pass, queue, current, source, copy>>
    BY <2>1
  <2>2. CASE /\ pass' = [pass EXCEPT ![p] = "idle"]
             /\ current' = [current EXCEPT ![p] = None]
             /\ copy' = [copy EXCEPT ![p] = None]
    BY <1>0, <2>2, Operators DEF PassTypes, CopyHeld
  <2> QED
    BY <2>1, <2>2 DEF LoseSession
<1>3. PassesKnow'
  BY <1>0, <1>1, <1>2 DEF CopiesKept, PassesKnow, PassKnows
<1>4. RecoveriesKnow'
  BY <1>0, <1>1, <1>2 DEF CopiesKept, RecoveriesKnow, RecoveryKnows
<1> QED
  BY <1>0, <1>1, <1>3, <1>4 DEF CopiesKept, InFlight, Retiring, OneCopy, CopiesRecorded, Tagged,
                               VerifiedBacked, Backed

\* What a recovery leaves alone.
LEMMA RecoveryKeeps ==
  ASSUME NEW q \in Recoveries, RecoveryStep(q)
  PROVE  /\ UNCHANGED <<row, s3Vars, callVars, cleanVars, age, crashes>>
         /\ ledger' = ledger /\ expected' = expected /\ manifest' = manifest
         /\ copies' = copies /\ tags' = tags /\ pass' = pass /\ current' = current
         /\ retire' = retire /\ doomed' = doomed
  BY DEF RecoveryStep, LoadRecovery, CheckRestored, SendRestore, RecheckRestored, CommitRestore,
         AbandonRecovery, vars, rowVars, ledgerVars, copyVars, passVars, retireVars

\* Where a recovery goes, and what it has found when it gets there.
LEMMA RecoveryMoves ==
  ASSUME BInv, NEW q \in Recoveries, RecoveryStep(q), ~CommitRestore(q)
  PROVE  /\ version' = version /\ restored' = restored
         /\ \A x \in Recoveries \ {q} :
              recovery'[x] = recovery[x] /\ target'[x] = target[x] /\ copy'[x] = copy[x]
         /\ \A p \in Passes : copy'[p] = copy[p]
         /\ LET r == RecoveryOf[q] IN
            \/ recovery'[q] = "idle"
            \/ recovery'[q] = "check" /\ ledger[r] = "verified" /\ copy'[q] = manifest[r]
            \/ /\ recovery[q] \notin {"idle", "done"} /\ copy'[q] = copy[q]
               /\ \/ recovery'[q] = "put" /\ copy[q] \in Copy
                  \/ recovery'[q] = "wait"
                  \/ recovery'[q] = "commit" /\ <<target'[q], copy[q]>> \in tags[r]
<1> DEFINE r == RecoveryOf[q]
<1>0. RecoveryTypes /\ CopyHeld /\ CopyTypes /\ r \in Records
  BY TypeGroups, Operators DEF BInv
<1>1. version' = version /\ restored' = restored
  BY DEF RecoveryStep, LoadRecovery, CheckRestored, SendRestore, RecheckRestored,
         AbandonRecovery, vars, rowVars, ledgerVars
<1>2. \A p \in Passes : p # q
  BY Operators
<1>3. CASE Quit(q)
  BY <1>0, <1>1, <1>2, <1>3 DEF Quit, RecoveryTypes, CopyHeld
<1>4. CASE LoadRecovery(q)
  <2>1. /\ ledger[r] = "verified"
        /\ copy' = [copy EXCEPT ![q] = manifest[r]]
        /\ recovery' = [recovery EXCEPT ![q] = "check"] /\ target' = target
    BY <1>4 DEF LoadRecovery
  <2> QED
    BY <1>0, <1>1, <1>2, <2>1 DEF RecoveryTypes, CopyHeld
<1>5. CASE UseRestored(q) /\ recovery[q] \notin {"idle", "done"}
  <2>1. CASE /\ <<Max(bucket[r]), copy[q]>> \in tags[r] /\ copy' = copy
             /\ target' = [target EXCEPT ![q] = Max(bucket[r])]
             /\ recovery' = [recovery EXCEPT ![q] = "commit"]
    <3> DEFINE latest == Max(bucket[r])
    <3>1. /\ target'[q] = latest /\ recovery'[q] = "commit"
          /\ \A x \in Recoveries \ {q} : recovery'[x] = recovery[x] /\ target'[x] = target[x]
      BY <1>0, <2>1 DEF RecoveryTypes
    <3> QED
      BY <1>1, <1>5, <2>1, <3>1
  <2> QED
    BY <1>3, <1>5, <2>1 DEF UseRestored
<1>6. CASE CheckRestored(q)
  <2>1. recovery[q] = "check"
    BY <1>6 DEF CheckRestored
  <2>2. CASE /\ recovery' = [recovery EXCEPT ![q] = "put"] /\ UNCHANGED <<copy, target>>
             /\ copy[q] \in copies[r]
    BY <1>0, <1>1, <2>1, <2>2 DEF RecoveryTypes, CopyTypes
  <2> QED
    BY <1>3, <1>5, <1>6, <2>1, <2>2 DEF CheckRestored
<1>7. CASE SendRestore(q)
  <2>1. recovery[q] = "put"
    BY <1>7 DEF SendRestore
  <2>2. CASE recovery' = [recovery EXCEPT ![q] = "wait"] /\ UNCHANGED <<copy, target>>
    BY <1>0, <1>1, <2>1, <2>2 DEF RecoveryTypes
  <2> QED
    BY <1>3, <1>7, <2>2 DEF SendRestore
<1>8. CASE RecheckRestored(q) \/ AbandonRecovery(q)
  BY <1>3, <1>5, <1>8 DEF RecheckRestored, AbandonRecovery
<1> QED
  BY <1>4, <1>6, <1>7, <1>8 DEF RecoveryStep

LEMMA CopiesOfRecovery ==
  ASSUME BInv, NEW q \in Recoveries, RecoveryStep(q), ~CommitRestore(q)
  PROVE  CopiesKept'
<1> DEFINE r == RecoveryOf[q]
<1>0. CopiesKept /\ TypeOK /\ r \in Records
  BY TypeGroups, Operators DEF BInv
<1>1. /\ age' = age /\ ledger' = ledger /\ expected' = expected /\ manifest' = manifest
      /\ copies' = copies /\ tags' = tags /\ pass' = pass /\ current' = current
      /\ retire' = retire /\ doomed' = doomed
  BY RecoveryKeeps
<1>2. /\ version' = version /\ restored' = restored
      /\ \A x \in Recoveries \ {q} :
           recovery'[x] = recovery[x] /\ target'[x] = target[x] /\ copy'[x] = copy[x]
      /\ \A p \in Passes : copy'[p] = copy[p]
      /\ \/ recovery'[q] = "idle"
         \/ recovery'[q] = "check" /\ ledger[r] = "verified" /\ copy'[q] = manifest[r]
         \/ /\ recovery[q] \notin {"idle", "done"} /\ copy'[q] = copy[q]
            /\ \/ recovery'[q] = "put" /\ copy[q] \in Copy
               \/ recovery'[q] = "wait"
               \/ recovery'[q] = "commit" /\ <<target'[q], copy[q]>> \in tags[r]
  BY RecoveryMoves
<1>3. InFlight'
  <2>1. CASE puts' = puts
    BY <1>0, <1>1, <2>1 DEF CopiesKept, InFlight
  <2>2. CASE Restorable(r) /\ puts' = puts \union {Put(q, r, "restore", copy[q])}
    <3>1. age[r] < Retired
      BY <1>0, <2>2 DEF Restorable, TypeOK, Phases, Open, Expired, Retired
    <3>2. /\ Put(q, r, "restore", copy[q]).record = r
          /\ Put(q, r, "restore", copy[q]).kind = "restore"
      BY DEF Put
    <3>3. \A m \in puts' : m \in puts \/ (m.record = r /\ m.kind # "copy")
      BY <2>2, <3>2
    <3> QED
      BY <1>0, <1>1, <3>1, <3>3 DEF CopiesKept, InFlight
  <2> QED
    BY <2>1, <2>2 DEF RecoveryStep, LoadRecovery, CheckRestored, SendRestore, RecheckRestored,
                      AbandonRecovery
<1>4. PassesKnow'
  BY <1>0, <1>1, <1>2 DEF CopiesKept, PassesKnow, PassKnows
<1>5. Retiring' /\ OneCopy' /\ CopiesRecorded' /\ Tagged'
  BY <1>0, <1>1 DEF CopiesKept, Retiring, OneCopy, CopiesRecorded, Tagged
<1>6. VerifiedBacked'
  BY <1>0, <1>1, <1>2 DEF CopiesKept, VerifiedBacked, Backed
<1>7. RecoveriesKnow'
  <2>1. ASSUME NEW x \in Recoveries \ {q}
        PROVE  RecoveryKnows(x)'
    <3>1. RecoveryKnows(x)
      BY <1>0 DEF CopiesKept, RecoveriesKnow
    <3> QED
      BY <1>1, <1>2, <3>1 DEF RecoveryKnows
  <2>2. RecoveryKnows(q)'
    <3>1. RecoveryKnows(q)
      BY <1>0 DEF CopiesKept, RecoveriesKnow
    <3> QED
      BY <1>1, <1>2, <3>1 DEF RecoveryKnows
  <2> QED
    BY <2>1, <2>2 DEF RecoveriesKnow
<1> QED
  BY <1>3, <1>4, <1>5, <1>6, <1>7 DEF CopiesKept

\* A commit binds the row to a restore of the verified copy, once.
LEMMA CopiesOfCommit ==
  ASSUME BInv, NEW q \in Recoveries, CommitRestore(q)
  PROVE  CopiesKept'
<1> DEFINE r == RecoveryOf[q]
           v == target[q]
<1>0. /\ CopiesKept /\ TypeOK /\ r \in Records
      /\ RecoveryTypes /\ CopyHeld /\ CopyTypes /\ LedgerTypes
  BY TypeGroups, Operators DEF BInv
<1>1. /\ age' = age /\ ledger' = ledger /\ expected' = expected /\ manifest' = manifest
      /\ copies' = copies /\ tags' = tags /\ pass' = pass /\ current' = current
      /\ retire' = retire /\ doomed' = doomed /\ puts' = puts
  BY RecoveryKeeps DEF RecoveryStep, CommitRestore
<1>2. RecoveryKnows(q) /\ recovery[q] = "commit"
  BY <1>0 DEF CopiesKept, RecoveriesKnow, CommitRestore
<1>3. <<v, copy[q]>> \in tags[r] /\ v # 0
  <2>1. <<v, copy[q]>> \in tags[r]
    BY <1>2 DEF RecoveryKnows
  <2> QED
    BY <1>0, <2>1 DEF CopiesKept, Tagged
<1>4. CASE Quit(q) /\ version' = version /\ restored' = restored
  <2>1. /\ recovery'[q] = "idle"
        /\ \A x \in Recoveries \ {q} :
             recovery'[x] = recovery[x] /\ target'[x] = target[x] /\ copy'[x] = copy[x]
        /\ \A p \in Passes : copy'[p] = copy[p]
    BY <1>0, <1>4, Operators DEF Quit, RecoveryTypes, CopyHeld
  <2>2. RecoveriesKnow'
    BY <1>0, <1>1, <1>4, <2>1 DEF CopiesKept, RecoveriesKnow, RecoveryKnows
  <2>3. PassesKnow'
    BY <1>0, <1>1, <2>1 DEF CopiesKept, PassesKnow, PassKnows
  <2> QED
    BY <1>0, <1>1, <1>4, <2>2, <2>3 DEF CopiesKept, InFlight, Retiring, OneCopy, CopiesRecorded,
                                      Tagged, VerifiedBacked, Backed
<1>5. CASE /\ SourceAvailable(r) /\ ledger[r] = "verified"
           /\ recovery' = [recovery EXCEPT ![q] = "done"] /\ copy' = copy /\ target' = target
           /\ \/ restored[r] = v /\ version[r] = v /\ version' = version /\ restored' = restored
              \/ /\ restored[r] = 0
                 /\ version' = [version EXCEPT ![r] = v]
                 /\ restored' = [restored EXCEPT ![r] = v]
  <2>1. age[r] < Retired
    BY <1>0, <1>5 DEF SourceAvailable, TypeOK, Phases, Open, Expired, Retired
  <2>2. /\ version'[r] = v /\ restored'[r] = v
        /\ \A x \in Records \ {r} : version'[x] = version[x] /\ restored'[x] = restored[x]
    BY <1>0, <1>5 DEF TypeOK, LedgerTypes
  <2>3. copy[q] = manifest[r]
    BY <1>2, <2>1 DEF RecoveryKnows
  <2>4. VerifiedBacked'
    <3>1. \A x \in Records \ {r} : age[x] < Retired =>
            /\ ledger'[x] = "verified" => Backed(x)'
            /\ ledger'[x] # "verified" => restored'[x] = 0
      BY <1>0, <1>1, <2>2 DEF CopiesKept, VerifiedBacked, Backed
    <3>2. ledger'[r] = "verified" /\ Backed(r)'
      BY <1>0, <1>1, <1>3, <1>5, <2>1, <2>2, <2>3 DEF CopiesKept, VerifiedBacked, Backed
    <3> QED
      BY <1>1, <3>1, <3>2 DEF VerifiedBacked
  <2>5. RecoveriesKnow'
    <3>0. /\ recovery'[q] = "done"
          /\ \A x \in Recoveries \ {q} : recovery'[x] = recovery[x]
      BY <1>0, <1>5 DEF RecoveryTypes
    <3>1. RecoveryKnows(q)'
      BY <1>1, <1>3, <1>5, <2>2, <3>0 DEF RecoveryKnows
    <3>2. ASSUME NEW x \in Recoveries \ {q}
          PROVE  RecoveryKnows(x)'
      <4>1. RecoveryKnows(x) /\ RecoveryOf[x] \in Records
        BY <1>0, Operators DEF CopiesKept, RecoveriesKnow
      <4>2. CASE RecoveryOf[x] # r
        BY <1>1, <1>5, <2>2, <3>0, <4>1, <4>2 DEF RecoveryKnows
      <4>3. CASE RecoveryOf[x] = r
        <5>1. recovery[x] = "done" => target[x] = v
          BY <1>5, <2>1, <4>1, <4>3 DEF RecoveryKnows
        <5> QED
          BY <1>1, <1>5, <2>2, <3>0, <4>1, <4>3, <5>1 DEF RecoveryKnows
      <4> QED
        BY <4>2, <4>3
    <3> QED
      BY <3>1, <3>2 DEF RecoveriesKnow
  <2>6. PassesKnow'
    BY <1>0, <1>1, <1>5 DEF CopiesKept, PassesKnow, PassKnows
  <2> QED
    BY <1>0, <1>1, <2>4, <2>5, <2>6 DEF CopiesKept, InFlight, Retiring, OneCopy, CopiesRecorded,
                                       Tagged
<1> QED
  BY <1>4, <1>5 DEF CommitRestore, Rebindable

\* Where a write lands, and who has waited for it.
LEMMA LandMoves ==
  ASSUME BInv, NEW m \in puts, LandPut(m)
  PROVE  /\ puts' \subseteq puts /\ version' = version /\ age' = age
         /\ ledger' = ledger /\ expected' = expected /\ manifest' = manifest
         /\ restored' = restored /\ current' = current /\ copy' = copy /\ target' = target
         /\ retire' = retire /\ doomed' = doomed
         /\ \A p \in Passes :
              pass'[p] = pass[p] \/ (pass[p] = "wait" /\ pass'[p] = "recheck")
         /\ \A q \in Recoveries :
              recovery'[q] = recovery[q] \/ (recovery[q] = "wait" /\ recovery'[q] = "recheck")
<1>0. PassTypes /\ RecoveryTypes
  BY TypeGroups DEF BInv
<1>1. \/ /\ pass' = [pass EXCEPT ![m.by] = IF pass[m.by] = "wait" THEN "recheck" ELSE pass[m.by]]
         /\ recovery' = recovery
      \/ /\ recovery' = [recovery EXCEPT ![m.by] =
                            IF recovery[m.by] = "wait" THEN "recheck" ELSE recovery[m.by]]
         /\ pass' = pass
  BY DEF LandPut, Answered
<1>2. \A p \in Passes : pass'[p] = pass[p] \/ (pass[p] = "wait" /\ pass'[p] = "recheck")
  BY <1>0, <1>1 DEF PassTypes
<1>3. \A q \in Recoveries :
        recovery'[q] = recovery[q] \/ (recovery[q] = "wait" /\ recovery'[q] = "recheck")
  BY <1>0, <1>1 DEF RecoveryTypes
<1>4. /\ puts' \subseteq puts /\ version' = version /\ age' = age
      /\ ledger' = ledger /\ expected' = expected /\ manifest' = manifest
      /\ restored' = restored /\ current' = current /\ copy' = copy /\ target' = target
      /\ retire' = retire /\ doomed' = doomed
  BY DEF LandPut, rowVars, ledgerVars, retireVars
<1> QED
  BY <1>2, <1>3, <1>4

\* The condition on the write: nothing under its key, and one object after it.
LEMMA LandsOnce ==
  ASSUME BInv, NEW m \in puts, LandPut(m)
  PROVE  \/ copies' = copies /\ tags' = tags /\ UNCHANGED s3Vars
         \/ LET r == m.record IN
            /\ m.kind = "copy" /\ copies[r] = {} /\ tags' = tags /\ UNCHANGED s3Vars
            /\ \E c \in Copy : copies' = [copies EXCEPT ![r] = {c}]
         \/ LET r == m.record IN
            /\ m.kind = "restore" /\ bucket[r] = {} /\ copies' = copies
            /\ minted' = [minted EXCEPT ![r] = minted[r] + 1]
            /\ bucket' = [bucket EXCEPT ![r] = bucket[r] \union {minted[r] + 1}]
            /\ tags' = [tags EXCEPT ![r] = tags[r] \union {<<minted[r] + 1, m.of>>}]
<1> DEFINE r == m.record
<1>1. CopyTypes /\ puts \subseteq CopyPuts \union RestorePuts
  BY TypeGroups DEF BInv
<1>2. r \in Records /\ (m.kind = "copy" => m.of \in Nat)
  BY <1>1, PutKinds
<1>3. CASE LandCopy(m)
  <2>1. CASE FreeKey(copies[r])
    <3>1. [id |-> made[r] + 1, source |-> m.of] \in Copy
      BY <1>1, <1>2, <1>3 DEF LandCopy, Copy, CopyTypes
    <3>2. copies' = [copies EXCEPT ![r] = {[id |-> made[r] + 1, source |-> m.of]}]
      BY <1>3, <2>1 DEF LandCopy, FreeKey
    <3> QED
      BY <1>3, <2>1, <3>1, <3>2 DEF LandCopy, FreeKey
  <2>2. CASE ~FreeKey(copies[r])
    BY <1>3, <2>2 DEF LandCopy, copyVars
  <2> QED
    BY <2>1, <2>2
<1>4. CASE LandRestore(m)
  <2>1. copies' = copies
    BY <1>4 DEF LandRestore, copyVars
  <2>2. CASE FreeKey(bucket[r])
    BY <1>4, <2>1, <2>2 DEF LandRestore, FreeKey
  <2>3. CASE ~FreeKey(bucket[r])
    BY <1>4, <2>1, <2>3 DEF LandRestore
  <2> QED
    BY <2>2, <2>3
<1> QED
  BY <1>3, <1>4 DEF LandPut

LEMMA CopiesOfLanding ==
  ASSUME BInv, NEW m \in puts, LandPut(m)
  PROVE  CopiesKept'
<1>0. /\ CopiesKept /\ CopyTypes /\ TypeOK /\ LedgerTypes /\ m.record \in Records
  BY TypeGroups, PutKinds DEF BInv
<1>1. /\ puts' \subseteq puts /\ version' = version /\ age' = age
      /\ ledger' = ledger /\ expected' = expected /\ manifest' = manifest
      /\ restored' = restored /\ current' = current /\ copy' = copy /\ target' = target
      /\ retire' = retire /\ doomed' = doomed
      /\ \A p \in Passes :
           pass'[p] = pass[p] \/ (pass[p] = "wait" /\ pass'[p] = "recheck")
      /\ \A q \in Recoveries :
           recovery'[q] = recovery[q] \/ (recovery[q] = "wait" /\ recovery'[q] = "recheck")
  BY LandMoves
<1>2. \A r \in Records :
        /\ copies[r] \subseteq copies'[r]
        /\ \/ copies'[r] = copies[r]
           \/ r = m.record /\ m.kind = "copy" /\ \E c \in Copy : copies'[r] = {c}
  <2>1. CASE copies' = copies
    BY <2>1
  <2>2. ASSUME m.kind = "copy", copies[m.record] = {},
               NEW c \in Copy, copies' = [copies EXCEPT ![m.record] = {c}]
        PROVE  \A r \in Records :
                 /\ copies[r] \subseteq copies'[r]
                 /\ copies'[r] = copies[r] \/ (r = m.record /\ copies'[r] = {c})
    BY <1>0, <2>2 DEF CopyTypes
  <2> QED
    BY <2>1, <2>2, LandsOnce
<1>3. \A r \in Records : /\ tags[r] \subseteq tags'[r]
                         /\ \A tag \in tags'[r] : tag[1] # 0
  <2>1. CASE tags' = tags
    BY <1>0, <2>1 DEF CopiesKept, Tagged
  <2>2. CASE tags' = [tags EXCEPT ![m.record] =
                        tags[m.record] \union {<<minted[m.record] + 1, m.of>>}]
    <3>1. minted[m.record] + 1 # 0
      BY <1>0 DEF TypeOK
    <3> QED
      BY <1>0, <2>2, <3>1 DEF CopiesKept, Tagged, CopyTypes
  <2> QED
    BY <2>1, <2>2, LandsOnce
<1>4. InFlight' /\ Retiring'
  BY <1>0, <1>1 DEF CopiesKept, InFlight, Retiring
<1>5. PassesKnow'
  <2>1. ASSUME NEW p \in Passes
        PROVE  PassKnows(p)'
    BY <1>0, <1>1, <1>2 DEF CopiesKept, PassesKnow, PassKnows
  <2> QED
    BY <2>1 DEF PassesKnow
<1>6. OneCopy' /\ CopiesRecorded'
  BY <1>0, <1>1, <1>2 DEF CopiesKept, OneCopy, CopiesRecorded, InFlight
<1>7. Tagged'
  BY <1>3 DEF Tagged
<1>8. VerifiedBacked'
  <2>1. ASSUME NEW r \in Records, Backed(r)
        PROVE  Backed(r)'
    BY <1>1, <1>2, <1>3, <2>1 DEF Backed
  <2> QED
    BY <1>0, <1>1, <2>1 DEF CopiesKept, VerifiedBacked
<1>9. RecoveriesKnow'
  <2>1. ASSUME NEW q \in Recoveries
        PROVE  RecoveryKnows(q)'
    <3>1. RecoveryKnows(q) /\ RecoveryOf[q] \in Records
      BY <1>0, Operators DEF CopiesKept, RecoveriesKnow
    <3> QED
      BY <1>1, <1>3, <3>1 DEF RecoveryKnows
  <2> QED
    BY <2>1 DEF RecoveriesKnow
<1> QED
  BY <1>4, <1>5, <1>6, <1>7, <1>8, <1>9 DEF CopiesKept

LEMMA CopiesOfLostPut ==
  ASSUME BInv, NEW m \in puts, LosePut(m)
  PROVE  CopiesKept'
<1>1. /\ puts' \subseteq puts /\ version' = version /\ age' = age
      /\ ledger' = ledger /\ expected' = expected /\ manifest' = manifest
      /\ restored' = restored /\ current' = current /\ copy' = copy /\ target' = target
      /\ retire' = retire /\ doomed' = doomed /\ pass' = pass /\ recovery' = recovery
      /\ copies' = copies /\ tags' = tags
  BY DEF LosePut, vars, rowVars, ledgerVars, copyVars, passVars, recoverVars, retireVars
<1>2. CopiesKept
  BY DEF BInv
<1>3. PassesKnow' /\ RecoveriesKnow'
  BY <1>1, <1>2 DEF CopiesKept, PassesKnow, PassKnows, RecoveriesKnow, RecoveryKnows
<1> QED
  BY <1>1, <1>2, <1>3 DEF CopiesKept, InFlight, Retiring, OneCopy, CopiesRecorded, Tagged,
                         VerifiedBacked, Backed

LEMMA CopiesOfLoss ==
  ASSUME BInv, NEW r \in Records, LoseVersions(r)
  PROVE  CopiesKept'
<1>1. /\ puts' = puts /\ version' = version /\ age' = age
      /\ ledger' = ledger /\ expected' = expected /\ manifest' = manifest
      /\ restored' = restored /\ current' = current /\ copy' = copy /\ target' = target
      /\ retire' = retire /\ doomed' = doomed /\ pass' = pass /\ recovery' = recovery
      /\ copies' = copies /\ tags' = tags
  BY DEF LoseVersions, rowVars, ledgerVars, copyVars, passVars, recoverVars, retireVars
<1>2. CopiesKept
  BY DEF BInv
<1>3. PassesKnow' /\ RecoveriesKnow'
  BY <1>1, <1>2 DEF CopiesKept, PassesKnow, PassKnows, RecoveriesKnow, RecoveryKnows
<1> QED
  BY <1>1, <1>2, <1>3 DEF CopiesKept, InFlight, Retiring, OneCopy, CopiesRecorded, Tagged,
                         VerifiedBacked, Backed

\* Time takes records beyond their grace, but no write with them.
LEMMA CopiesOfTime ==
  ASSUME BInv, NEW r \in Records, TimePasses(r)
  PROVE  CopiesKept'
<1>0. CopiesKept /\ TypeOK /\ puts \subseteq CopyPuts \union RestorePuts
  BY TypeGroups DEF BInv
<1>1. /\ puts' = puts /\ version' = version
      /\ ledger' = ledger /\ expected' = expected /\ manifest' = manifest
      /\ restored' = restored /\ current' = current /\ copy' = copy /\ target' = target
      /\ retire' = retire /\ doomed' = doomed /\ pass' = pass /\ recovery' = recovery
      /\ copies' = copies /\ tags' = tags
  BY DEF TimePasses, Tick, rowVars, backupVars, ledgerVars, copyVars, passVars, recoverVars,
         retireVars
<1>2. /\ age[r] < Retired /\ age' = [age EXCEPT ![r] = age[r] + 1]
      /\ age[r] = Expired => \A m \in puts : m.record # r
  BY DEF TimePasses, Tick
<1>3. /\ \A x \in Records : age'[x] < Retired => age[x] < Retired
      /\ \A x \in Records : (x # r \/ age[r] # Expired) /\ age[x] < Retired => age'[x] < Retired
      /\ \A x \in Records : age[x] = Retired => age'[x] = Retired
  BY <1>0, <1>2 DEF TypeOK, Phases, Open, Expired, Retired
<1>4. InFlight'
  <2>1. \A m \in puts : m.record \in Records
    BY <1>0, PutKinds
  <2> QED
    BY <1>0, <1>1, <1>2, <1>3, <2>1 DEF CopiesKept, InFlight
<1>5. PassesKnow'
  BY <1>0, <1>1, <1>3 DEF CopiesKept, PassesKnow, PassKnows
<1>6. RecoveriesKnow'
  BY <1>0, <1>1, <1>3, Operators DEF CopiesKept, RecoveriesKnow, RecoveryKnows
<1>7. Retiring'
  <2>1. \A t \in Retirers : retire[t] # None => retire[t] \in Records
    BY TypeGroups DEF BInv, RetireTypes
  <2> QED
    BY <1>0, <1>1, <1>3, <2>1 DEF CopiesKept, Retiring
<1>8. VerifiedBacked'
  BY <1>0, <1>1, <1>3 DEF CopiesKept, VerifiedBacked, Backed
<1> QED
  BY <1>0, <1>1, <1>4, <1>5, <1>6, <1>7, <1>8
  DEF CopiesKept, OneCopy, CopiesRecorded, Tagged

\* Copies go, and ledger rows after them, of records that may be purged.
LEMMA CopiesOfRetirement ==
  ASSUME BInv, NEW t \in Retirers, RetireStep(t) \/ AbortRetirement(t)
  PROVE  CopiesKept'
<1>0. CopiesKept /\ TypeOK /\ CopyTypes /\ LedgerTypes /\ RetireTypes
      /\ puts \subseteq CopyPuts \union RestorePuts
  BY TypeGroups DEF BInv
<1>1. /\ puts' = puts /\ version' = version /\ age' = age /\ tags' = tags
      /\ current' = current /\ copy' = copy /\ target' = target
      /\ pass' = pass /\ recovery' = recovery
  BY DEF RetireStep, StartRetirement, DeleteCopy, CommitRetirement, AbortRetirement,
         vars, rowVars, passVars, recoverVars, copyVars
<1>2. \A r \in Records : r # None
  BY EvidenceDirectAssumption
<1>3. /\ \A r \in Records : copies'[r] \subseteq copies[r]
      /\ \A r \in Records : age[r] < Retired => copies'[r] = copies[r]
  <2>1. CASE DeleteCopy(t)
    <3>1. PICK m \in doomed[t] :
            copies' = [copies EXCEPT ![retire[t]] = copies[retire[t]] \ {m}]
      BY <2>1 DEF DeleteCopy
    <3>2. age[retire[t]] = Retired
      BY <1>0, <3>1 DEF CopiesKept, Retiring
    <3> QED
      BY <1>0, <3>1, <3>2 DEF CopyTypes, Retired
  <2>2. CASE ~DeleteCopy(t)
    BY <2>2 DEF RetireStep, StartRetirement, CommitRetirement, AbortRetirement, copyVars
  <2> QED
    BY <2>1, <2>2
<1>4. /\ \A r \in Records : ledger[r] # "none" => ledger'[r] # "none" \/ copies'[r] = {}
      /\ \A r \in Records : age[r] < Retired =>
           /\ ledger'[r] = ledger[r] /\ expected'[r] = expected[r]
           /\ manifest'[r] = manifest[r] /\ restored'[r] = restored[r]
      /\ \A r \in Records : restored'[r] \in {0, restored[r]}
  <2>1. CASE CommitRetirement(t)
    <3>1. /\ retire[t] # None /\ copies[retire[t]] = {}
          /\ ledger' = [ledger EXCEPT ![retire[t]] = "none"]
          /\ expected' = [expected EXCEPT ![retire[t]] = 0]
          /\ manifest' = [manifest EXCEPT ![retire[t]] = None]
          /\ restored' = [restored EXCEPT ![retire[t]] = 0]
      BY <2>1 DEF CommitRetirement, CopiesGone
    <3>2. age[retire[t]] = Retired
      BY <1>0, <3>1 DEF CopiesKept, Retiring
    <3> QED
      BY <1>0, <1>3, <3>1, <3>2 DEF LedgerTypes, Retired
  <2>2. CASE ~CommitRetirement(t)
    BY <2>2 DEF RetireStep, StartRetirement, DeleteCopy, AbortRetirement, ledgerVars
  <2> QED
    BY <2>1, <2>2
<1>5. InFlight'
  <2>1. \A m \in puts : m.record \in Records
    BY <1>0, PutKinds
  <2> QED
    BY <1>0, <1>1, <1>4, <2>1 DEF CopiesKept, InFlight
<1>6. PassesKnow'
  BY <1>0, <1>1, <1>3, <1>4 DEF CopiesKept, PassesKnow, PassKnows
<1>7. RecoveriesKnow'
  BY <1>0, <1>1, <1>4, Operators DEF CopiesKept, RecoveriesKnow, RecoveryKnows
<1>8. Retiring'
  <2>1. \A u \in Retirers \ {t} : retire'[u] = retire[u] /\ doomed'[u] = doomed[u]
    BY <1>0 DEF RetireTypes, RetireStep, StartRetirement, DeleteCopy, CommitRetirement,
                AbortRetirement
  <2>2. /\ retire'[t] = None => doomed'[t] = {}
        /\ retire'[t] # None => age[retire'[t]] = Retired
    <3>1. CASE StartRetirement(t)
      BY <1>0, <1>2, <3>1 DEF StartRetirement, RetireTypes, Due, PurgeDue
    <3>2. CASE DeleteCopy(t)
      BY <1>0, <3>2 DEF DeleteCopy, RetireTypes, CopiesKept, Retiring
    <3>3. CASE CommitRetirement(t) \/ AbortRetirement(t)
      BY <1>0, <3>3 DEF CommitRetirement, AbortRetirement, RetireTypes
    <3> QED
      BY <3>1, <3>2, <3>3 DEF RetireStep
  <2> QED
    BY <1>0, <1>1, <2>1, <2>2 DEF CopiesKept, Retiring
<1>9. OneCopy' /\ CopiesRecorded'
  BY <1>0, <1>3, <1>4 DEF CopiesKept, OneCopy, CopiesRecorded
<1>10. VerifiedBacked'
  BY <1>0, <1>1, <1>3, <1>4 DEF CopiesKept, VerifiedBacked, Backed
<1> QED
  BY <1>0, <1>1, <1>5, <1>6, <1>7, <1>8, <1>9, <1>10 DEF CopiesKept, Tagged

(***************************************************************************)
(* Rows and versions under the backup's own steps.                         *)
(***************************************************************************)

\* Rows, calls and cleanups stay; versions may be lost, tags may be added.
LEMMA RowsAndVersions ==
  ASSUME TypeOK, RowsKept, Numbered, Cleaned,
         UNCHANGED <<row, callVars, cleanVars, age>>, minted' = minted,
         \A r \in Records : version'[r] = version[r] \/ (row[r] = "live" /\ ~Locked(r)),
         \A r \in Records : bucket'[r] \subseteq bucket[r] /\ tags[r] \subseteq tags'[r]
  PROVE  RowsKept' /\ Numbered' /\ Cleaned'
<1>1. RowsKept'
  BY RowsFrame DEF callVars
<1>2. Numbered'
  BY DEF Numbered
<1>3. \A r \in Records : RestoresOnly(r) => RestoresOnly(r)'
  BY StaysRestored
<1>4. Cleaned'
  BY <1>3, CleanedFrame DEF cleanVars
<1> QED
  BY <1>1, <1>2, <1>4

LEMMA RowsOfPass ==
  ASSUME BInv, NEW p \in Passes, PassStep(p) \/ LoseSession(p)
  PROVE  RowsKept' /\ Numbered' /\ Cleaned'
<1>0. TypeOK
  BY TypeGroups DEF BInv
<1>1. /\ UNCHANGED <<rowVars, s3Vars, callVars, cleanVars, age>> /\ tags' = tags
  BY PassKeeps DEF LoseSession, vars
<1> QED
  BY <1>0, <1>1, RowsAndVersions DEF BInv, rowVars, s3Vars

LEMMA RowsOfRecovery ==
  ASSUME BInv, NEW q \in Recoveries, RecoveryStep(q)
  PROVE  RowsKept' /\ Numbered' /\ Cleaned'
<1>0. TypeOK
  BY TypeGroups DEF BInv
<1>1. UNCHANGED <<row, s3Vars, callVars, cleanVars, age>> /\ tags' = tags
  BY RecoveryKeeps
<1>2. \A r \in Records : version'[r] = version[r] \/ (row[r] = "live" /\ ~Locked(r))
  <2>1. CASE CommitRestore(q)
    <3>1. version' = version
          \/ /\ SourceAvailable(RecoveryOf[q])
             /\ version' = [version EXCEPT ![RecoveryOf[q]] = target[q]]
      BY <2>1 DEF CommitRestore
    <3> QED
      BY <1>0, <3>1 DEF SourceAvailable, TypeOK
  <2>2. CASE ~CommitRestore(q)
    BY <2>2, RecoveryMoves
  <2> QED
    BY <2>1, <2>2
<1> QED
  BY <1>0, <1>1, <1>2, RowsAndVersions DEF BInv, s3Vars

LEMMA RowsOfLanding ==
  ASSUME BInv, NEW m \in puts, LandPut(m)
  PROVE  RowsKept' /\ Numbered' /\ Cleaned'
<1> DEFINE r == m.record
<1>0. TypeOK /\ CopyTypes /\ r \in Records
  BY TypeGroups, PutKinds DEF BInv
<1>1. UNCHANGED <<rowVars, callVars, cleanVars, age>>
  BY DEF LandPut
<1>2. CASE tags' = tags /\ UNCHANGED s3Vars
  BY <1>0, <1>1, <1>2, RowsAndVersions DEF BInv, rowVars, s3Vars
<1>3. CASE /\ bucket[r] = {}
           /\ minted' = [minted EXCEPT ![r] = minted[r] + 1]
           /\ bucket' = [bucket EXCEPT ![r] = bucket[r] \union {minted[r] + 1}]
           /\ tags' = [tags EXCEPT ![r] = tags[r] \union {<<minted[r] + 1, m.of>>}]
  <2>1. RowsKept'
    BY <1>0, <1>1, RowsFrame DEF BInv, rowVars, callVars
  <2>2. /\ minted'[r] = minted[r] + 1 /\ bucket'[r] = {minted[r] + 1}
        /\ <<minted[r] + 1, m.of>> \in tags'[r]
        /\ \A x \in Records \ {r} :
             minted'[x] = minted[x] /\ bucket'[x] = bucket[x] /\ tags'[x] = tags[x]
    BY <1>0, <1>3 DEF TypeOK, CopyTypes
  <2>3. Numbered'
    <3>1. minted[r] \in Nat
      BY <1>0 DEF TypeOK
    <3> QED
      BY <2>2, <3>1 DEF BInv, Numbered
  <2>4. \A x \in Records : RestoresOnly(x) => RestoresOnly(x)'
    BY <2>2 DEF RestoresOnly
  <2>5. Cleaned'
    BY <1>0, <1>1, <2>4, CleanedFrame DEF BInv, rowVars, cleanVars
  <2> QED
    BY <2>1, <2>3, <2>5
<1> QED
  BY <1>2, <1>3, LandsOnce

LEMMA RowsOfWorld ==
  ASSUME BInv, NEW r \in Records, LoseVersions(r) \/ TimePasses(r)
  PROVE  RowsKept' /\ Numbered' /\ Cleaned'
<1>0. TypeOK
  BY TypeGroups DEF BInv
<1>1. CASE LoseVersions(r)
  <2>1. UNCHANGED <<rowVars, callVars, cleanVars, age>> /\ minted' = minted /\ tags' = tags
    BY <1>1 DEF LoseVersions
  <2>2. \A x \in Records : bucket'[x] \subseteq bucket[x]
    BY <1>0, <1>1 DEF LoseVersions, TypeOK
  <2> QED
    BY <1>0, <2>1, <2>2, RowsAndVersions DEF BInv, rowVars
<1>2. CASE TimePasses(r)
  <2>1. /\ Tick(r) /\ row' = row /\ bucket' = bucket /\ minted' = minted /\ held' = held
        /\ todo' = todo /\ tags' = tags
    BY <1>2 DEF TimePasses, Tick, rowVars, s3Vars, cleanVars, backupVars
  <2>2. RowsKept'
    BY <1>0, <2>1, RowsTick DEF BInv
  <2>3. Numbered'
    BY <2>1 DEF BInv, Numbered
  <2>4. \A x \in Records : age[x] >= Stale => age'[x] >= Stale
    BY <1>0, <2>1 DEF Tick, TypeOK, Phases, Open, Retired, Stale
  <2>5. \A x \in Records : RestoresOnly(x) => RestoresOnly(x)'
    BY <2>1 DEF RestoresOnly
  <2>6. Cleaned'
    BY <1>0, <2>1, <2>4, <2>5, CleanedFrame DEF BInv
  <2> QED
    BY <2>2, <2>3, <2>6
<1> QED
  BY <1>1, <1>2

LEMMA RowsOfRetirement ==
  ASSUME BInv, NEW t \in Retirers, RetireStep(t) \/ AbortRetirement(t)
  PROVE  RowsKept' /\ Numbered' /\ Cleaned'
<1>0. TypeOK
  BY TypeGroups DEF BInv
<1>1. UNCHANGED <<rowVars, s3Vars, callVars, cleanVars, age>> /\ tags' = tags
  BY DEF RetireStep, StartRetirement, DeleteCopy, CommitRetirement, AbortRetirement, vars,
         copyVars
<1> QED
  BY <1>0, <1>1, RowsAndVersions DEF BInv, rowVars, s3Vars

LEMMA RowsOfLostPut ==
  ASSUME BInv, NEW m \in puts, LosePut(m)
  PROVE  RowsKept' /\ Numbered' /\ Cleaned'
<1>0. TypeOK
  BY TypeGroups DEF BInv
<1>1. UNCHANGED <<rowVars, s3Vars, callVars, cleanVars, age>> /\ tags' = tags
  BY DEF LosePut, vars
<1> QED
  BY <1>0, <1>1, RowsAndVersions DEF BInv, rowVars, s3Vars

(***************************************************************************)
(* The invariant is inductive.                                             *)
(***************************************************************************)

LEMMA BackupInitInv == BackupInit => BInv
<1> SUFFICES ASSUME BackupInit
             PROVE  BInv
  OBVIOUS
<1>1. TypeOK /\ RowsKept
  BY InitInv DEF BackupInit, DInv, RowsKept
<1>2. /\ LedgerTypes /\ CopyTypes /\ puts \subseteq CopyPuts \union RestorePuts
      /\ PassTypes /\ CopyHeld /\ RecoveryTypes /\ RetireTypes /\ losses \in Nat
  BY DEF BackupInit, LedgerTypes, CopyTypes, PassTypes, CopyHeld, RecoveryTypes, RetireTypes
<1>3. BackupTypeOK
  BY <1>1, <1>2, TypeGroups
<1>4. Numbered /\ Cleaned
  BY DEF BackupInit, Init, Numbered, Cleaned
<1>5. InFlight /\ PassesKnow /\ Retiring /\ OneCopy /\ CopiesRecorded /\ Tagged
  BY DEF BackupInit, InFlight, PassesKnow, PassKnows, Retiring, OneCopy, CopiesRecorded, Tagged
<1>6. VerifiedBacked /\ RecoveriesKnow
  BY Operators DEF BackupInit, VerifiedBacked, RecoveriesKnow, RecoveryKnows
<1> QED
  BY <1>1, <1>3, <1>4, <1>5, <1>6 DEF BInv, CopiesKept

LEMMA BackupOperationInv ==
  ASSUME BInv, Operation, UNCHANGED backupVars
  PROVE  BInv'
<1>1. /\ TypeOK /\ LedgerTypes /\ CopyTypes /\ puts \subseteq CopyPuts \union RestorePuts
      /\ PassTypes /\ CopyHeld /\ RecoveryTypes /\ RetireTypes /\ losses \in Nat
  BY TypeGroups DEF BInv
<1>2. /\ UNCHANGED ledgerVars /\ UNCHANGED <<copyVars, tags>> /\ puts' = puts
      /\ UNCHANGED passVars /\ copy' = copy /\ UNCHANGED recoverVars /\ UNCHANGED retireVars
      /\ losses' = losses
  BY DEF backupVars
<1>3. TypeOK'
  BY <1>1, OperationTypes DEF BInv, RowsKept
<1>4. /\ LedgerTypes' /\ CopyTypes' /\ puts' \subseteq CopyPuts \union RestorePuts
      /\ PassTypes' /\ CopyHeld' /\ RecoveryTypes' /\ RetireTypes' /\ losses' \in Nat
  BY <1>1, <1>2, LedgerFrame, CopyFrame, PassFrame, RecoveryFrame, RetireFrame DEF CopyHeld
<1>5. BackupTypeOK'
  BY <1>3, <1>4, TypeGroupsNext
<1>6. RowsKept' /\ Numbered' /\ Cleaned'
  BY <1>1, <1>2, RowsOperation, VersionsOfOperation DEF BInv
<1> QED
  BY <1>5, <1>6, CopiesOfOperation DEF BInv

LEMMA BackupStutterInv ==
  ASSUME BInv, UNCHANGED <<vars, backupVars>>
  PROVE  BInv'
<1>1. /\ TypeOK /\ LedgerTypes /\ CopyTypes /\ puts \subseteq CopyPuts \union RestorePuts
      /\ PassTypes /\ CopyHeld /\ RecoveryTypes /\ RetireTypes /\ losses \in Nat
  BY TypeGroups DEF BInv
<1>2. /\ UNCHANGED vars /\ UNCHANGED ledgerVars /\ UNCHANGED <<copyVars, tags>> /\ puts' = puts
      /\ UNCHANGED passVars /\ copy' = copy /\ UNCHANGED recoverVars /\ UNCHANGED retireVars
      /\ losses' = losses
  BY DEF backupVars
<1>3. /\ TypeOK'
      /\ LedgerTypes' /\ CopyTypes' /\ puts' \subseteq CopyPuts \union RestorePuts
      /\ PassTypes' /\ CopyHeld' /\ RecoveryTypes' /\ RetireTypes' /\ losses' \in Nat
  BY <1>1, <1>2, DirectFrame, LedgerFrame, CopyFrame, PassFrame, RecoveryFrame, RetireFrame
  DEF CopyHeld
<1>4. BackupTypeOK'
  BY <1>3, TypeGroupsNext
<1>5. RowsKept' /\ Numbered' /\ Cleaned'
  BY <1>1, <1>2, RowsAndVersions DEF BInv, vars, rowVars, s3Vars
<1>6. CopiesKept'
  <2>1. /\ puts' = puts /\ version' = version /\ age' = age
        /\ ledger' = ledger /\ expected' = expected /\ manifest' = manifest
        /\ restored' = restored /\ current' = current /\ copy' = copy /\ target' = target
        /\ retire' = retire /\ doomed' = doomed /\ pass' = pass /\ recovery' = recovery
        /\ copies' = copies /\ tags' = tags
    BY <1>2 DEF vars, rowVars, ledgerVars, copyVars, passVars, recoverVars, retireVars
  <2>2. CopiesKept
    BY DEF BInv
  <2>3. PassesKnow' /\ RecoveriesKnow'
    BY <2>1, <2>2 DEF CopiesKept, PassesKnow, PassKnows, RecoveriesKnow, RecoveryKnows
  <2> QED
    BY <2>1, <2>2, <2>3 DEF CopiesKept, InFlight, Retiring, OneCopy, CopiesRecorded, Tagged,
                           VerifiedBacked, Backed
<1> QED
  BY <1>4, <1>5, <1>6 DEF BInv

LEMMA BackupStepInv == BInv /\ [BackupNext]_<<vars, backupVars>> => BInv'
<1> SUFFICES ASSUME BInv, [BackupNext]_<<vars, backupVars>>
             PROVE  BInv'
  OBVIOUS
<1>0. BackupTypeOK /\ PassesKnow /\ RecoveriesKnow
  BY DEF BInv, CopiesKept
<1>1. CASE Operation /\ UNCHANGED backupVars
  BY <1>1, BackupOperationInv
<1>2. ASSUME NEW p \in Passes, PassStep(p)
      PROVE  BInv'
  <2>1. BackupTypeOK'
    BY <1>0, <1>2, PassStepTypes
  <2> QED
    BY <1>2, <2>1, RowsOfPass, CopiesOfPass DEF BInv
<1>3. ASSUME NEW p \in Passes, LoseSession(p)
      PROVE  BInv'
  <2>1. BackupTypeOK'
    BY <1>0, <1>3, LoseSessionTypes
  <2> QED
    BY <1>3, <2>1, RowsOfPass, CopiesOfLostSession DEF BInv
<1>4. ASSUME NEW q \in Recoveries, RecoveryStep(q)
      PROVE  BInv'
  <2>1. BackupTypeOK'
    BY <1>0, <1>4, RecoveryStepTypes
  <2> QED
    BY <1>4, <2>1, RowsOfRecovery, CopiesOfRecovery, CopiesOfCommit DEF BInv
<1>5. ASSUME NEW m \in puts, LandPut(m) \/ LosePut(m)
      PROVE  BInv'
  <2>1. BackupTypeOK'
    BY <1>0, <1>5, PutTypes
  <2> QED
    BY <1>5, <2>1, RowsOfLanding, RowsOfLostPut, CopiesOfLanding, CopiesOfLostPut DEF BInv
<1>6. ASSUME NEW r \in Records, LoseVersions(r) \/ TimePasses(r)
      PROVE  BInv'
  <2>1. BackupTypeOK'
    BY <1>0, <1>6, WorldTypes
  <2> QED
    BY <1>6, <2>1, RowsOfWorld, CopiesOfLoss, CopiesOfTime DEF BInv
<1>7. ASSUME NEW t \in Retirers, RetireStep(t) \/ AbortRetirement(t)
      PROVE  BInv'
  <2>1. BackupTypeOK'
    BY <1>0, <1>7, RetireStepTypes
  <2> QED
    BY <1>7, <2>1, RowsOfRetirement, CopiesOfRetirement DEF BInv
<1>8. CASE UNCHANGED <<vars, backupVars>>
  BY <1>8, BackupStutterInv
<1> QED
  BY <1>1, <1>2, <1>3, <1>4, <1>5, <1>6, <1>7, <1>8 DEF BackupNext

(***************************************************************************)
(* The properties.                                                         *)
(***************************************************************************)

\* The rows, copies, ledger and processes of the backup always fit together.
THEOREM BackupInvariant == BackupSpec => []BInv
  BY BackupInitInv, BackupStepInv, PTL DEF BackupSpec

\* Every variable of direct evidence and of its backup keeps its type.
THEOREM BackupTypesHold == BackupSpec => []BackupTypeOK
<1>1. BInv => BackupTypeOK
  BY DEF BInv
<1> QED
  BY <1>1, BackupInvariant, PTL

(* Until it may be purged, a verified backup is the only copy under its    *)
(* key, of the version the ledger expects, and the row is bound to that    *)
(* version or to a restore of that copy: for any number of passes whose    *)
(* sessions end unnoticed and whose writes are lost or arrive late, and of *)
(* recoveries and retentions that stop anywhere.                           *)
THEOREM VerifiedCopiesStay == BackupSpec => []VerifiedHasCopy
<1>1. BInv => VerifiedHasCopy
  <2> SUFFICES ASSUME BInv, NEW r \in Records, ledger[r] = "verified", ~PurgeDue(r)
               PROVE  /\ copies[r] = {manifest[r]} /\ manifest[r].source = expected[r]
                      /\ \/ version[r] = expected[r]
                         \/ version[r] = restored[r] /\ <<version[r], manifest[r]>> \in tags[r]
    BY DEF VerifiedHasCopy
  <2>1. age[r] < Retired
    BY TypeGroups DEF BInv, PurgeDue, TypeOK, Phases, Open, Retired
  <2>2. Backed(r)
    BY <2>1 DEF BInv, CopiesKept, VerifiedBacked
  <2>3. copies[r] = {manifest[r]}
    BY <2>2 DEF BInv, CopiesKept, OneCopy, Backed
  <2> QED
    BY <2>2, <2>3 DEF Backed
<1> QED
  BY <1>1, BackupInvariant, PTL

(* Every copy in the backup bucket is of a record the ledger has a row of, *)
(* so that the retention finds it; a write that outlived its sender, its   *)
(* session or its pass makes no exception.                                 *)
THEOREM CopiesStayRecorded == BackupSpec => []CopiesRecorded
<1>1. BInv => CopiesRecorded
  BY DEF BInv, CopiesKept
<1> QED
  BY <1>1, BackupInvariant, PTL

(* However many recoveries of a record race, fail or repeat after further  *)
(* losses, one that reported success stays true while the record lives.    *)
THEOREM RecoveriesStand == BackupSpec => []RecoveryStands
<1>1. BInv => RecoveryStands
  BY DEF BInv, CopiesKept, RecoveriesKnow, RecoveryKnows, RecoveryStands
<1> QED
  BY <1>1, BackupInvariant, PTL

(* What lies under the key of a record that was purged is a restore: no    *)
(* upload, however late, is left behind by a cleanup.                      *)
THEOREM OnlyRestoresStay == BackupSpec => []OnlyRestoresLinger
<1>1. BInv => OnlyRestoresLinger
  BY DEF BInv, Cleaned, RestoresOnly, OnlyRestoresLinger
<1> QED
  BY <1>1, BackupInvariant, PTL

(* The quotas hold whatever the backup does beside the reservations.       *)
THEOREM BackupKeepsQuota == BackupSpec => []QuotaHolds
<1>1. BInv => QuotaHolds
  BY DEF BInv, RowsKept
<1> QED
  BY <1>1, BackupInvariant, PTL

(***************************************************************************)
(* The vault, with what the versions hold: a restored version holds the    *)
(* bytes of the upload its copy was made of.                               *)
(***************************************************************************)

Sources(r, v) == {tag[2].source : tag \in {u \in tags[r] : u[1] = v}}

\* The upload whose bytes the row is bound to.
Origin(r) ==
  IF Sources(r, version[r]) = {} THEN version[r]
  ELSE CHOOSE v \in Sources(r, version[r]) : TRUE

OriginVault == INSTANCE EvidenceVault WITH
  Nothing <- 0, Fits <- WithinQuota,
  kept <- Kept, content <- [r \in Records |-> Origin(r)],
  open <- {r \in Records : age[r] = Open},
  expired <- {r \in Records : age[r] >= Expired}

OriginSpec == OriginVault!Spec

\* Every restored version has its number and one copy it came from.
TagsNumbered ==
  \A r \in Records : \A tag \in tags[r] :
    /\ tag[1] \in 1 .. minted[r]
    /\ \A u \in tags[r] : u[1] = tag[1] => u = tag

\* Uploads come first, then the row is bound to one, then versions are restored.
BoundInOrder ==
  \A r \in Records :
    /\ version[r] <= minted[r]
    /\ tags[r] = {} => minted[r] <= MaxUploads[r]
    /\ tags[r] # {} => version[r] # 0
    /\ age[r] < Retired /\ restored[r] = 0 => Sources(r, version[r]) = {}

ReadsNumbered ==
  \A c \in Completes : /\ read[c] <= minted[Subject[c]]
                       /\ pc[c] \in {"recheck", "finalize"} => read[c] # 0

RestoresOfBound ==
  /\ \A m \in puts : m.kind = "restore" => version[m.record] # 0
  /\ \A q \in Recoveries : recovery[q] # "idle" => version[RecoveryOf[q]] # 0

Origins == TagsNumbered /\ BoundInOrder /\ ReadsNumbered /\ RestoresOfBound

\* A step that binds no row and stores no version.
LEMMA OriginsFrame ==
  ASSUME Origins, UNCHANGED <<version, minted, tags>>, ReadsNumbered',
         \A r \in Records :
           age'[r] < Retired /\ restored'[r] = 0 => age[r] < Retired /\ restored[r] = 0,
         \A m \in puts' : m.kind = "restore" => m \in puts \/ version[m.record] # 0,
         \A q \in Recoveries :
           recovery'[q] # "idle" => recovery[q] # "idle" \/ version[RecoveryOf[q]] # 0
  PROVE  Origins'
<1>1. TagsNumbered'
  BY DEF Origins, TagsNumbered
<1>2. BoundInOrder'
  BY DEF Origins, BoundInOrder, Sources
<1>3. RestoresOfBound'
  BY DEF Origins, RestoresOfBound
<1> QED
  BY <1>1, <1>2, <1>3 DEF Origins

\* Calls that read nothing new.
LEMMA ReadsStay ==
  ASSUME TypeOK, Origins, \A r \in Records : minted'[r] \in Nat /\ minted[r] <= minted'[r],
         \A c \in Completes : /\ read'[c] = read[c] \/ (read'[c] = 0 /\ pc'[c] = "denied")
                              /\ pc'[c] \in {pc[c], "denied", "confirm", "done"}
  PROVE  ReadsNumbered'
<1>1. \A c \in Completes : Subject[c] \in Records /\ read[c] \in Nat /\ minted[Subject[c]] \in Nat
  BY Kinds DEF TypeOK
<1> QED
  BY <1>1 DEF Origins, ReadsNumbered

LEMMA OriginsOfUpload ==
  ASSUME BInv, Origins, UNCHANGED backupVars, NEW r \in Records, Upload(r)
  PROVE  Origins'
<1>0. TypeOK /\ MaxUploads[r] \in Nat
  BY TypeGroups, EvidenceDirectAssumption DEF BInv
<1>1. /\ version' = version /\ age' = age /\ pc' = pc /\ read' = read
      /\ minted[r] < MaxUploads[r] /\ minted' = [minted EXCEPT ![r] = minted[r] + 1]
      /\ tags' = tags /\ restored' = restored /\ puts' = puts /\ recovery' = recovery
  BY DEF Upload, rowVars, callVars, backupVars, ledgerVars, recoverVars
<1>2. /\ minted'[r] = minted[r] + 1
      /\ \A x \in Records : minted[x] \in Nat /\ minted'[x] \in Nat /\ version[x] \in Nat
                            /\ minted[x] <= minted'[x]
      /\ \A x \in Records \ {r} : minted'[x] = minted[x]
  BY <1>0, <1>1 DEF TypeOK
<1>3. TagsNumbered'
  BY <1>1, <1>2 DEF Origins, TagsNumbered
<1>4. BoundInOrder'
  <2>1. ASSUME NEW x \in Records
        PROVE  /\ version[x] <= minted'[x]
               /\ tags[x] = {} => minted'[x] <= MaxUploads[x]
    BY <1>0, <1>1, <1>2 DEF Origins, BoundInOrder
  <2> QED
    BY <1>1, <2>1 DEF Origins, BoundInOrder, Sources
<1>5. ReadsNumbered'
  BY <1>0, <1>1, <1>2, ReadsStay
<1> QED
  BY <1>1, <1>3, <1>4, <1>5 DEF Origins, RestoresOfBound

\* Steps of calls other than the one that binds.
LEMMA OriginsOfReading ==
  ASSUME BInv, Origins, UNCHANGED backupVars,
         \/ \E r \in Records : PrepareStep(r)
         \/ \E c \in Completes : CompleteStep(c) /\ ~Finalize(c)
         \/ \E c \in Downloads : DownloadStep(c)
         \/ \E c \in Records \union Calls : CrashCall(c)
  PROVE  Origins'
<1>0. TypeOK /\ \A c \in Completes : Subject[c] \in Records
  BY TypeGroups, Kinds DEF BInv
<1>1. /\ age' = age /\ minted' = minted /\ version' = version
      /\ tags' = tags /\ restored' = restored /\ puts' = puts /\ recovery' = recovery
  BY DEF PrepareStep, MintRecord, CountReservations, InsertReservation, ReturnForm,
         CompleteStep, FindForComplete, VerifyUpload, RecheckUpload, ConfirmComplete,
         DownloadStep, FindForDownload, ReturnUrl, CrashCall,
         rowVars, s3Vars, backupVars, ledgerVars, recoverVars
<1>2. \A r \in Records : minted'[r] \in Nat /\ minted[r] <= minted'[r]
  BY <1>0, <1>1 DEF TypeOK
<1>3. ASSUME NEW r \in Records, PrepareStep(r)
      PROVE  ReadsNumbered'
  <2>1. read' = read /\ \E s \in Steps : pc' = [pc EXCEPT ![r] = s]
    BY <1>3 DEF PrepareStep, MintRecord, CountReservations, InsertReservation, ReturnForm, Goto,
                Steps
  <2>2. \A c \in Completes : pc'[c] = pc[c]
    BY <1>0, <2>1, OneMoves, Kinds
  <2> QED
    BY <1>0, <1>2, <2>1, <2>2, ReadsStay
<1>4. ASSUME NEW c \in Downloads, DownloadStep(c)
      PROVE  ReadsNumbered'
  <2>1. /\ \E s \in Steps : pc' = [pc EXCEPT ![c] = s]
        /\ \E v : read' = [read EXCEPT ![c] = v]
    <3>1. [read EXCEPT ![c] = read[c]] = read
      BY <1>0, Kinds DEF TypeOK
    <3>2. read' = read \/ \E v : read' = [read EXCEPT ![c] = v]
      BY <1>4 DEF DownloadStep, FindForDownload, ReturnUrl, Deny
    <3>3. \E s \in Steps : pc' = [pc EXCEPT ![c] = s]
      BY <1>4 DEF DownloadStep, FindForDownload, ReturnUrl, Deny, Goto, Steps
    <3> QED
      BY <3>1, <3>2, <3>3
  <2>2. \A d \in Completes : pc'[d] = pc[d] /\ read'[d] = read[d]
    BY <1>0, <2>1, OneMoves, Kinds DEF TypeOK
  <2> QED
    BY <1>0, <1>2, <2>2, ReadsStay
<1>5. ASSUME NEW c \in Records \union Calls, CrashCall(c)
      PROVE  ReadsNumbered'
  <2>1. /\ pc' = [pc EXCEPT ![c] = "denied"] /\ read' = [d \in Calls |-> IF d = c THEN 0 ELSE read[d]]
    BY <1>5 DEF CrashCall, Goto
  <2>2. \A d \in Completes : /\ pc'[d] = IF d = c THEN "denied" ELSE pc[d]
                             /\ read'[d] = IF d = c THEN 0 ELSE read[d]
    BY <1>0, <2>1, OneMoves, Kinds DEF Steps
  <2> QED
    BY <1>0, <1>2, <2>2, ReadsStay
<1>6. ASSUME NEW c \in Completes, CompleteStep(c), ~Finalize(c)
      PROVE  ReadsNumbered'
  <2> DEFINE r == Subject[c]
  <2>0. c \in Calls /\ r \in Records
    BY Kinds
  <2>1. CASE FindForComplete(c)
    <3>1. \/ /\ read' = [read EXCEPT ![c] = version[r]]
             /\ pc' = [pc EXCEPT ![c] = IF version[r] = 0 THEN "verify" ELSE "confirm"]
          \/ read' = [read EXCEPT ![c] = 0] /\ pc' = [pc EXCEPT ![c] = "denied"]
      BY <2>1 DEF FindForComplete, Goto, Deny
    <3>2. /\ read'[c] \in {0, version[r]} /\ pc'[c] \in {"verify", "confirm", "denied"}
          /\ \A d \in Completes \ {c} : read'[d] = read[d] /\ pc'[d] = pc[d]
      BY <1>0, <2>0, <3>1, Kinds DEF TypeOK
    <3> QED
      BY <1>0, <1>1, <2>0, <3>2 DEF Origins, ReadsNumbered, BoundInOrder, TypeOK
  <2>2. CASE VerifyUpload(c)
    <3>1. bucket[r] # {} => Latest(r) \in bucket[r] /\ bucket[r] \subseteq 1 .. minted[r]
      <4>1. bucket[r] \in SUBSET (1 .. minted[r]) /\ minted[r] \in Nat
        BY <1>0, <2>0 DEF BInv, Numbered, TypeOK
      <4> QED
        BY <4>1, LatestExists DEF Latest
    <3>2. \/ bucket[r] # {} /\ read' = [read EXCEPT ![c] = Latest(r)]
          \/ read' = [read EXCEPT ![c] = 0] /\ pc' = [pc EXCEPT ![c] = "denied"]
      BY <2>2 DEF VerifyUpload, Goto, Deny
    <3>3. /\ \E s \in Steps : pc' = [pc EXCEPT ![c] = s]
      BY <2>2 DEF VerifyUpload, Goto, Deny, Steps
    <3>4. /\ \/ read'[c] \in 1 .. minted[r]
             \/ read'[c] = 0 /\ pc'[c] = "denied"
          /\ \A d \in Completes \ {c} : read'[d] = read[d] /\ pc'[d] = pc[d]
      BY <1>0, <2>0, <3>1, <3>2, <3>3, Kinds DEF TypeOK
    <3> QED
      BY <1>0, <1>1, <2>0, <3>4 DEF Origins, ReadsNumbered, TypeOK
  <2>3. CASE RecheckUpload(c) \/ ConfirmComplete(c)
    <3>1. \/ read' = read /\ pc' = [pc EXCEPT ![c] = "finalize"] /\ pc[c] = "recheck"
          \/ read' = read /\ pc' = [pc EXCEPT ![c] = "done"]
          \/ read' = [read EXCEPT ![c] = 0] /\ pc' = [pc EXCEPT ![c] = "denied"]
      BY <2>3 DEF RecheckUpload, ConfirmComplete, Goto, Deny
    <3>2. /\ \/ read'[c] = read[c] /\ (pc'[c] = "done" \/ pc[c] = "recheck")
             \/ read'[c] = 0 /\ pc'[c] = "denied"
          /\ \A d \in Completes \ {c} : read'[d] = read[d] /\ pc'[d] = pc[d]
      BY <1>0, <2>0, <3>1, Kinds DEF TypeOK
    <3> QED
      BY <1>0, <1>1, <2>0, <3>2 DEF Origins, ReadsNumbered, TypeOK
  <2> QED
    BY <1>6, <2>1, <2>2, <2>3 DEF CompleteStep
<1>7. ReadsNumbered'
  BY <1>3, <1>4, <1>5, <1>6
<1> QED
  BY <1>1, <1>7, OriginsFrame

\* A row is bound before anything of it is restored.
LEMMA OriginsOfFinalize ==
  ASSUME BInv, Origins, UNCHANGED backupVars, NEW c \in Completes, Finalize(c)
  PROVE  Origins'
<1> DEFINE r == Subject[c]
<1>0. TypeOK /\ r \in Records /\ c \in Calls
  BY TypeGroups, Kinds DEF BInv
<1>1. /\ age' = age /\ minted' = minted
      /\ tags' = tags /\ restored' = restored /\ puts' = puts /\ recovery' = recovery
  BY DEF Finalize, s3Vars, backupVars, ledgerVars, recoverVars
<1>2. \A x \in Records :
        \/ version'[x] = version[x]
        \/ x = r /\ version[x] = 0 /\ version'[x] = read[c]
  <2>1. version' = version \/ version' = [version EXCEPT ![r] = Bind(r, read[c])]
    BY DEF Finalize
  <2> QED
    BY <1>0, <2>1 DEF Bind, TypeOK
<1>3. \/ read' = read /\ pc' = [pc EXCEPT ![c] = "confirm"]
      \/ read' = [read EXCEPT ![c] = 0] /\ pc' = [pc EXCEPT ![c] = "denied"]
  BY DEF Finalize, Goto, Deny
<1>4. ReadsNumbered'
  <2>1. \A d \in Completes : \/ read'[d] = read[d] /\ pc'[d] \in {pc[d], "confirm"}
                             \/ read'[d] = 0 /\ pc'[d] = "denied"
    BY <1>0, <1>3, Kinds DEF TypeOK
  <2>2. \A x \in Records : minted'[x] \in Nat /\ minted[x] <= minted'[x]
    BY <1>0, <1>1 DEF TypeOK
  <2> QED
    BY <1>0, <2>1, <2>2, ReadsStay
<1>5. BoundInOrder'
  <2>1. read[c] <= minted[r]
    BY DEF Origins, ReadsNumbered
  <2>2. ASSUME NEW x \in Records, version'[x] = version[x]
        PROVE  /\ version'[x] <= minted'[x]
               /\ tags'[x] = {} => minted'[x] <= MaxUploads[x]
               /\ tags'[x] # {} => version'[x] # 0
               /\ age'[x] < Retired /\ restored'[x] = 0 => Sources(x, version[x])' = {}
    BY <1>1, <2>2 DEF Origins, BoundInOrder, Sources
  <2>3. ASSUME version[r] = 0, version'[r] = read[c]
        PROVE  /\ version'[r] <= minted'[r]
               /\ tags'[r] = {} => minted'[r] <= MaxUploads[r]
               /\ tags'[r] # {} => version'[r] # 0
               /\ age'[r] < Retired /\ restored'[r] = 0 => Sources(r, version[r])' = {}
    <3>1. tags'[r] = {}
      BY <1>0, <1>1, <2>3 DEF Origins, BoundInOrder
    <3> QED
      BY <1>0, <1>1, <2>1, <2>3, <3>1 DEF Origins, BoundInOrder, Sources
  <2> QED
    BY <1>2, <2>2, <2>3 DEF BoundInOrder
<1>6. RestoresOfBound'
  <2>1. \A x \in Records : version[x] # 0 => version'[x] # 0
    BY <1>2
  <2>2. /\ \A m \in puts : m.record \in Records
        /\ \A q \in Recoveries : RecoveryOf[q] \in Records
    BY TypeGroups, PutKinds, Operators DEF BInv
  <2> QED
    BY <1>1, <2>1, <2>2 DEF Origins, RestoresOfBound
<1> QED
  BY <1>1, <1>4, <1>5, <1>6 DEF Origins, TagsNumbered

LEMMA OriginsOfOperation ==
  ASSUME BInv, Origins, Operation, UNCHANGED backupVars
  PROVE  Origins'
<1>1. ASSUME NEW k \in Cleaners, CleanupStep(k) \/ AbortCleanup(k)
      PROVE  Origins'
  <2>1. /\ version' = version /\ age' = age /\ minted' = minted /\ pc' = pc /\ read' = read
        /\ tags' = tags /\ restored' = restored /\ puts' = puts /\ recovery' = recovery
    BY <1>1 DEF CleanupStep, SelectRows, ListVersions, DeleteVersion, MarkPurged, CommitCleanup,
                RefuseBatch, AbortCleanup, RollBack, rowVars, s3Vars, callVars, backupVars, ledgerVars,
                recoverVars
  <2>2. ReadsNumbered'
    BY <2>1 DEF Origins, ReadsNumbered
  <2> QED
    BY <2>1, <2>2, OriginsFrame
<1> QED
  BY <1>1, OriginsOfUpload, OriginsOfReading, OriginsOfFinalize DEF Operation

\* The backup's own steps, apart from a restore that arrives or is bound.
LEMMA OriginsOfBackup ==
  ASSUME BInv, Origins,
         \/ \E p \in Passes : PassStep(p) \/ LoseSession(p)
         \/ \E q \in Recoveries : RecoveryStep(q) /\ ~CommitRestore(q)
         \/ \E m \in puts : LosePut(m)
         \/ \E r \in Records : LoseVersions(r) \/ TimePasses(r)
         \/ \E t \in Retirers : RetireStep(t) \/ AbortRetirement(t)
  PROVE  Origins'
<1>0. TypeOK /\ LedgerTypes /\ RetireTypes /\ CopiesKept
  BY TypeGroups DEF BInv
<1>1. UNCHANGED <<minted, tags, pc, read>>
  BY RecoveryKeeps, PassKeeps
  DEF LoseSession, LosePut, LoseVersions, TimePasses, Tick, RetireStep, StartRetirement,
      DeleteCopy, CommitRetirement, AbortRetirement, vars, s3Vars, callVars, copyVars, backupVars
<1>2. version' = version
  BY RecoveryMoves, PassKeeps
  DEF LoseSession, LosePut, LoseVersions, TimePasses, Tick, RetireStep, StartRetirement,
      DeleteCopy, CommitRetirement, AbortRetirement, vars, rowVars
<1>3. ReadsNumbered'
  BY <1>1 DEF Origins, ReadsNumbered
<1>4. \A r \in Records :
        age'[r] < Retired /\ restored'[r] = 0 => age[r] < Retired /\ restored[r] = 0
  <2>1. ASSUME NEW t \in Retirers, RetireStep(t) \/ AbortRetirement(t)
        PROVE  \A r \in Records : age'[r] < Retired => age[r] < Retired /\ restored'[r] = restored[r]
    <3>1. age' = age
      BY <2>1 DEF RetireStep, StartRetirement, DeleteCopy, CommitRetirement, AbortRetirement, vars
    <3>2. CASE CommitRetirement(t)
      <4>1. retire[t] # None /\ restored' = [restored EXCEPT ![retire[t]] = 0]
        BY <3>2 DEF CommitRetirement, CopiesGone
      <4>2. ~(age[retire[t]] < Retired)
        BY <1>0, <4>1 DEF CopiesKept, Retiring, Retired
      <4> QED
        BY <1>0, <3>1, <4>1, <4>2 DEF LedgerTypes
    <3>3. CASE ~CommitRetirement(t)
      BY <2>1, <3>1, <3>3 DEF RetireStep, StartRetirement, DeleteCopy, AbortRetirement, ledgerVars
    <3> QED
      BY <3>2, <3>3
  <2>2. ASSUME NEW r \in Records, TimePasses(r)
        PROVE  restored' = restored /\ \A x \in Records : age'[x] < Retired => age[x] < Retired
    <3>1. restored' = restored /\ age[r] < Retired /\ age' = [age EXCEPT ![r] = age[r] + 1]
      BY <2>2 DEF TimePasses, Tick, backupVars, ledgerVars
    <3> QED
      BY <1>0, <3>1 DEF TypeOK
  <2>3. ASSUME \/ \E p \in Passes : PassStep(p) \/ LoseSession(p)
               \/ \E q \in Recoveries : RecoveryStep(q) /\ ~CommitRestore(q)
               \/ \E m \in puts : LosePut(m)
               \/ \E r \in Records : LoseVersions(r)
        PROVE  restored' = restored /\ age' = age
    BY <2>3, PassKeeps, RecoveryKeeps, RecoveryMoves
    DEF LoseSession, LosePut, LoseVersions, vars, ledgerVars
  <2> QED
    BY <2>1, <2>2, <2>3
<1>5. \A m \in puts' : m.kind = "restore" => m \in puts \/ version[m.record] # 0
  <2>1. ASSUME NEW q \in Recoveries, RecoveryStep(q)
        PROVE  \A m \in puts' : m.kind = "restore" => m \in puts \/ version[m.record] # 0
    <3>1. CASE SendRestore(q)
      <4>1. puts' \subseteq puts \union {Put(q, RecoveryOf[q], "restore", copy[q])}
            /\ recovery[q] # "idle"
        BY <3>1 DEF SendRestore
      <4> QED
        BY <4>1 DEF Put, Origins, RestoresOfBound
    <3>2. CASE ~SendRestore(q)
      BY <2>1, <3>2 DEF RecoveryStep, LoadRecovery, CheckRestored, RecheckRestored, CommitRestore,
                        AbandonRecovery
    <3> QED
      BY <3>1, <3>2
  <2>2. ASSUME NEW p \in Passes, PassStep(p) \/ LoseSession(p)
        PROVE  \A m \in puts' : m.kind = "restore" => m \in puts
    <3>1. CASE SendCopy(p)
      BY <3>1 DEF SendCopy, Put
    <3>2. CASE ~SendCopy(p)
      BY <2>2, <3>2 DEF PassStep, StartPass, ReserveIntent, CheckCopy, RecheckCopy, ReadBack,
                        VerifyIntent, EndPass, GiveUpCopy, LoseSession
    <3> QED
      BY <3>1, <3>2
  <2>3. ASSUME \/ \E m \in puts : LosePut(m)
               \/ \E r \in Records : LoseVersions(r) \/ TimePasses(r)
               \/ \E t \in Retirers : RetireStep(t) \/ AbortRetirement(t)
        PROVE  puts' \subseteq puts
    BY <2>3 DEF LosePut, LoseVersions, TimePasses, RetireStep, StartRetirement, DeleteCopy,
                CommitRetirement, AbortRetirement, backupVars
  <2> QED
    BY <2>1, <2>2, <2>3
<1>6. \A q \in Recoveries :
        recovery'[q] # "idle" => recovery[q] # "idle" \/ version[RecoveryOf[q]] # 0
  <2>1. ASSUME NEW x \in Recoveries, RecoveryStep(x), ~CommitRestore(x)
        PROVE  \A q \in Recoveries :
                 recovery'[q] # "idle" => recovery[q] # "idle" \/ version[RecoveryOf[q]] # 0
    <3>1. \A q \in Recoveries \ {x} : recovery'[q] = recovery[q]
      BY <2>1, RecoveryMoves
    <3>2. recovery'[x] # "idle" => recovery[x] # "idle" \/ version[RecoveryOf[x]] # 0
      BY <2>1 DEF RecoveryStep, LoadRecovery, SourceAvailable, CheckRestored, SendRestore,
                  RecheckRestored, AbandonRecovery
    <3> QED
      BY <3>1, <3>2
  <2>2. ASSUME \/ \E p \in Passes : PassStep(p) \/ LoseSession(p)
               \/ \E m \in puts : LosePut(m)
               \/ \E r \in Records : LoseVersions(r) \/ TimePasses(r)
               \/ \E t \in Retirers : RetireStep(t) \/ AbortRetirement(t)
        PROVE  recovery' = recovery
    BY <2>2, PassKeeps
    DEF LoseSession, LosePut, LoseVersions, TimePasses, RetireStep, StartRetirement, DeleteCopy,
        CommitRetirement, AbortRetirement, recoverVars, backupVars
  <2> QED
    BY <2>1, <2>2
<1> QED
  BY <1>1, <1>2, <1>3, <1>4, <1>5, <1>6, OriginsFrame

\* A restored version gets a number of its own, after the one the row is bound to.
LEMMA OriginsOfLanding ==
  ASSUME BInv, Origins, NEW m \in puts, LandPut(m)
  PROVE  /\ Origins'
         /\ \A r \in Records : Sources(r, version[r])' = Sources(r, version[r])
<1> DEFINE r == m.record
<1>0. TypeOK /\ CopyTypes /\ r \in Records
  BY TypeGroups, PutKinds DEF BInv
<1>1. /\ puts' \subseteq puts /\ version' = version /\ age' = age /\ restored' = restored
      /\ pc' = pc /\ read' = read
      /\ \A q \in Recoveries :
           recovery'[q] = recovery[q] \/ (recovery[q] = "wait" /\ recovery'[q] = "recheck")
  BY LandMoves DEF LandPut, callVars
<1>2. CASE tags' = tags /\ minted' = minted
  <2>1. ReadsNumbered'
    BY <1>1, <1>2 DEF Origins, ReadsNumbered
  <2>2. Origins'
    BY <1>1, <1>2, <2>1, OriginsFrame
  <2> QED
    BY <1>1, <1>2, <2>2 DEF Sources
<1>3. CASE /\ m.kind = "restore"
           /\ minted' = [minted EXCEPT ![r] = minted[r] + 1]
           /\ tags' = [tags EXCEPT ![r] = tags[r] \union {<<minted[r] + 1, m.of>>}]
  <2>1. /\ minted'[r] = minted[r] + 1 /\ tags'[r] = tags[r] \union {<<minted[r] + 1, m.of>>}
        /\ \A x \in Records \ {r} : minted'[x] = minted[x] /\ tags'[x] = tags[x]
        /\ \A x \in Records : minted[x] \in Nat /\ version[x] \in Nat
    BY <1>0, <1>3 DEF TypeOK, CopyTypes
  <2>2. \A x \in Records : version[x] <= minted[x]
    BY DEF Origins, BoundInOrder
  <2>3. \A x \in Records : \A tag \in tags'[x] : tag[1] = version[x] => tag \in tags[x]
    BY <2>1, <2>2
  <2>4. \A x \in Records : Sources(x, version[x])' = Sources(x, version[x])
    <3>1. ASSUME NEW x \in Records
          PROVE  {u \in tags'[x] : u[1] = version[x]} = {u \in tags[x] : u[1] = version[x]}
      BY <2>1, <2>3
    <3> QED
      BY <1>1, <3>1 DEF Sources
  <2>5. TagsNumbered'
    <3>1. \A x \in Records \ {r} : \A tag \in tags'[x] :
            tag[1] \in 1 .. minted'[x] /\ \A u \in tags'[x] : u[1] = tag[1] => u = tag
      BY <2>1 DEF Origins, TagsNumbered
    <3>2. \A tag \in tags[r] :
            tag[1] \in 1 .. minted[r] /\ \A u \in tags[r] : u[1] = tag[1] => u = tag
      BY <1>0 DEF Origins, TagsNumbered
    <3>3. \A tag \in tags'[r] :
            tag[1] \in 1 .. minted'[r] /\ \A u \in tags'[r] : u[1] = tag[1] => u = tag
      <4>1. \A tag \in tags[r] : tag[1] \in 1 .. minted'[r] /\ tag[1] # minted[r] + 1
        <5>1. \A n \in 1 .. minted[r] : n \in 1 .. minted'[r] /\ n # minted[r] + 1
          BY <1>0, <2>1
        <5> QED
          BY <3>2, <5>1
      <4>2. minted[r] + 1 \in 1 .. minted'[r]
        BY <1>0, <2>1
      <4> DEFINE new == <<minted[r] + 1, m.of>>
      <4>3. tags'[r] = tags[r] \union {new} /\ new[1] = minted[r] + 1
        BY <2>1
      <4> HIDE DEF new
      <4> QED
        BY <3>2, <4>1, <4>2, <4>3
    <3> QED
      BY <3>1, <3>3 DEF TagsNumbered
  <2>6. ReadsNumbered'
    <3>1. \A x \in Records : minted'[x] \in Nat /\ minted[x] <= minted'[x]
      BY <2>1
    <3> QED
      BY <1>0, <1>1, <3>1, ReadsStay
  <2>7. BoundInOrder'
    <3>1. version[r] # 0
      BY <1>3 DEF Origins, RestoresOfBound
    <3>2. \A x \in Records : version[x] <= minted'[x]
      BY <2>1, <2>2
    <3> QED
      BY <1>1, <2>1, <2>4, <3>1, <3>2 DEF Origins, BoundInOrder
  <2>8. RestoresOfBound'
    BY <1>1 DEF Origins, RestoresOfBound
  <2> QED
    BY <2>4, <2>5, <2>6, <2>7, <2>8 DEF Origins
<1> QED
  BY <1>2, <1>3, LandsOnce DEF s3Vars

\* A row is bound to a restore of a copy of the version it was bound to.
LEMMA OriginsOfCommit ==
  ASSUME BInv, Origins, NEW q \in Recoveries, CommitRestore(q)
  PROVE  /\ Origins'
         /\ \A r \in Records : version'[r] # version[r] =>
              /\ version[r] # 0 /\ version'[r] # 0 /\ Sources(r, version[r]) = {}
              /\ Sources(r, version[r])' = {version[r]}
<1> DEFINE r == RecoveryOf[q]
           v == target[q]
<1>0. /\ TypeOK /\ LedgerTypes /\ CopyTypes /\ RecoveryTypes /\ CopiesKept /\ r \in Records
      /\ recovery[q] = "commit"
  BY TypeGroups, Operators DEF BInv, CommitRestore
<1>1. /\ age' = age /\ minted' = minted /\ tags' = tags /\ puts' = puts /\ pc' = pc
      /\ read' = read
      /\ \A x \in Recoveries : recovery'[x] # "idle" => recovery[x] # "idle"
  <2>1. \A x \in Recoveries \ {q} : recovery'[x] = recovery[x]
    BY <1>0 DEF CommitRestore, Quit, RecoveryTypes
  <2> QED
    BY <1>0, <2>1 DEF CommitRestore, s3Vars, callVars
<1>2. ReadsNumbered'
  BY <1>1 DEF Origins, ReadsNumbered
<1>3. CASE version' = version /\ restored' = restored
  BY <1>1, <1>2, <1>3, OriginsFrame
<1>4. CASE /\ SourceAvailable(r) /\ ledger[r] = "verified" /\ Rebindable(r, v)
           /\ version' = [version EXCEPT ![r] = v] /\ restored' = [restored EXCEPT ![r] = v]
  <2>1. age[r] < Retired
    BY <1>0, <1>4 DEF SourceAvailable, TypeOK, Phases, Open, Expired, Retired
  <2>2. /\ restored[r] = 0 /\ version[r] = expected[r] /\ version[r] # 0
    BY <1>4 DEF Rebindable, SourceAvailable
  <2>3. /\ copy[q] = manifest[r] /\ manifest[r].source = expected[r]
        /\ <<v, copy[q]>> \in tags[r]
    BY <1>0, <1>4, <2>1 DEF CopiesKept, RecoveriesKnow, RecoveryKnows, VerifiedBacked, Backed
  <2>4. /\ v \in 1 .. minted[r] /\ minted[r] \in Nat
        /\ \A u \in tags[r] : u[1] = v => u = <<v, copy[q]>>
    BY <1>0, <2>3 DEF Origins, TagsNumbered, TypeOK
  <2>5. Sources(r, version[r]) = {}
    BY <1>0, <2>1, <2>2 DEF Origins, BoundInOrder
  <2>6. {u \in tags[r] : u[1] = v} = {<<v, copy[q]>>}
    BY <2>3, <2>4
  <2>7. /\ version'[r] = v /\ restored'[r] = v
        /\ \A x \in Records \ {r} : version'[x] = version[x] /\ restored'[x] = restored[x]
    BY <1>0, <1>4 DEF TypeOK, LedgerTypes
  <2>8. Sources(r, version[r])' = {version[r]}
    BY <1>1, <2>2, <2>3, <2>6, <2>7 DEF Sources
  <2>9. BoundInOrder'
    <3>1. ASSUME NEW x \in Records \ {r}
          PROVE  /\ version'[x] <= minted'[x]
                 /\ tags'[x] = {} => minted'[x] <= MaxUploads[x]
                 /\ tags'[x] # {} => version'[x] # 0
                 /\ age'[x] < Retired /\ restored'[x] = 0 => Sources(x, version[x])' = {}
      BY <1>1, <2>7 DEF Origins, BoundInOrder, Sources
    <3>2. /\ version'[r] <= minted'[r] /\ version'[r] # 0 /\ restored'[r] # 0
          /\ tags'[r] # {}
      BY <1>1, <2>3, <2>4, <2>7
    <3> QED
      BY <3>1, <3>2 DEF BoundInOrder
  <2>10. RestoresOfBound'
    <3>1. \A x \in Records : version[x] # 0 => version'[x] # 0
      BY <2>4, <2>7
    <3>2. /\ \A m \in puts : m.record \in Records
          /\ \A x \in Recoveries : RecoveryOf[x] \in Records
      BY TypeGroups, PutKinds, Operators DEF BInv
    <3> QED
      BY <1>1, <3>1, <3>2 DEF Origins, RestoresOfBound
  <2>11. TagsNumbered'
    BY <1>1 DEF Origins, TagsNumbered
  <2>12. Origins'
    BY <1>2, <2>9, <2>10, <2>11 DEF Origins
  <2> QED
    BY <2>2, <2>4, <2>5, <2>7, <2>8, <2>12
<1> QED
  BY <1>3, <1>4 DEF CommitRestore

\* Whatever the versions' numbers, the bytes a row is bound to are the same.
LEMMA OriginStays ==
  ASSUME NEW r \in Records,
         \/ version'[r] = version[r] /\ Sources(r, version[r])' = Sources(r, version[r])
         \/ Sources(r, version[r]) = {} /\ Sources(r, version[r])' = {version[r]}
  PROVE  Origin(r)' = Origin(r)
<1> DEFINE Old == Sources(r, version[r])
           New == Sources(r, version[r])'
<1>1. /\ Origin(r) = IF Old = {} THEN version[r] ELSE CHOOSE v \in Old : TRUE
      /\ Origin(r)' = IF New = {} THEN version'[r] ELSE CHOOSE v \in New : TRUE
  BY DEF Origin
<1>2. CASE version'[r] = version[r] /\ New = Old
  <2> HIDE DEF Old, New
  <2> QED
    BY <1>1, <1>2
<1>3. CASE Old = {} /\ New = {version[r]}
  <2>1. (CHOOSE v \in {version[r]} : TRUE) = version[r]
    OBVIOUS
  <2> HIDE DEF Old, New
  <2> QED
    BY <1>1, <1>3, <2>1
<1> QED
  BY <1>2, <1>3

LEMMA OriginFrame ==
  ASSUME version' = version, tags' = tags
  PROVE  [r \in Records |-> Origin(r)]' = [r \in Records |-> Origin(r)]
  BY DEF Origin, Sources

LEMMA OriginVaultFrame ==
  ASSUME row' = row, version' = version, age' = age, tags' = tags
  PROVE  UNCHANGED OriginVault!vars
<1>1. Kept' = Kept
  BY DEF Kept
<1> QED
  BY <1>1, OriginFrame DEF OriginVault!vars

LEMMA OriginVaultInit == BackupInit => OriginVault!Init /\ Origins
<1> SUFFICES ASSUME BackupInit
             PROVE  OriginVault!Init /\ Origins
  OBVIOUS
<1>1. Kept = [r \in Records |-> "free"]
  BY DEF BackupInit, Init, Kept
<1>2. {r \in Records : age[r] = Open} = Records
  BY DEF BackupInit, Init
<1>3. {r \in Records : age[r] >= Expired} = {}
  BY DEF BackupInit, Init, Open, Expired
<1>4. \A r \in Records : /\ tags[r] = {} /\ version[r] = 0 /\ minted[r] = 0
                         /\ MaxUploads[r] \in Nat
  BY EvidenceDirectAssumption DEF BackupInit, Init
<1>5. [r \in Records |-> Origin(r)] = [r \in Records |-> 0]
  BY <1>4 DEF Origin, Sources
<1>6. OriginVault!Init
  BY <1>1, <1>2, <1>3, <1>5 DEF OriginVault!Init
<1>7. TagsNumbered /\ BoundInOrder
  BY <1>4 DEF TagsNumbered, BoundInOrder, Sources
<1>8. ReadsNumbered
  <2>1. \A c \in Completes : /\ c \in Calls /\ Subject[c] \in Records
                             /\ read[c] = 0 /\ pc[c] = "idle"
    BY Kinds DEF BackupInit, Init
  <2> QED
    BY <1>4, <2>1 DEF ReadsNumbered
<1>9. RestoresOfBound
  BY DEF BackupInit, RestoresOfBound
<1> QED
  BY <1>6, <1>7, <1>8, <1>9 DEF Origins

\* An insert reserves.
LEMMA InsertHolds ==
  ASSUME BInv, tags' = tags, NEW r \in Records, InsertReservation(r)
  PROVE  OriginVault!Next
<1>0. /\ version' = version /\ age' = age /\ pc[r] = "insert"
      /\ row' = [row EXCEPT ![r] = "live"]
  BY DEF InsertReservation
<1>1. TypeOK
  BY TypeGroups DEF BInv
<1>2. row[r] = "absent" /\ version[r] = 0 /\ WithinQuota(Counted \union {r})
  BY <1>0 DEF BInv, RowsKept, Prepared
<1>3. Kept' = [Kept EXCEPT ![r] = "reserved"]
  BY <1>0, <1>1, <1>2 DEF Kept, TypeOK
<1>4. {q \in Records : Kept[q] \in {"reserved", "held"}} = Counted
  BY <1>1, KeptOf DEF Counted
<1>5. Kept[r] = "free"
  BY <1>1, <1>2, KeptOf
<1>6. [x \in Records |-> Origin(x)]' = [x \in Records |-> Origin(x)]
  BY <1>0, OriginFrame
<1>7. OriginVault!Reserve(r)
  BY <1>0, <1>2, <1>3, <1>4, <1>5, <1>6 DEF OriginVault!Reserve, OriginVault!Occupied
<1> QED
  BY <1>7 DEF OriginVault!Next

\* A version that is bound is an upload, and held.
LEMMA FinalizeHolds ==
  ASSUME BInv, Origins, tags' = tags, NEW c \in Completes, Finalize(c)
  PROVE  [OriginVault!Next]_(OriginVault!vars)
<1> DEFINE r == Subject[c]
           content == [x \in Records |-> Origin(x)]
<1>0. row' = row /\ age' = age /\ pc[c] = "finalize"
  BY DEF Finalize
<1>1. /\ TypeOK /\ c \in Calls /\ r \in Records /\ version \in [Records -> Nat]
      /\ MaxUploads[r] \in Nat
  BY TypeGroups, Kinds, EvidenceDirectAssumption DEF BInv, TypeOK
<1>2. CASE version' = version
  BY <1>0, <1>2, OriginVaultFrame
<1>3. CASE Finalizable(r) /\ version[r] = 0 /\ version' = [version EXCEPT ![r] = read[c]]
  <2>1. row[r] = "live" /\ age[r] = Open
    BY <1>3 DEF Finalizable
  <2>2. read[c] # 0 /\ read[c] <= minted[r] /\ read[c] \in Nat
    BY <1>0, <1>1 DEF Origins, ReadsNumbered, TypeOK
  <2>3. tags[r] = {} /\ minted[r] <= MaxUploads[r] /\ minted[r] \in Nat
    BY <1>1, <1>3 DEF Origins, BoundInOrder, TypeOK
  <2>4. read[c] \in 1 .. MaxUploads[r]
    BY <1>1, <2>2, <2>3
  <2>5. read[c] \in Versions
    BY <1>1, <2>4 DEF Versions
  <2>6. Kept' = [Kept EXCEPT ![r] = "held"]
    BY <1>0, <1>1, <1>3, <2>1, <2>2 DEF Kept
  <2>7. Kept[r] = "reserved"
    BY <1>1, <1>3, <2>1, KeptOf
  <2>8. r \in {q \in Records : age[q] = Open}
    BY <1>1, <2>1
  <2>9. content' = [content EXCEPT ![r] = read[c]]
    <3>1. Origin(r)' = read[c]
      BY <1>1, <1>3, <2>3 DEF Origin, Sources
    <3>2. ASSUME NEW x \in Records \ {r}
          PROVE  Origin(x)' = Origin(x)
      <4>1. version'[x] = version[x]
        BY <1>1, <1>3
      <4>2. Sources(x, version[x])' = Sources(x, version[x])
        BY <4>1 DEF Sources
      <4> QED
        BY <4>1, <4>2, OriginStays
    <3> QED
      BY <3>1, <3>2
  <2> HIDE DEF content
  <2>10. OriginVault!Hold(r, read[c])
    BY <1>0, <1>3, <2>6, <2>7, <2>8, <2>9 DEF OriginVault!Hold, content
  <2> QED
    BY <1>1, <2>5, <2>10 DEF OriginVault!Next
<1>4. version[r] # 0 => [version EXCEPT ![r] = version[r]] = version
  BY <1>1
<1> QED
  BY <1>2, <1>3, <1>4 DEF Finalize, Bind

\* Time closes an upload, or expires a record.
LEMMA TimeHolds ==
  ASSUME BInv, tags' = tags, NEW r \in Records, Tick(r)
  PROVE  [OriginVault!Next]_(OriginVault!vars)
<1>0. /\ row' = row /\ version' = version /\ age' = [age EXCEPT ![r] = age[r] + 1]
      /\ age[r] < Retired
  BY DEF Tick, rowVars
<1>1. age \in [Records -> 0 .. 4]
  BY TypeGroups DEF BInv, TypeOK, Phases, Open, Retired
<1>2. Kept' = Kept /\ [x \in Records |-> Origin(x)]' = [x \in Records |-> Origin(x)]
  BY <1>0, OriginFrame DEF Kept
<1>3. age'[r] = age[r] + 1 /\ \A q \in Records \ {r} : age'[q] = age[q]
  BY <1>0, <1>1
<1>4. CASE age[r] = Open
  <2>1. {q \in Records : age'[q] = Open} = {q \in Records : age[q] = Open} \ {r}
    BY <1>1, <1>3, <1>4 DEF Open
  <2>2. {q \in Records : age'[q] >= Expired} = {q \in Records : age[q] >= Expired}
    BY <1>1, <1>3, <1>4 DEF Open, Expired
  <2>3. OriginVault!CloseUpload(r)
    BY <1>2, <2>1, <2>2 DEF OriginVault!CloseUpload
  <2> QED
    BY <2>3 DEF OriginVault!Next
<1>5. CASE age[r] # Open
  <2>1. {q \in Records : age'[q] = Open} = {q \in Records : age[q] = Open}
    BY <1>1, <1>3, <1>5 DEF Open
  <2>2. CASE age[r] = Stale
    <3>1. {q \in Records : age'[q] >= Expired} = {q \in Records : age[q] >= Expired} \union {r}
      BY <1>1, <1>3, <2>2 DEF Stale, Expired
    <3>2. r \notin {q \in Records : age[q] = Open}
      BY <1>5
    <3>3. OriginVault!Expire(r)
      BY <1>2, <2>1, <3>1, <3>2 DEF OriginVault!Expire
    <3> QED
      BY <3>3 DEF OriginVault!Next
  <2>3. CASE age[r] # Stale
    <3>1. {q \in Records : age'[q] >= Expired} = {q \in Records : age[q] >= Expired}
      BY <1>1, <1>3, <1>5, <2>3 DEF Open, Stale, Expired
    <3> QED
      BY <1>2, <2>1, <3>1 DEF OriginVault!vars
  <2> QED
    BY <2>2, <2>3
<1> QED
  BY <1>4, <1>5

\* A cleanup that commits gives up the rows it held.
LEMMA CommitHolds ==
  ASSUME BInv, tags' = tags, NEW k \in Cleaners, CommitCleanup(k)
  PROVE  OriginVault!Next
<1>0. version' = version /\ age' = age
  BY DEF CommitCleanup
<1>1. TypeOK /\ held[k] \in SUBSET Records /\ RowsKept
  BY TypeGroups DEF BInv, TypeOK
<1>2. /\ \A r \in held[k] : Eligible(r) /\ row[r] = "live"
      /\ \A r \in held[k] : row'[r] \in {"purged", "pruned"}
      /\ \A r \in Records \ held[k] :
           row'[r] = row[r] \/ (row[r] = "purged" /\ row'[r] = "pruned")
  BY <1>1, RowsCommit DEF RowsKept, Cleaning, Eligible
<1>3. Kept' = [r \in Records |-> IF r \in held[k] THEN "gone" ELSE Kept[r]]
  <2>1. Kept' = [r \in Records |->
          CASE row'[r] = "absent" -> "free"
            [] row'[r] = "live"   -> IF version'[r] = 0 THEN "reserved" ELSE "held"
            [] OTHER             -> "gone"]
    BY DEF Kept
  <2>2. ASSUME NEW r \in Records, r \in held[k]
        PROVE  Kept'[r] = "gone"
    BY <1>2, <2>1, <2>2
  <2>3. ASSUME NEW r \in Records, r \notin held[k]
        PROVE  Kept'[r] = Kept[r]
    <3>1. row'[r] = row[r] \/ (row[r] = "purged" /\ row'[r] = "pruned")
      BY <1>2, <2>3
    <3> QED
      BY <1>0, <2>1, <3>1 DEF Kept
  <2> QED
    BY <2>1, <2>2, <2>3
<1>4. ASSUME NEW r \in held[k]
      PROVE  \/ Kept[r] = "reserved" /\ r \notin {q \in Records : age[q] = Open}
             \/ Kept[r] = "held" /\ r \in {q \in Records : age[q] >= Expired}
  <2>1. r \in Records /\ Eligible(r) /\ age[r] \in 0 .. 4
    BY <1>1, <1>2 DEF TypeOK, Phases, Open, Retired
  <2> QED
    BY <1>1, <2>1, KeptOf DEF Eligible, Open, Stale, Expired
<1>5. [x \in Records |-> Origin(x)]' = [x \in Records |-> Origin(x)]
  BY <1>0, OriginFrame
<1>6. OriginVault!GiveUp(held[k])
  BY <1>0, <1>3, <1>4, <1>5 DEF OriginVault!GiveUp
<1> QED
  BY <1>1, <1>6 DEF OriginVault!Next

LEMMA OperationHolds ==
  ASSUME BInv, Origins, tags' = tags, Operation
  PROVE  [OriginVault!Next]_(OriginVault!vars)
<1>1. ASSUME NEW r \in Records, PrepareStep(r)
      PROVE  [OriginVault!Next]_(OriginVault!vars)
  <2>1. CASE InsertReservation(r)
    BY <2>1, InsertHolds
  <2>2. CASE MintRecord(r) \/ CountReservations(r) \/ ReturnForm(r)
    BY <2>2, OriginVaultFrame DEF MintRecord, CountReservations, ReturnForm, rowVars
  <2> QED
    BY <1>1, <2>1, <2>2 DEF PrepareStep
<1>2. ASSUME NEW r \in Records, Upload(r)
      PROVE  [OriginVault!Next]_(OriginVault!vars)
  BY <1>2, OriginVaultFrame DEF Upload, rowVars
<1>3. ASSUME NEW c \in Completes, CompleteStep(c)
      PROVE  [OriginVault!Next]_(OriginVault!vars)
  <2>1. CASE Finalize(c)
    BY <2>1, FinalizeHolds
  <2>2. CASE FindForComplete(c) \/ VerifyUpload(c) \/ RecheckUpload(c) \/ ConfirmComplete(c)
    BY <2>2, OriginVaultFrame
    DEF FindForComplete, VerifyUpload, RecheckUpload, ConfirmComplete, rowVars
  <2> QED
    BY <1>3, <2>1, <2>2 DEF CompleteStep
<1>4. ASSUME NEW c \in Downloads, DownloadStep(c)
      PROVE  [OriginVault!Next]_(OriginVault!vars)
  BY <1>4, OriginVaultFrame DEF DownloadStep, FindForDownload, ReturnUrl, rowVars
<1>5. ASSUME NEW c \in Records \union Calls, CrashCall(c)
      PROVE  [OriginVault!Next]_(OriginVault!vars)
  BY <1>5, OriginVaultFrame DEF CrashCall, rowVars
<1>6. ASSUME NEW k \in Cleaners, CleanupStep(k) \/ AbortCleanup(k)
      PROVE  [OriginVault!Next]_(OriginVault!vars)
  <2>1. CASE CommitCleanup(k)
    BY <2>1, CommitHolds
  <2>2. CASE SelectRows(k) \/ ListVersions(k) \/ DeleteVersion(k) \/ MarkPurged(k)
    BY <2>2, OriginVaultFrame DEF SelectRows, ListVersions, DeleteVersion, MarkPurged, rowVars
  <2>3. CASE RefuseBatch(k) \/ AbortCleanup(k)
    BY <2>3, OriginVaultFrame DEF RefuseBatch, AbortCleanup, RollBack, rowVars
  <2> QED
    BY <1>6, <2>1, <2>2, <2>3 DEF CleanupStep
<1> QED
  BY <1>1, <1>2, <1>3, <1>4, <1>5, <1>6 DEF Operation

\* Passes, losses and retentions are nothing to the vault, nor is a restore.
LEMMA BackupHolds ==
  ASSUME BInv, Origins,
         \/ \E p \in Passes : PassStep(p) \/ LoseSession(p)
         \/ \E q \in Recoveries : RecoveryStep(q)
         \/ \E m \in puts : LandPut(m) \/ LosePut(m)
         \/ \E r \in Records : LoseVersions(r)
         \/ \E t \in Retirers : RetireStep(t) \/ AbortRetirement(t)
  PROVE  UNCHANGED OriginVault!vars
<1>1. ASSUME \/ \E p \in Passes : PassStep(p) \/ LoseSession(p)
             \/ \E q \in Recoveries : RecoveryStep(q) /\ ~CommitRestore(q)
             \/ \E m \in puts : LosePut(m)
             \/ \E r \in Records : LoseVersions(r)
             \/ \E t \in Retirers : RetireStep(t) \/ AbortRetirement(t)
      PROVE  UNCHANGED OriginVault!vars
  <2>1. row' = row /\ version' = version /\ age' = age /\ tags' = tags
    BY <1>1, RecoveryKeeps, RecoveryMoves, PassKeeps
    DEF LoseSession, LosePut, LoseVersions, RetireStep, StartRetirement, DeleteCopy,
        CommitRetirement, AbortRetirement, vars, rowVars, copyVars
  <2> QED
    BY <2>1, OriginVaultFrame
<1>2. ASSUME NEW m \in puts, LandPut(m)
      PROVE  UNCHANGED OriginVault!vars
  <2>1. row' = row /\ version' = version /\ age' = age
    BY <1>2 DEF LandPut, rowVars
  <2>2. Kept' = Kept
    BY <2>1 DEF Kept
  <2>3. \A r \in Records : Origin(r)' = Origin(r)
    BY <1>2, <2>1, OriginsOfLanding, OriginStays
  <2> QED
    BY <2>1, <2>2, <2>3 DEF OriginVault!vars
<1>3. ASSUME NEW q \in Recoveries, CommitRestore(q)
      PROVE  UNCHANGED OriginVault!vars
  <2>1. row' = row /\ age' = age /\ tags' = tags
    BY <1>3 DEF CommitRestore
  <2>2. \A r \in Records : version'[r] # version[r] =>
          /\ version[r] # 0 /\ version'[r] # 0 /\ Sources(r, version[r]) = {}
          /\ Sources(r, version[r])' = {version[r]}
    BY <1>3, OriginsOfCommit
  <2>3. \A r \in Records : version'[r] = 0 <=> version[r] = 0
    BY <2>2
  <2>4. Kept' = Kept
    BY <2>1, <2>3 DEF Kept
  <2>5. \A r \in Records : Origin(r)' = Origin(r)
    <3>1. ASSUME NEW r \in Records, version'[r] = version[r]
          PROVE  Sources(r, version[r])' = Sources(r, version[r])
      BY <2>1, <3>1 DEF Sources
    <3> QED
      BY <2>2, <3>1, OriginStays
  <2> QED
    BY <2>1, <2>4, <2>5 DEF OriginVault!vars
<1> QED
  BY <1>1, <1>2, <1>3

LEMMA OriginStep ==
  ASSUME BInv, Origins, [BackupNext]_<<vars, backupVars>>
  PROVE  Origins' /\ [OriginVault!Next]_(OriginVault!vars)
<1>1. CASE Operation /\ UNCHANGED backupVars
  <2>1. tags' = tags
    BY <1>1 DEF backupVars
  <2> QED
    BY <1>1, <2>1, OriginsOfOperation, OperationHolds
<1>2. ASSUME NEW r \in Records, TimePasses(r)
      PROVE  Origins' /\ [OriginVault!Next]_(OriginVault!vars)
  <2>1. tags' = tags /\ Tick(r)
    BY <1>2 DEF TimePasses, backupVars
  <2> QED
    BY <1>2, <2>1, OriginsOfBackup, TimeHolds
<1>3. ASSUME \/ \E p \in Passes : PassStep(p) \/ LoseSession(p)
             \/ \E q \in Recoveries : RecoveryStep(q)
             \/ \E m \in puts : LandPut(m) \/ LosePut(m)
             \/ \E r \in Records : LoseVersions(r)
             \/ \E t \in Retirers : RetireStep(t) \/ AbortRetirement(t)
      PROVE  Origins' /\ [OriginVault!Next]_(OriginVault!vars)
  <2>1. Origins'
    BY <1>3, OriginsOfBackup, OriginsOfLanding, OriginsOfCommit
  <2> QED
    BY <1>3, <2>1, BackupHolds
<1>4. CASE UNCHANGED <<vars, backupVars>>
  <2>1. /\ row' = row /\ version' = version /\ age' = age /\ tags' = tags /\ minted' = minted
        /\ pc' = pc /\ read' = read /\ restored' = restored /\ puts' = puts
        /\ recovery' = recovery
    BY <1>4 DEF vars, rowVars, s3Vars, callVars, backupVars, ledgerVars, recoverVars
  <2>2. ReadsNumbered'
    BY <2>1 DEF Origins, ReadsNumbered
  <2> QED
    BY <2>1, <2>2, OriginsFrame, OriginVaultFrame
<1> QED
  BY <1>1, <1>2, <1>3, <1>4 DEF BackupNext

(* With its backup, direct evidence is still a vault: whatever versions    *)
(* are lost, restored and bound anew, by any number of operators, each row *)
(* keeps the bytes of the one upload it was bound to while its upload was  *)
(* open, within the quota, until it is given up.                           *)
THEOREM ImplementsVaultWithBackup == BackupSpec => OriginSpec
<1>1. BackupInit => BInv /\ Origins /\ OriginVault!Init
  BY BackupInitInv, OriginVaultInit
<1>2. BInv /\ Origins /\ [BackupNext]_<<vars, backupVars>> =>
        BInv' /\ Origins' /\ [OriginVault!Next]_(OriginVault!vars)
  BY BackupStepInv, OriginStep
<1> QED
  BY <1>1, <1>2, PTL DEF BackupSpec, OriginSpec, OriginVault!Spec

=============================================================================
