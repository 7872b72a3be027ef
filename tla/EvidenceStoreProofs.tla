------------------------- MODULE EvidenceStoreProofs -------------------------
(***************************************************************************)
(* Proofs about EvidenceStore, for any number of records, calls, processes *)
(* and keys, and any limits.                                               *)
(***************************************************************************)
EXTENDS EvidenceStore, Sums

\* A put that has read the row holds the lock until it ends; no get is there.
HoldsLock == \A c \in Calls : pc[c] \in {"again", "insert", "commit"} => lock = c

\* While a put that found no row and enough room waits, both stay as they were.
RoomKept ==
  \A p \in Puts : pc[p] \in {"insert", "commit"} =>
    /\ row[Subject[p]] = None
    /\ Within([row EXCEPT ![Subject[p]] = NewRow(p)])

\* Active keys and keys of rows are in the key file, and a put has sealed with
\* the active key of its process.
KeysKept ==
  /\ file.active \in file.keys
  /\ \A h \in Hosts : ring[h].active \in file.keys
  /\ \A r \in Records : row[r] # None => row[r].key \in file.keys
  /\ \A p \in Puts : pc[p] \in {"lock", "again", "insert", "commit"} =>
       sealed[p] = ring[Host[p]].active

\* An expiry is numbered as its row was inserted, so no later row has it.
Numbered ==
  /\ \A r \in Records : row[r] # None => row[r].expires <= births[r]
  /\ \A g \in Calls : pc[g] = "open" =>
       held[g] # None /\ held[g].expires <= births[Subject[g]]

\* What the last check before storing, telling or exposing will find.
Outdated(c) ==
  \/ c \in revoked
  \/ pc[c] = "again" /\ ~Live(Subject[c])
  \/ pc[c] = "open" /\ ~StillLive(c)

\* A call whose authorization was gone when it read the row, or whose row has
\* passed its expiry since, has that check before it.
LateDenied == \A c \in late : Outdated(c) /\ pc[c] \in {"again", "insert", "open"}

SInv ==
  TypeOK /\ HoldsLock /\ RoomKept /\ KeysKept /\ Numbered /\ LateDenied /\ WithinLimits

-----------------------------------------------------------------------------
(* The limits.                                                             *)

LEMMA SumsMonotone ==
  /\ \A R \in SUBSET Records :
       Volume(R) \in Nat /\ \A Q \in SUBSET R : Volume(Q) <= Volume(R)
  /\ \A S \in SUBSET (Records \X Keys) :
       Weight(S) \in Nat /\ \A T \in SUBSET S : Weight(T) <= Weight(S)
  /\ Volume({}) = 0 /\ Weight({}) = 0
<1>1. ASSUME NEW R \in SUBSET Records
      PROVE  Volume(R) \in Nat /\ \A Q \in SUBSET R : Volume(Q) <= Volume(R)
  <2>1. IsFiniteSet(R) /\ \A r \in R : Size[r] \in Nat
    BY FS_Subset, EvidenceStoreAssumption, SumsAssumption
  <2> QED
    BY <2>1, SumMonotone DEF Volume
<1>2. ASSUME NEW S \in SUBSET (Records \X Keys)
      PROVE  Weight(S) \in Nat /\ \A T \in SUBSET S : Weight(T) <= Weight(S)
  <2>1. IsFiniteSet(Records \X Keys)
    BY FS_Product, EvidenceStoreAssumption, SumsAssumption
  <2>2. IsFiniteSet(S) /\ \A e \in S : Envelope[e] \in Nat
    BY <2>1, FS_Subset, SumsAssumption
  <2> QED
    BY <2>2, SumMonotone DEF Weight
<1>3. Volume({}) = 0 /\ Weight({}) = 0
  BY FS_EmptySet, SumMonotone DEF Volume, Weight
<1> QED
  BY <1>1, <1>2, <1>3

LEMMA WithinFewer ==
  ASSUME NEW rows, NEW fewer,
         Stored(fewer) \subseteq Stored(rows),
         \A r \in Stored(rows) : rows[r].key \in Keys,
         \A r \in Stored(fewer) : fewer[r] = rows[r],
         Within(rows)
  PROVE  Within(fewer)
<1> DEFINE H(f) == {<<r, f[r].key>> : r \in Stored(f)}
<1>1. /\ Stored(rows) \in SUBSET Records /\ Stored(fewer) \in SUBSET Records
      /\ H(rows) \in SUBSET (Records \X Keys) /\ H(fewer) \in SUBSET H(rows)
  BY DEF Stored
<1>2. Cardinality(Stored(fewer)) <= MaxRecords
  <2>1. IsFiniteSet(Stored(rows)) /\ IsFiniteSet(Stored(fewer))
    BY <1>1, FS_Subset, EvidenceStoreAssumption
  <2>2. /\ Cardinality(Stored(fewer)) <= Cardinality(Stored(rows))
        /\ Cardinality(Stored(fewer)) \in Nat /\ Cardinality(Stored(rows)) \in Nat
    BY <2>1, FS_Subset, FS_CardinalityType
  <2> QED
    BY <2>2, EvidenceStoreAssumption DEF Within
<1>3. StoredBytes(fewer) <= MaxStoredBytes
  <2>1. /\ Weight(H(fewer)) <= Weight(H(rows))
        /\ Weight(H(fewer)) \in Nat /\ Weight(H(rows)) \in Nat
    BY <1>1, SumsMonotone
  <2> QED
    BY <2>1, EvidenceStoreAssumption DEF Within, StoredBytes
<1>4. ASSUME NEW j \in Jobs
      PROVE  /\ Cardinality(OfJob(fewer, j)) <= JobRecords
             /\ Volume(OfJob(fewer, j)) <= JobBytes
  <2>1. /\ OfJob(fewer, j) \in SUBSET OfJob(rows, j) /\ OfJob(rows, j) \in SUBSET Records
        /\ OfJob(fewer, j) \in SUBSET Records
    BY <1>1 DEF OfJob
  <2>2. IsFiniteSet(OfJob(rows, j)) /\ IsFiniteSet(OfJob(fewer, j))
    BY <2>1, FS_Subset, EvidenceStoreAssumption
  <2>3. /\ Cardinality(OfJob(fewer, j)) <= Cardinality(OfJob(rows, j))
        /\ Cardinality(OfJob(fewer, j)) \in Nat /\ Cardinality(OfJob(rows, j)) \in Nat
    BY <2>1, <2>2, FS_Subset, FS_CardinalityType
  <2>4. /\ Volume(OfJob(fewer, j)) <= Volume(OfJob(rows, j))
        /\ Volume(OfJob(fewer, j)) \in Nat /\ Volume(OfJob(rows, j)) \in Nat
    BY <2>1, SumsMonotone
  <2>5. Cardinality(OfJob(rows, j)) <= JobRecords /\ Volume(OfJob(rows, j)) <= JobBytes
    BY DEF Within
  <2> QED
    BY <2>3, <2>4, <2>5, EvidenceStoreAssumption
<1> QED
  BY <1>2, <1>3, <1>4 DEF Within

\* Another key changes what an envelope weighs, nothing else.
LEMMA WithinResealed ==
  ASSUME TypeOK, NEW R \in SUBSET Stored(row), NEW key \in Keys, Within(row),
         Affordable(Resealed(R, key))
  PROVE  Within(Resealed(R, key))
<1> DEFINE rows == Resealed(R, key)
           H(f) == {<<r, f[r].key>> : r \in Stored(f)}
<1>1. \A r \in Stored(row) : r \in Records /\ row[r] \in Row /\ row[r] # None
  BY DEF Stored, TypeOK
<1>2. \A r \in Stored(row) : rows[r] \in Row /\ rows[r] # None
  BY <1>1, EvidenceStoreAssumption DEF Resealed, Row
<1>3. \A r \in Records \ Stored(row) : rows[r] = None
  BY DEF Resealed, Stored
<1>4. Stored(rows) = Stored(row)
  BY <1>2, <1>3 DEF Stored
<1>5. H(row) \in SUBSET (Records \X Keys) /\ H(rows) \in SUBSET (Records \X Keys)
  BY <1>1, <1>2, <1>4 DEF Row
<1>6. Weight(H(row)) \in Nat /\ Weight(H(rows)) \in Nat
  BY <1>5, SumsMonotone
<1>7. StoredBytes(rows) \in Nat /\ StoredBytes(row) \in Nat
  BY <1>6 DEF StoredBytes
<1>8. StoredBytes(row) <= MaxStoredBytes /\ MaxStoredBytes \in Nat
  BY EvidenceStoreAssumption DEF Within
<1>9. StoredBytes(rows) <= MaxStoredBytes
  BY <1>7, <1>8 DEF Affordable
<1>10. \A j \in Jobs : OfJob(rows, j) = OfJob(row, j)
  BY <1>4 DEF OfJob
<1> QED
  BY <1>4, <1>9, <1>10 DEF Within

LEMMA InitInv == Init => SInv
<1> SUFFICES ASSUME Init
             PROVE  SInv
  OBVIOUS
<1>0. file \in KeyFile /\ file.active \in file.keys
  BY EvidenceStoreAssumption DEF Init, KeyFile
<1>1. TypeOK
  BY <1>0 DEF Init, TypeOK
<1>1a. HoldsLock /\ RoomKept /\ Numbered /\ LateDenied
  BY DEF Init, HoldsLock, RoomKept, Numbered, LateDenied, Calls
<1>1b. KeysKept
  BY <1>0 DEF Init, KeysKept, Calls
<1>2. Stored(row) = {}
  BY DEF Init, Stored
<1>3. StoredBytes(row) = 0 /\ \A j \in Jobs : OfJob(row, j) = {}
  <2>1. {<<r, row[r].key>> : r \in Stored(row)} = {}
    BY <1>2
  <2> QED
    BY <1>2, <2>1, SumsMonotone DEF StoredBytes, OfJob
<1>4. Cardinality({}) = 0 /\ Volume({}) = 0
  BY FS_EmptySet, SumsMonotone
<1>5. WithinLimits
  BY <1>2, <1>3, <1>4, EvidenceStoreAssumption DEF WithinLimits, Within
<1> QED
  BY <1>1, <1>1a, <1>1b, <1>5 DEF SInv

-----------------------------------------------------------------------------
(* Steps that write no row.                                                *)

\* Ending calls, with the lock that one of them may hold.
LEMMA EndInv ==
  ASSUME SInv, NEW C \in SUBSET Calls, NEW verdict \in {"done", "denied"},
         EndAll(C, verdict), UNCHANGED rowVars,
         lock' = lock \/ lock' = None, lock \notin C => lock' = lock,
         \/ UNCHANGED keyVars
         \/ /\ UNCHANGED <<file, installs>> /\ ring' \in [Hosts -> {file} \union KeyFile]
            /\ \A h \in Hosts : ring'[h] = ring[h] \/ ring'[h] = file
            /\ \A p \in Puts : pc[p] \in {"lock", "again", "insert", "commit"} /\ p \notin C =>
                 ring'[Host[p]] = ring[Host[p]]
  PROVE  SInv'
<1>1. TypeOK'
  BY DEF EndAll, rowVars, keyVars, SInv, TypeOK
<1>2. HoldsLock'
  BY DEF EndAll, SInv, TypeOK, HoldsLock, Calls
<1>3. \A p \in Puts : pc'[p] \in {"insert", "commit"} =>
        pc[p] = pc'[p] /\ NewRow(p)' = NewRow(p)
  BY DEF EndAll, rowVars, NewRow, SInv, TypeOK, Calls
<1>4. RoomKept' /\ WithinLimits'
  BY <1>3 DEF rowVars, SInv, RoomKept, WithinLimits
<1>5. KeysKept'
  BY EvidenceStoreAssumption DEF EndAll, rowVars, keyVars, SInv, TypeOK, KeysKept, Calls
<1>6. Numbered'
  BY EvidenceStoreAssumption DEF EndAll, rowVars, SInv, TypeOK, Numbered, Calls
<1>7. LateDenied'
  BY EvidenceStoreAssumption
  DEF EndAll, rowVars, SInv, TypeOK, LateDenied, Outdated, StillLive, Live, Calls
<1> QED
  BY <1>1, <1>2, <1>4, <1>5, <1>6, <1>7 DEF SInv

\* Going on with what a call holds.
LEMMA GotoInv ==
  ASSUME SInv, NEW c \in Calls,
         UNCHANGED <<rowVars, keyVars, held, revoked>>,
         \/ pc[c] = "idle" /\ Goto(c, "seal") /\ UNCHANGED lock
         \/ pc[c] = "idle" /\ Goto(c, "read") /\ UNCHANGED lock
         \/ pc[c] = "open" /\ ~Outdated(c) /\ Goto(c, "expose") /\ UNCHANGED lock
         \/ pc[c] = "insert" /\ c \notin revoked /\ Goto(c, "commit") /\ UNCHANGED lock
         \/ Seal(c)
  PROVE  SInv'
<1>0. sealed' \in [Calls -> Keys \union {None}] /\ UNCHANGED lock
  BY EvidenceStoreAssumption DEF Seal, Goto, SInv, TypeOK, KeyFile
<1>1. TypeOK'
  BY <1>0 DEF Goto, Seal, rowVars, keyVars, SInv, TypeOK
<1>2. HoldsLock'
  BY <1>0 DEF Goto, Seal, SInv, TypeOK, HoldsLock, Calls
<1>3. \A p \in Puts : pc'[p] \in {"insert", "commit"} =>
        pc[p] \in {"insert", "commit"} /\ NewRow(p)' = NewRow(p)
  BY DEF Goto, Seal, rowVars, NewRow, SInv, TypeOK, Calls
<1>4. RoomKept' /\ WithinLimits'
  BY <1>3 DEF rowVars, SInv, RoomKept, WithinLimits
<1>5. KeysKept'
  BY DEF Goto, Seal, rowVars, keyVars, SInv, TypeOK, KeysKept, Calls
<1>6. Numbered'
  BY DEF Goto, Seal, rowVars, SInv, TypeOK, Numbered, Calls
<1>7. LateDenied'
  <2>1. c \notin late
    BY DEF Seal, SInv, LateDenied, Outdated
  <2>2. \A d \in Calls \ {c} : pc'[d] = pc[d]
    BY DEF Goto, Seal, SInv, TypeOK
  <2>3. late' = late /\ late \subseteq Calls
    BY DEF Goto, Seal, SInv, TypeOK
  <2> QED
    BY <2>1, <2>2, <2>3 DEF rowVars, SInv, LateDenied, Outdated, StillLive, Live
<1> QED
  BY <1>1, <1>2, <1>4, <1>5, <1>6, <1>7 DEF SInv

LEMMA LockAndReadInv ==
  ASSUME SInv, NEW p \in Puts, LockAndRead(p)
  PROVE  SInv'
<1> USE DEF Calls
<1>0. UNCHANGED <<rowVars, keyVars>> /\ pc[p] = "lock" /\ lock = None
  BY DEF LockAndRead
<1>1. CASE End(p, "denied") /\ UNCHANGED lock
  <2>1. EndAll({p}, "denied") /\ {p} \in SUBSET Calls
    BY <1>1 DEF End
  <2> QED
    BY <1>0, <1>1, <2>1, EndInv
<1>2. CASE ~(End(p, "denied") /\ UNCHANGED lock)
  <2>0. /\ IF row[Subject[p]] # None
             THEN Read(p, "again")
             ELSE Read(p, "insert") /\ Within([row EXCEPT ![Subject[p]] = NewRow(p)])
        /\ lock' = p /\ UNCHANGED held
    BY <1>2 DEF LockAndRead, Room
  <2>1. TypeOK'
    BY <1>0, <2>0 DEF Read, rowVars, keyVars, SInv, TypeOK
  <2>2. HoldsLock'
    <3>1. \A q \in Calls \ {p} : pc[q] \notin {"again", "insert", "commit"}
      BY <1>0, EvidenceStoreAssumption DEF SInv, HoldsLock
    <3> QED
      BY <2>0, <3>1 DEF Read, SInv, TypeOK, HoldsLock
  <2>3. \A q \in Puts : NewRow(q)' = NewRow(q)
    BY <1>0, <2>0 DEF Read, rowVars, NewRow
  <2>4. RoomKept' /\ WithinLimits'
    BY <1>0, <2>0, <2>3 DEF Read, rowVars, SInv, TypeOK, RoomKept, WithinLimits
  <2>5. KeysKept'
    BY <1>0, <2>0 DEF Read, rowVars, keyVars, SInv, TypeOK, KeysKept
  <2>6. Numbered'
    BY <2>0, <1>0, EvidenceStoreAssumption DEF Read, rowVars, SInv, TypeOK, Numbered
  <2>7. LateDenied'
    BY <2>0, <1>0 DEF Read, rowVars, SInv, TypeOK, LateDenied, Outdated, StillLive, Live
  <2> QED
    BY <2>1, <2>2, <2>4, <2>5, <2>6, <2>7 DEF SInv
<1> QED
  BY <1>1, <1>2

LEMMA ReadRowInv ==
  ASSUME SInv, NEW g \in Gets, ReadRow(g)
  PROVE  SInv'
<1> USE DEF Calls
<1>0. UNCHANGED <<rowVars, lock, keyVars>> /\ pc[g] = "read" /\ g \notin Puts
  BY EvidenceStoreAssumption DEF ReadRow
<1>1. CASE End(g, "denied")
  <2>1. EndAll({g}, "denied") /\ {g} \in SUBSET Calls
    BY <1>1 DEF End
  <2> QED
    BY <1>0, <2>1, EndInv
<1>2. CASE Read(g, "open") /\ row[Subject[g]] # None /\ held' = [held EXCEPT ![g] = row[Subject[g]]]
  <2>1. TypeOK'
    BY <1>0, <1>2, EvidenceStoreAssumption DEF Read, rowVars, keyVars, SInv, TypeOK
  <2>2. HoldsLock'
    BY <1>0, <1>2 DEF Read, SInv, TypeOK, HoldsLock
  <2>3. \A q \in Puts : pc'[q] = pc[q] /\ NewRow(q)' = NewRow(q)
    BY <1>0, <1>2 DEF Read, rowVars, NewRow, SInv, TypeOK
  <2>4. RoomKept' /\ WithinLimits'
    BY <1>0, <2>3 DEF rowVars, SInv, RoomKept, WithinLimits
  <2>5. KeysKept'
    BY <1>0, <1>2 DEF Read, rowVars, keyVars, SInv, TypeOK, KeysKept
  <2>6. Numbered'
    <3>1. \A d \in Calls \ {g} : pc'[d] = pc[d] /\ held'[d] = held[d]
      BY <1>0, <1>2 DEF Read, SInv, TypeOK
    <3>2. held'[g] = row[Subject[g]] /\ Subject[g] \in Records
      BY <1>2, EvidenceStoreAssumption DEF SInv, TypeOK
    <3> QED
      BY <1>0, <1>2, <3>1, <3>2 DEF rowVars, SInv, Numbered
  <2>7. LateDenied'
    <3>1. \A d \in Calls \ {g} : pc'[d] = pc[d] /\ held'[d] = held[d]
      BY <1>0, <1>2 DEF Read, SInv, TypeOK
    <3>2. g \notin late /\ late \subseteq Calls /\ pc'[g] = "open"
      BY <1>0, <1>2 DEF Read, SInv, TypeOK, LateDenied
    <3>3. revoked' = revoked /\ late' = IF g \in revoked THEN late \union {g} ELSE late
      BY <1>2 DEF Read
    <3> QED
      BY <1>0, <3>1, <3>2, <3>3 DEF rowVars, SInv, LateDenied, Outdated, StillLive, Live
  <2> QED
    BY <2>1, <2>2, <2>4, <2>5, <2>6, <2>7 DEF SInv
<1> QED
  BY <1>1, <1>2 DEF ReadRow, Live

-----------------------------------------------------------------------------
(* Steps that write rows: all of them have the lock.                       *)

LEMMA CommitInv ==
  ASSUME SInv, NEW p \in Puts, CommitInsert(p)
  PROVE  SInv'
<1> USE DEF Calls
<1> DEFINE s == Subject[p]
<1>0. /\ pc[p] = "commit" /\ lock = p /\ lock' = None /\ s \in Records
      /\ row' = [row EXCEPT ![s] = NewRow(p)] /\ births' = [births EXCEPT ![s] = births[s] + 1]
      /\ expired' = expired /\ UNCHANGED keyVars /\ Goto(p, "answer")
  BY EvidenceStoreAssumption DEF CommitInsert, SInv, HoldsLock
<1>1. /\ NewRow(p) \in Row /\ sealed[p] \in Keys /\ sealed[p] = ring[Host[p]].active
      /\ NewRow(p).key = sealed[p]
  <2>1. sealed[p] = ring[Host[p]].active /\ ring[Host[p]].active \in Keys
    BY <1>0, EvidenceStoreAssumption DEF SInv, KeysKept, TypeOK, KeyFile
  <2>2. births[s] + 1 \in Nat
    BY <1>0 DEF SInv, TypeOK
  <2> QED
    BY <2>1, <2>2 DEF NewRow, Row
<1>2. TypeOK'
  BY <1>0, <1>1 DEF Goto, keyVars, SInv, TypeOK
<1>3. \A q \in Calls : pc'[q] \notin {"again", "insert", "commit"}
  BY <1>0 DEF Goto, SInv, TypeOK, HoldsLock
<1>4. HoldsLock' /\ RoomKept'
  BY <1>3 DEF HoldsLock, RoomKept
<1>5. KeysKept'
  BY <1>0, <1>1, EvidenceStoreAssumption DEF Goto, keyVars, SInv, TypeOK, KeysKept
<1>6. /\ births[s] \in Nat /\ births'[s] = births[s] + 1
      /\ row'[s].expires = births[s] + 1
      /\ \A r \in Records \ {s} : row'[r] = row[r] /\ births'[r] = births[r]
  BY <1>0 DEF NewRow, SInv, TypeOK
<1>7. \A c \in Calls : /\ Subject[c] \in Records /\ held'[c] = held[c]
                       /\ pc'[c] = IF c = p THEN "answer" ELSE pc[c]
                       /\ held[c] # None => held[c].expires \in Nat
  BY <1>0, EvidenceStoreAssumption DEF Goto, SInv, TypeOK, Row
<1>8. Numbered'
  <2>1. \A r \in Records : row'[r] # None => row'[r].expires <= births'[r]
    BY <1>6 DEF SInv, Numbered
  <2>2. ASSUME NEW g \in Calls, pc'[g] = "open"
        PROVE  held'[g] # None /\ held'[g].expires <= births'[Subject[g]]
    <3>1. held[g] # None /\ held[g].expires <= births[Subject[g]] /\ held[g].expires \in Nat
      BY <1>7, <2>2 DEF SInv, Numbered
    <3> QED
      BY <1>6, <1>7, <3>1
  <2> QED
    BY <2>1, <2>2 DEF Numbered
<1>9. LateDenied'
  <2> SUFFICES ASSUME NEW c \in late
               PROVE  Outdated(c)' /\ pc'[c] \in {"again", "insert", "open"}
    BY <1>0 DEF Goto, LateDenied
  <2>1. c \in Calls /\ c # p /\ pc'[c] = pc[c] /\ pc[c] \in {"again", "insert", "open"}
    BY <1>0, <1>7 DEF SInv, TypeOK, LateDenied
  <2>2. pc[c] = "open"
    BY <1>0, <2>1 DEF SInv, HoldsLock
  <2>3. CASE c \in revoked
    BY <1>0, <2>1, <2>2, <2>3 DEF Goto, Outdated
  <2>4. CASE ~StillLive(c)
    <3>1. held[c] # None /\ held[c].expires <= births[Subject[c]] /\ held[c].expires \in Nat
      BY <1>7, <2>1, <2>2 DEF SInv, Numbered
    <3>2. ~StillLive(c)'
      BY <1>0, <1>6, <1>7, <2>1, <2>4, <3>1 DEF StillLive, Live
    <3> QED
      BY <2>1, <2>2, <3>2 DEF Outdated
  <2> QED
    BY <2>2, <2>3, <2>4 DEF SInv, LateDenied, Outdated
<1>10. WithinLimits'
  BY <1>0 DEF SInv, RoomKept, WithinLimits
<1> QED
  BY <1>2, <1>4, <1>5, <1>8, <1>9, <1>10 DEF SInv

\* Nobody is between reading and writing while the lock is free.
LEMMA LockFree ==
  ASSUME SInv, lock = None, NEW p \in Calls
  PROVE  pc[p] \notin {"again", "insert", "commit"}
BY EvidenceStoreAssumption DEF SInv, HoldsLock, Calls

LEMMA PurgeInv ==
  ASSUME SInv, PurgeExpired
  PROVE  SInv'
<1>0. PICK P : /\ row' = [r \in Records |-> IF r \in P THEN None ELSE row[r]]
               /\ expired' = expired \ P
  BY DEF PurgeExpired
<1>1. UNCHANGED <<births, lock, keyVars, callVars, revoked>> /\ lock = None
  BY DEF PurgeExpired
<1>2. TypeOK'
  BY <1>0, <1>1 DEF keyVars, callVars, SInv, TypeOK
<1>3. HoldsLock' /\ RoomKept'
  BY <1>1, LockFree DEF callVars, HoldsLock, RoomKept, Calls
<1>4. KeysKept' /\ Numbered'
  BY <1>0, <1>1 DEF keyVars, callVars, SInv, KeysKept, Numbered
<1>6. LateDenied'
  <2> SUFFICES ASSUME NEW c \in late
               PROVE  Outdated(c)' /\ pc'[c] \in {"again", "insert", "open"}
    BY <1>1 DEF callVars, LateDenied
  <2>1. c \in Calls /\ Subject[c] \in Records /\ pc[c] = "open"
    BY <1>1, LockFree, EvidenceStoreAssumption DEF SInv, TypeOK, LateDenied
  <2>2. c \in revoked \/ ~StillLive(c)
    BY <2>1 DEF SInv, LateDenied, Outdated
  <2> QED
    BY <1>0, <1>1, <2>1, <2>2 DEF callVars, Outdated, StillLive, Live
<1>5. WithinLimits'
  <2>1. Stored(row') \subseteq Stored(row) /\ \A r \in Stored(row') : row'[r] = row[r]
    BY <1>0 DEF Stored
  <2>2. \A r \in Stored(row) : row[r].key \in Keys
    BY DEF Stored, SInv, TypeOK, Row
  <2>3. Within(row')
    BY <2>1, <2>2, WithinFewer DEF SInv, WithinLimits
  <2> QED
    BY <2>3 DEF WithinLimits
<1> QED
  BY <1>2, <1>3, <1>4, <1>5, <1>6 DEF SInv

\* A rotation changes the keys of rows that are there, to the active key of its
\* process.
LEMMA RotateEffect ==
  ASSUME SInv, NEW h \in Hosts, RotateBatch(h)
  PROVE  \E R \in SUBSET Stored(row) :
           /\ row' = Resealed(R, ring[h].active)
           /\ Affordable(Resealed(R, ring[h].active))
<1>1. PICK R : /\ R \in Batches({r \in Records : row[r] # None /\ row[r].key # ring[h].active})
               /\ row' = Resealed(R, ring[h].active)
               /\ Affordable(Resealed(R, ring[h].active))
  BY DEF RotateBatch
<1>2. R \in SUBSET Stored(row)
  BY <1>1 DEF Batches, kSubset, Stored
<1> QED
  BY <1>1, <1>2

LEMMA ResealedRows ==
  ASSUME TypeOK, NEW R \in SUBSET Stored(row), NEW key \in Keys, NEW r \in Records
  PROVE  /\ Resealed(R, key)[r] \in Row \union {None}
         /\ row[r] = None <=> Resealed(R, key)[r] = None
         /\ row[r] # None => /\ Resealed(R, key)[r].key \in {key, row[r].key}
                             /\ Resealed(R, key)[r].expires = row[r].expires
<1>1. CASE r \in R
  <2>1. row[r] \in Row /\ row[r] # None
    BY <1>1 DEF Stored, TypeOK
  <2>2. Resealed(R, key)[r] = [row[r] EXCEPT !.key = key]
    BY <1>1 DEF Resealed
  <2>3. /\ Resealed(R, key)[r] \in Row /\ Resealed(R, key)[r].key = key
        /\ Resealed(R, key)[r].expires = row[r].expires
    BY <2>1, <2>2 DEF Row
  <2> QED
    BY <2>1, <2>3, EvidenceStoreAssumption DEF Row
<1>2. CASE r \notin R
  BY <1>2 DEF Resealed, TypeOK
<1> QED
  BY <1>1, <1>2

LEMMA RotateInv ==
  ASSUME SInv, NEW h \in Hosts, RotateBatch(h)
  PROVE  SInv'
<1>0. /\ UNCHANGED <<births, expired, lock, keyVars, callVars, revoked>> /\ lock = None
      /\ ring[h].active \in Keys /\ ring[h].active \in file.keys
  BY DEF RotateBatch, SInv, TypeOK, KeyFile, KeysKept
<1>1. PICK R \in SUBSET Stored(row) :
        row' = Resealed(R, ring[h].active) /\ Affordable(Resealed(R, ring[h].active))
  BY RotateEffect
<1>2. \A r \in Records : /\ row'[r] \in Row \union {None}
                         /\ row'[r] # None => row'[r].key \in {ring[h].active, row[r].key}
                         /\ row'[r] # None <=> row[r] # None
                         /\ row[r] # None => row'[r].expires = row[r].expires
  BY <1>0, <1>1, ResealedRows DEF SInv
<1>3. TypeOK'
  <2>1. row' \in [Records -> Row \union {None}]
    BY <1>1, <1>2 DEF Resealed
  <2> QED
    BY <1>0, <2>1 DEF keyVars, callVars, SInv, TypeOK
<1>4. HoldsLock' /\ RoomKept'
  BY <1>0, LockFree DEF callVars, HoldsLock, RoomKept, Calls
<1>5. KeysKept' /\ Numbered'
  BY <1>0, <1>2 DEF keyVars, callVars, SInv, KeysKept, Numbered
<1>6. LateDenied'
  BY <1>0, <1>2, EvidenceStoreAssumption
  DEF callVars, SInv, TypeOK, LateDenied, Outdated, StillLive, Live
<1>7. WithinLimits'
  BY <1>0, <1>1, WithinResealed DEF SInv, WithinLimits
<1> QED
  BY <1>3, <1>4, <1>5, <1>6, <1>7 DEF SInv

-----------------------------------------------------------------------------
(* Operator, clock and revocation.                                         *)

LEMMA WorldInv ==
  ASSUME SInv, \/ \E r \in Records : Expire(r)
               \/ \E c \in Calls : Revoke(c)
               \/ \E k \in Keys : InstallKey(k) \/ RetireKey(k)
  PROVE  SInv'
<1>0. /\ UNCHANGED <<row, births, lock, ring, pc, sealed, held>>
      /\ expired \subseteq expired' /\ expired' \subseteq Records
      /\ revoked \subseteq revoked' /\ revoked' \subseteq Calls
      /\ late' \subseteq Calls
  BY DEF Expire, Waiting, Revoke, InstallKey, RetireKey, rowVars, keyVars, callVars, SInv, TypeOK
<1>1. /\ file' \in KeyFile /\ installs' \in Nat /\ file'.active \in file'.keys
      /\ \A k \in file.keys : \/ k \in file'.keys
                              \/ /\ \A h \in Hosts : ring[h].active # k
                                 /\ \A r \in Records : row[r] # None => row[r].key # k
  BY DEF Expire, Revoke, InstallKey, RetireKey, rowVars, keyVars, SInv, TypeOK, KeyFile, KeysKept
<1>2. TypeOK'
  BY <1>0, <1>1 DEF SInv, TypeOK
<1>3. HoldsLock' /\ Numbered'
  BY <1>0 DEF SInv, HoldsLock, Numbered
<1>4. \A p \in Puts : NewRow(p)' = NewRow(p)
  BY <1>0 DEF NewRow
<1>5. RoomKept' /\ WithinLimits'
  BY <1>0, <1>4 DEF SInv, RoomKept, WithinLimits
<1>6. KeysKept'
  BY <1>0, <1>1 DEF SInv, KeysKept
<1>7. LateDenied'
  <2>1. \A c \in late : Outdated(c)' /\ pc'[c] \in {"again", "insert", "open"}
    BY <1>0 DEF SInv, LateDenied, Outdated, StillLive, Live
  <2>2. \A c \in late' \ late : Outdated(c)' /\ pc'[c] \in {"again", "insert", "open"}
    BY <1>0 DEF Expire, Waiting, Revoke, InstallKey, RetireKey, callVars, Outdated, StillLive, Live
  <2> QED
    BY <2>1, <2>2 DEF LateDenied
<1> QED
  BY <1>2, <1>3, <1>5, <1>6, <1>7 DEF SInv

LEMMA FailInv ==
  ASSUME SInv, \/ \E c \in Calls : FailCall(c)
               \/ \E h \in Hosts : Restart(h)
  PROVE  SInv'
<1>1. ASSUME NEW c \in Calls, FailCall(c)
      PROVE  SInv'
  <2>1. /\ EndAll({c}, "denied") /\ UNCHANGED <<rowVars, keyVars>>
        /\ lock' = lock \/ lock' = None
        /\ lock \notin {c} => lock' = lock
    BY <1>1 DEF FailCall, Fail
  <2> QED
    BY <2>1, EndInv
<1>2. ASSUME NEW h \in Hosts, Restart(h)
      PROVE  SInv'
  <2> DEFINE C == {c \in Calls : Host[c] = h /\ pc[c] \notin {"idle", "done", "denied"}}
  <2>1. /\ EndAll(C, "denied") /\ UNCHANGED <<rowVars, file, installs>>
        /\ lock' = lock \/ lock' = None
        /\ lock \notin C => lock' = lock
        /\ ring' = [ring EXCEPT ![h] = file]
    BY <1>2 DEF Restart, Fail, Running
  <2>2. /\ ring' \in [Hosts -> {file} \union KeyFile]
        /\ \A n \in Hosts : ring'[n] = ring[n] \/ ring'[n] = file
    BY <2>1 DEF SInv, TypeOK
  <2>3. \A p \in Puts : pc[p] \in {"lock", "again", "insert", "commit"} /\ p \notin C =>
          ring'[Host[p]] = ring[Host[p]]
    BY <2>1, EvidenceStoreAssumption DEF SInv, TypeOK, Calls
  <2> QED
    BY <2>1, <2>2, <2>3, EndInv
<1> QED
  BY <1>1, <1>2

LEMMA CallInv ==
  ASSUME SInv, NEW c \in Calls,
         \/ c \in Puts /\ (AuthorizePut(c) \/ Seal(c) \/ AnswerRetry(c) \/ AuthorizeInsert(c)
                            \/ AnswerInsert(c))
         \/ c \in Gets /\ (AuthorizeGet(c) \/ Open(c) \/ Expose(c))
  PROVE  SInv'
<1>1. UNCHANGED <<rowVars, keyVars>> /\ {c} \in SUBSET Calls
  BY DEF AuthorizePut, Seal, AnswerRetry, AuthorizeInsert, AnswerInsert, AuthorizeGet, Open, Expose
<1>2. CASE \/ End(c, "denied") \/ End(c, "done")
  <2>1. lock' = lock \/ (lock' = None /\ lock = c)
    BY <1>2 DEF AuthorizePut, Seal, AnswerRetry, AuthorizeInsert, AnswerInsert, AuthorizeGet,
                Open, Expose, SInv, HoldsLock
  <2>2. EndAll({c}, "denied") \/ EndAll({c}, "done")
    BY <1>2 DEF End
  <2> QED
    BY <1>1, <2>1, <2>2, EndInv
<1>3. CASE ~(End(c, "denied") \/ End(c, "done"))
  <2>1. UNCHANGED <<held, revoked>>
    BY <1>3 DEF AuthorizePut, Seal, AnswerRetry, AuthorizeInsert, AnswerInsert, AuthorizeGet,
                Open, Expose, Goto
  <2>2. \/ pc[c] = "idle" /\ Goto(c, "seal") /\ UNCHANGED lock
        \/ pc[c] = "idle" /\ Goto(c, "read") /\ UNCHANGED lock
        \/ pc[c] = "open" /\ ~Outdated(c) /\ Goto(c, "expose") /\ UNCHANGED lock
        \/ pc[c] = "insert" /\ c \notin revoked /\ Goto(c, "commit") /\ UNCHANGED lock
        \/ Seal(c)
    BY <1>3 DEF AuthorizePut, AnswerRetry, AuthorizeInsert, AnswerInsert, AuthorizeGet,
                Open, Expose, Allowed, Outdated
  <2> QED
    BY <1>1, <2>1, <2>2, GotoInv
<1> QED
  BY <1>2, <1>3

LEMMA StepInv == SInv /\ [Next]_vars => SInv'
<1> SUFFICES ASSUME SInv, [Next]_vars
             PROVE  SInv'
  OBVIOUS
<1>1. CASE UNCHANGED vars
  BY <1>1 DEF vars, rowVars, keyVars, callVars, SInv, TypeOK, HoldsLock, RoomKept, NewRow,
              KeysKept, Numbered, LateDenied, Outdated, StillLive, Live, WithinLimits
<1>2. ASSUME NEW p \in Puts, PutStep(p)
      PROVE  SInv'
  BY <1>2, CallInv, LockAndReadInv, CommitInv DEF PutStep, Calls
<1>3. ASSUME NEW g \in Gets, GetStep(g)
      PROVE  SInv'
  BY <1>3, CallInv, ReadRowInv DEF GetStep, Calls
<1> QED
  BY <1>1, <1>2, <1>3, PurgeInv, RotateInv, WorldInv, FailInv DEF Next

THEOREM StoreInvariant == Spec => []SInv
<1>1. Init => SInv
  BY InitInv
<1>2. SInv /\ [Next]_vars => SInv'
  BY StepInv
<1> QED
  BY <1>1, <1>2, PTL DEF Spec

-----------------------------------------------------------------------------
(* Types: rows, key files and what handlers hold are well formed.          *)
THEOREM StoreTypesHold == Spec => []TypeOK
<1>1. SInv => TypeOK
  BY DEF SInv
<1> QED
  BY <1>1, StoreInvariant, PTL

(* However puts, purges and rotations interleave, the stored rows keep all *)
(* the limits, which a put has checked before its last wait.               *)
THEOREM StoreKeepsLimits == Spec => []WithinLimits
<1>1. SInv => WithinLimits
  BY DEF SInv
<1> QED
  BY <1>1, StoreInvariant, PTL

(* Keys of rows, and of rows about to be inserted, are in the key file,    *)
(* whatever keys are installed, used and retired.                          *)
THEOREM StoredRowsOpenable == Spec => []RowsOpenable
<1>1. SInv => RowsOpenable
  BY EvidenceStoreAssumption DEF SInv, KeysKept, RowsOpenable, Calls
<1> QED
  BY <1>1, StoreInvariant, PTL

\* Nobody without authorization is on a step that counts.
LEMMA LateStep ==
  ASSUME SInv, Next, NEW c \in late, pc'[c] # pc[c]
  PROVE  pc'[c] \notin {"commit", "expose", "done"}
<1>0. /\ Outdated(c) /\ pc[c] \in {"again", "insert", "open"} /\ c \in Calls
      /\ pc \in [Calls -> {"idle", "seal", "lock", "again", "insert", "commit", "answer",
                           "read", "open", "expose", "done", "denied"}]
  BY DEF SInv, TypeOK, LateDenied
<1>1. ASSUME NEW p \in Puts, PutStep(p)
      PROVE  pc'[c] \notin {"commit", "expose", "done"}
  <2>1. CASE p = c
    BY <1>0, <1>1, <2>1
    DEF PutStep, AuthorizePut, Seal, LockAndRead, AnswerRetry, AuthorizeInsert, CommitInsert,
        AnswerInsert, Outdated, Allowed, End, EndAll
  <2>2. CASE p # c
    BY <1>0, <1>1, <2>2
    DEF PutStep, AuthorizePut, Seal, LockAndRead, AnswerRetry, AuthorizeInsert, CommitInsert,
        AnswerInsert, Goto, Read, End, EndAll
  <2> QED
    BY <2>1, <2>2
<1>2. ASSUME NEW g \in Gets, GetStep(g)
      PROVE  pc'[c] \notin {"commit", "expose", "done"}
  <2>1. CASE g = c
    BY <1>0, <1>2, <2>1
    DEF GetStep, AuthorizeGet, ReadRow, Open, Expose, Outdated, Allowed, End, EndAll
  <2>2. CASE g # c
    BY <1>0, <1>2, <2>2
    DEF GetStep, AuthorizeGet, ReadRow, Open, Expose, Goto, Read, End, EndAll
  <2> QED
    BY <2>1, <2>2
<1>3. ASSUME NEW h \in Hosts, RotateBatch(h) \/ Restart(h)
      PROVE  pc'[c] \notin {"commit", "expose", "done"}
  BY <1>0, <1>3 DEF RotateBatch, Restart, Fail, EndAll, callVars
<1>4. ASSUME NEW d \in Calls, Revoke(d) \/ FailCall(d)
      PROVE  pc'[c] \notin {"commit", "expose", "done"}
  BY <1>0, <1>4 DEF Revoke, FailCall, Fail, EndAll, callVars
<1>5. (\/ PurgeExpired \/ \E r \in Records : Expire(r)
       \/ \E k \in Keys : InstallKey(k) \/ RetireKey(k))
        => pc'[c] \notin {"commit", "expose", "done"}
  BY <1>0 DEF PurgeExpired, Expire, InstallKey, RetireKey, callVars
<1> QED
  BY <1>1, <1>2, <1>3, <1>4, <1>5 DEF Next

\* Only an insertion gives a row its expiry.
LEMMA ExpiryStep ==
  ASSUME SInv, Next, NEW r \in Records, row[r] # None, row'[r] # None
  PROVE  row'[r].expires = row[r].expires
<1>1. ASSUME NEW p \in Puts, CommitInsert(p)
      PROVE  row'[r] = row[r]
  <2>1. row[Subject[p]] = None /\ Subject[p] \in Records
    BY <1>1, EvidenceStoreAssumption DEF CommitInsert, SInv, RoomKept, Calls
  <2> QED
    BY <1>1, <2>1 DEF CommitInsert, SInv, TypeOK
<1>2. ASSUME NEW p \in Puts, PutStep(p), ~CommitInsert(p)
      PROVE  row' = row
  BY <1>2 DEF PutStep, AuthorizePut, Seal, LockAndRead, AnswerRetry, AuthorizeInsert,
              AnswerInsert, rowVars
<1>3. ASSUME NEW g \in Gets, GetStep(g)
      PROVE  row' = row
  BY <1>3 DEF GetStep, AuthorizeGet, ReadRow, Open, Expose, rowVars
<1>4. ASSUME NEW h \in Hosts, RotateBatch(h)
      PROVE  row'[r].expires = row[r].expires
  <2>1. PICK R \in SUBSET Stored(row) : row' = Resealed(R, ring[h].active)
    BY <1>4, RotateEffect
  <2>2. ring[h].active \in Keys /\ TypeOK
    BY DEF SInv, TypeOK, KeyFile
  <2> QED
    BY <2>1, <2>2, ResealedRows
<1>5. PurgeExpired => row'[r] = row[r]
  BY DEF PurgeExpired
<1>6. (\/ \E h \in Hosts : Restart(h)
       \/ \E s \in Records : Expire(s)
       \/ \E c \in Calls : Revoke(c) \/ FailCall(c)
       \/ \E k \in Keys : InstallKey(k) \/ RetireKey(k)) => row' = row
  BY DEF Restart, Expire, Revoke, FailCall, InstallKey, RetireKey, rowVars
<1> QED
  BY <1>1, <1>2, <1>3, <1>4, <1>5, <1>6 DEF Next

(* Who had lost the authorization by the time it read the row, or whose    *)
(* row passed its expiry while it waited, is neither stored, told nor      *)
(* shown anything, and the expiry of a row never changes.                  *)
THEOREM StoreAuthorizesLast == Spec => AuthorizedAndKept
<1>1. SInv /\ [Next]_vars =>
        [/\ \A c \in late : pc'[c] # pc[c] => pc'[c] \notin {"commit", "expose", "done"}
         /\ \A r \in Records : row[r] # None /\ row'[r] # None =>
              row'[r].expires = row[r].expires]_vars
  BY LateStep, ExpiryStep
<1> QED
  BY <1>1, StoreInvariant, PTL DEF Spec, AuthorizedAndKept
=============================================================================
