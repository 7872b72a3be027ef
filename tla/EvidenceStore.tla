---------------------------- MODULE EvidenceStore ----------------------------
(***************************************************************************)
(* Private evidence kept encrypted in the database.  A put seals the bytes *)
(* with the active key of its process, takes the one capacity lock, and    *)
(* inserts a row within the limits, or finds the row of an earlier put; a  *)
(* get reads a row and opens it.  Both authorize again after every wait.   *)
(* Maintenance deletes expired rows and seals rows again with another key, *)
(* under the same lock.  Each process has the key file of its start; the   *)
(* operator changes the file, restarts processes, and retires a key when   *)
(* neither a row nor a process that could write one uses it.               *)
(***************************************************************************)
EXTENDS Naturals, FiniteSets, FiniteSetsExt, Functions

CONSTANTS
  Records,     \* contexts: what is stored, for which job, by whom
  Puts, Gets,  \* calls of the store
  Hosts,       \* processes, of the service and of the operator
  Keys,
  FirstKey,
  Host,        \* call -> process it runs in
  Subject,     \* call -> record it names
  Jobs, JobOf,
  Size,        \* record -> size_bytes
  Envelope,    \* record, key -> stored_bytes of its envelope
  MaxRecords, MaxStoredBytes, JobRecords, JobBytes,
  BatchLimit,  \* rows of one maintenance batch
  Installs,    \* bound: key files with a new active key
  Lives,       \* bound: record -> rows inserted for it
  None

Calls == Puts \union Gets

\* Sums of size_bytes over records, and of stored_bytes over envelopes.
Volume(R) == SumFunctionOnSet(Size, R)
Weight(S) == SumFunctionOnSet(Envelope, S)

\* Sizes and envelopes can be added up.
ASSUME SumsAssumption ==
  /\ IsFiniteSet(Keys)
  /\ Size \in [Records -> Nat]
  /\ Envelope \in [Records \X Keys -> Nat]

ASSUME EvidenceStoreAssumption ==
  /\ IsFiniteSet(Records)
  /\ {MaxRecords, MaxStoredBytes, JobRecords, JobBytes} \subseteq Nat
  /\ FirstKey \in Keys
  /\ Host \in [Calls -> Hosts]
  /\ Subject \in [Calls -> Records]
  /\ Puts \intersect Gets = {}
  /\ JobOf \in [Records -> Jobs]
  /\ BatchLimit \in Nat \ {0}
  /\ Installs \in Nat
  /\ Lives \in [Records -> Nat]
  /\ None \notin Calls \union Keys
  /\ None # [active |-> FirstKey, keys |-> {FirstKey}]
  /\ None \notin [key : Keys, expires : Nat]

VARIABLES
  row,     \* record -> None, or the key of the envelope and the expiry
  births,  \* record -> rows inserted so far; an expiry is named by their number
  expired, \* records whose row has passed its expiry
  lock,    \* the put whose transaction holds the capacity lock
  file,    \* the key file: the active key, and all keys
  ring,    \* process -> the file it loaded
  revoked, \* calls the chain and the issuer no longer authorize
  late,    \* history: calls that were so as they read the row, or whose row
           \* has passed its expiry while they waited
  pc,      \* call -> where it stands
  sealed,  \* call -> key a put sealed its envelope with
  held,    \* call -> row a get has read
  installs

rowVars  == <<row, births, expired>>
keyVars  == <<file, ring, installs>>
callVars == <<pc, sealed, held, late>>
vars == <<rowVars, lock, keyVars, callVars, revoked>>

Init ==
  /\ row      = [r \in Records |-> None]
  /\ births   = [r \in Records |-> 0]
  /\ expired  = {}
  /\ lock     = None
  /\ file     = [active |-> FirstKey, keys |-> {FirstKey}]
  /\ ring     = [h \in Hosts |-> file]
  /\ revoked  = {}
  /\ late     = {}
  /\ pc       = [c \in Calls |-> "idle"]
  /\ sealed   = [c \in Calls |-> None]
  /\ held     = [c \in Calls |-> None]
  /\ installs = 0

Goto(c, step) ==
  /\ pc' = [pc EXCEPT ![c] = step]
  /\ UNCHANGED <<sealed, held, late, revoked>>

\* What a handler holds is gone when it ends.
EndAll(C, verdict) ==
  /\ pc'     = [c \in Calls |-> IF c \in C THEN verdict ELSE pc[c]]
  /\ sealed' = [c \in Calls |-> IF c \in C THEN None ELSE sealed[c]]
  /\ held'   = [c \in Calls |-> IF c \in C THEN None ELSE held[c]]
  /\ late'    = late \ C
  /\ revoked' = revoked \ C

End(c, verdict) == EndAll({c}, verdict)

\* A call that reads the row notes whether it is still authorized.
Read(c, step) ==
  /\ pc' = [pc EXCEPT ![c] = step]
  /\ late' = IF c \in revoked THEN late \union {c} ELSE late
  /\ UNCHANGED <<sealed, revoked>>

Stored(rows) == {r \in Records : rows[r] # None}

StoredBytes(rows) == Weight({<<r, rows[r].key>> : r \in Stored(rows)})

OfJob(rows, j) == {r \in Stored(rows) : JobOf[r] = j}

\* The limits: rows and envelopes of all, rows and plaintexts of a job.
Within(rows) ==
  /\ Cardinality(Stored(rows)) <= MaxRecords
  /\ StoredBytes(rows) <= MaxStoredBytes
  /\ \A j \in Jobs :
       /\ Cardinality(OfJob(rows, j)) <= JobRecords
       /\ Volume(OfJob(rows, j)) <= JobBytes

\* Mutant: the expiry lies before the insertion.
PastRow(p) == [key |-> sealed[p], expires |-> births[Subject[p]] - 1]

NewRow(p) == [key |-> sealed[p], expires |-> births[Subject[p]] + 1]

Live(r) == row[r] # None /\ r \notin expired

\* authorize: nothing is cached, each time token and job are read anew.
Allowed(c) == c \notin revoked

-----------------------------------------------------------------------------
(* put.                                                                    *)

AuthorizePut(p) ==
  /\ pc[p] = "idle"
  /\ IF Allowed(p) THEN Goto(p, "seal") ELSE End(p, "denied")
  /\ UNCHANGED <<rowVars, lock, keyVars>>

Seal(p) ==
  /\ pc[p] = "seal"
  /\ sealed' = [sealed EXCEPT ![p] = ring[Host[p]].active]
  /\ pc' = [pc EXCEPT ![p] = "lock"]
  /\ UNCHANGED <<rowVars, lock, keyVars, held, late, revoked>>

\* Mutant: only the rows are counted, not what they hold.
FewEnough(rows) == Cardinality(Stored(rows)) <= MaxRecords

\* Usage is counted under the lock, with the row to come.
Room(rows) == Within(rows)

(* The lock covers reading the row and the usage, authorizing, and writing *)
(* the row.  An existing row has to be live, of the same media type and    *)
(* size, and to open.                                                      *)
LockAndRead(p) ==
  LET r == Subject[p]
      next == IF row[r] # None THEN "again" ELSE "insert" IN
  /\ pc[p] = "lock"
  /\ lock = None
  /\ \/ /\ IF row[r] # None THEN Live(r) /\ row[r].key \in ring[Host[p]].keys
                       ELSE Room([row EXCEPT ![r] = NewRow(p)])
        /\ Read(p, next)
        /\ lock' = p
        /\ UNCHANGED held
     \/ End(p, "denied") /\ UNCHANGED lock
  /\ UNCHANGED <<rowVars, keyVars>>

\* A retry is told the expiry that the row has.
AnswerRetry(p) ==
  /\ pc[p] = "again"
  /\ lock' = None
  /\ End(p, IF Allowed(p) /\ Live(Subject[p]) THEN "done" ELSE "denied")
  /\ UNCHANGED <<rowVars, keyVars>>

AuthorizeInsert(p) ==
  /\ pc[p] = "insert"
  /\ IF Allowed(p)
       THEN Goto(p, "commit") /\ UNCHANGED lock
       ELSE End(p, "denied") /\ lock' = None
  /\ UNCHANGED <<rowVars, keyVars>>

CommitInsert(p) ==
  LET r == Subject[p] IN
  /\ pc[p] = "commit"
  /\ births[r] < Lives[r]
  /\ row' = [row EXCEPT ![r] = NewRow(p)]
  /\ births' = [births EXCEPT ![r] = @ + 1]
  /\ lock' = None
  /\ Goto(p, "answer")
  /\ UNCHANGED <<expired, keyVars>>

AnswerInsert(p) ==
  /\ pc[p] = "answer"
  /\ End(p, "done")
  /\ UNCHANGED <<rowVars, lock, keyVars>>

-----------------------------------------------------------------------------
(* get.                                                                    *)

AuthorizeGet(g) ==
  /\ pc[g] = "idle"
  /\ IF Allowed(g) THEN Goto(g, "read") ELSE End(g, "denied")
  /\ UNCHANGED <<rowVars, lock, keyVars>>

ReadRow(g) ==
  LET r == Subject[g] IN
  /\ pc[g] = "read"
  /\ IF Live(r) /\ row[r].key \in ring[Host[g]].keys
       THEN Read(g, "open") /\ held' = [held EXCEPT ![g] = row[r]]
       ELSE End(g, "denied")
  /\ UNCHANGED <<rowVars, lock, keyVars>>

\* Mutant: the row was live when it was read.
ReadLive(g) == TRUE

\* The row that was read has not passed its expiry, so it was not deleted.
StillLive(g) == Live(Subject[g]) /\ row[Subject[g]].expires = held[g].expires

Open(g) ==
  /\ pc[g] = "open"
  /\ IF Allowed(g) /\ StillLive(g) THEN Goto(g, "expose") ELSE End(g, "denied")
  /\ UNCHANGED <<rowVars, lock, keyVars>>

\* The handler authorizes once more before the bytes leave.
Expose(g) ==
  /\ pc[g] = "expose"
  /\ End(g, IF Allowed(g) THEN "done" ELSE "denied")
  /\ UNCHANGED <<rowVars, lock, keyVars>>

-----------------------------------------------------------------------------
(* Maintenance: one transaction each, all of it under the lock.            *)

Batches(R) == kSubset(Min({BatchLimit, Cardinality(R)}), R)

PurgeExpired ==
  LET old == {r \in Records : row[r] # None /\ r \in expired} IN
  /\ lock = None
  /\ old # {}
  /\ \E P \in Batches(old) :
       /\ row' = [r \in Records |-> IF r \in P THEN None ELSE row[r]]
       /\ expired' = expired \ P
  /\ UNCHANGED <<births, lock, keyVars, callVars, revoked>>

\* An envelope may be larger with the new key's id.
Affordable(rows) ==
  \/ StoredBytes(rows) <= StoredBytes(row)
  \/ StoredBytes(rows) <= MaxStoredBytes

Resealed(R, key) ==
  [r \in Records |-> IF r \in R THEN [row[r] EXCEPT !.key = key] ELSE row[r]]

(* One key missing, or too many bytes, and the whole batch stays.          *)
RotateBatch(h) ==
  LET key == ring[h].active
      others == {r \in Records : row[r] # None /\ row[r].key # key} IN
  /\ lock = None
  /\ others # {}
  /\ \E R \in Batches(others) :
       /\ \A r \in R : row[r].key \in ring[h].keys
       /\ Affordable(Resealed(R, key))
       /\ row' = Resealed(R, key)
  /\ UNCHANGED <<births, expired, lock, keyVars, callVars, revoked>>

-----------------------------------------------------------------------------
(* Time, chain, operator and failures.                                     *)

Waiting(r) == {c \in Calls : Subject[c] = r /\ pc[c] \in {"again", "open"}}

Expire(r) ==
  /\ Live(r)
  /\ expired' = expired \union {r}
  /\ late' = late \union Waiting(r)
  /\ UNCHANGED <<row, births, lock, keyVars, pc, sealed, held, revoked>>

Revoke(c) ==
  /\ c \notin revoked
  /\ pc[c] \notin {"done", "denied"}
  /\ revoked' = revoked \union {c}
  /\ UNCHANGED <<rowVars, lock, keyVars, callVars>>

\* The transaction of a call that fails gives the lock back.
Fail(C) ==
  /\ EndAll(C, "denied")
  /\ lock' = IF lock \in C THEN None ELSE lock

\* Statement or lock timeouts, or an answer that is lost on its way.
FailCall(c) ==
  /\ pc[c] \notin {"idle", "done", "denied"}
  /\ Fail({c})
  /\ UNCHANGED <<rowVars, keyVars>>

InstallKey(k) ==
  /\ installs < Installs
  /\ k # file.active
  /\ installs' = installs + 1
  /\ file' = [active |-> k, keys |-> file.keys \union {k}]
  /\ UNCHANGED <<rowVars, lock, ring, callVars, revoked>>

\* Mutant: the file is loaded again under running calls.
Reloaded(h) == {}

Running(h) == {c \in Calls : Host[c] = h /\ pc[c] \notin {"idle", "done", "denied"}}

\* The key file is loaded once per process.
Restart(h) ==
  /\ ring[h] # file
  /\ ring' = [ring EXCEPT ![h] = file]
  /\ Fail(Running(h))
  /\ UNCHANGED <<rowVars, file, installs>>

\* Every writer restarts with another active key before one is retired.
RetireKey(k) ==
  /\ k \in file.keys \ {file.active}
  /\ \A h \in Hosts : ring[h].active # k
  /\ \A r \in Records : row[r] # None => row[r].key # k
  /\ file' = [file EXCEPT !.keys = @ \ {k}]
  /\ UNCHANGED <<rowVars, lock, ring, installs, callVars, revoked>>

-----------------------------------------------------------------------------
PutStep(p) ==
  \/ AuthorizePut(p) \/ Seal(p) \/ LockAndRead(p) \/ AnswerRetry(p)
  \/ AuthorizeInsert(p) \/ CommitInsert(p) \/ AnswerInsert(p)

GetStep(g) == AuthorizeGet(g) \/ ReadRow(g) \/ Open(g) \/ Expose(g)

Next ==
  \/ \E p \in Puts : PutStep(p)
  \/ \E g \in Gets : GetStep(g)
  \/ PurgeExpired
  \/ \E h \in Hosts : RotateBatch(h) \/ Restart(h)
  \/ \E r \in Records : Expire(r)
  \/ \E c \in Calls : Revoke(c) \/ FailCall(c)
  \/ \E k \in Keys : InstallKey(k) \/ RetireKey(k)

Spec == Init /\ [][Next]_vars

-----------------------------------------------------------------------------
(* Properties.                                                             *)

KeyFile == [active : Keys, keys : SUBSET Keys]
Row == [key : Keys, expires : Nat]

TypeOK ==
  /\ row \in [Records -> Row \union {None}]
  /\ births \in [Records -> Nat]
  /\ expired \subseteq Records
  /\ lock \in Puts \union {None}
  /\ file \in KeyFile
  /\ ring \in [Hosts -> KeyFile]
  /\ revoked \subseteq Calls
  /\ late \subseteq Calls
  /\ pc \in [Calls -> {"idle", "seal", "lock", "again", "insert", "commit", "answer",
                       "read", "open", "expose", "done", "denied"}]
  /\ sealed \in [Calls -> Keys \union {None}]
  /\ held \in [Calls -> Row \union {None}]
  /\ installs \in Nat

(* Concurrent puts, retries and rotations keep the stored rows within the  *)
(* limits of rows and bytes, of all and of each job: what a rotation makes *)
(* grow counts as well as what is put.                                     *)
WithinLimits == Within(row)

(* Every stored row opens with a key of the key file, and so does a row a  *)
(* put is about to insert: no key is retired under a process that started  *)
(* with it and still writes.                                               *)
RowsOpenable ==
  /\ \A r \in Records : row[r] # None => row[r].key \in file.keys
  /\ \A p \in Puts : pc[p] = "commit" => sealed[p] \in file.keys

(* Nothing is stored, told or exposed for a call whose authorization was   *)
(* gone before it read the row, however long it waited for locks and keys; *)
(* nor for one whose row passed its expiry while it waited for a key and   *)
(* for its authorization, even if that row was deleted and another one     *)
(* inserted meanwhile.  And a stored row keeps the expiry it was first     *)
(* given, through retries, rotations and lost answers, until it is deleted.*)
AuthorizedAndKept ==
  [][/\ \A c \in late : pc'[c] # pc[c] => pc'[c] \notin {"commit", "expose", "done"}
     /\ \A r \in Records : row[r] # None /\ row'[r] # None =>
          row'[r].expires = row[r].expires]_vars
=============================================================================
