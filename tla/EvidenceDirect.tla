--------------------------- MODULE EvidenceDirect ---------------------------
(***************************************************************************)
(* Private evidence uploaded straight to S3.  The service reserves a row   *)
(* within the quota and signs an upload for its key; the client uploads,   *)
(* perhaps several times, each giving a version; a complete call finds     *)
(* the latest version and binds it to the row, the first one for good; a   *)
(* download call signs a read of exactly that version.  Operators clean up *)
(* rows that have expired or were never completed.  Rows and versions      *)
(* change apart from each other, and every process may stop in between.    *)
(*                                                                         *)
(* A prepare call mints the identifier of its record, so records are named *)
(* by their calls.                                                         *)
(***************************************************************************)
EXTENDS Naturals, FiniteSets, FiniteSetsExt, Functions

CONSTANTS
  Records,    \* prepare calls and the records they mint
  Completes,  \* complete calls
  Downloads,  \* download calls
  Cleaners,   \* runs of the retention cleanup
  Jobs,
  JobOf,      \* record -> job
  Size,       \* record -> size_bytes
  Subject,    \* complete or download call -> record it names
  GlobalObjects, GlobalBytes, JobObjects, JobBytes,  \* the quotas
  BatchLimit, \* rows one cleanup takes
  ListLimit,  \* versions of a key the cleanup deletes; it refuses a key of more
  Covered,    \* testnet records of the contracts the cleanup is configured for
  Rank,       \* record -> its place by expires_at and id
  MaxUploads, \* bound: record -> uploads its client makes with the signed form
  Crashes,    \* bound: processes that stop
  None

Calls == Completes \union Downloads
Versions == UNION {1 .. MaxUploads[r] : r \in Records}

(* Phases of a record's life: its upload is open; the upload is over, but  *)
(* not for a minute; it is, and the record lives; it has expired; and the  *)
(* grace of the backups is over as well.                                   *)
Open == 0   Over == 1   Stale == 2   Expired == 3   Retired == 4
Phases == Open .. Retired

Bytes(R) == SumFunctionOnSet(Size, R)

Within(R, objects, bytes) == Cardinality(R) <= objects /\ Bytes(R) <= bytes

\* What the quotas admit: count and bytes, globally and for each job.
WithinQuota(R) ==
  /\ Within(R, GlobalObjects, GlobalBytes)
  /\ \A j \in Jobs : Within({r \in R : JobOf[r] = j}, JobObjects, JobBytes)

ASSUME EvidenceDirectAssumption ==
  /\ JobOf \in [Records -> Jobs]
  /\ Subject \in [Calls -> Records]
  /\ Completes \intersect Downloads = {}
  /\ Records \intersect Calls = {}
  /\ {"idle", "list"} \intersect Records = {}
  /\ BatchLimit \in Nat \ {0}
  /\ MaxUploads \in [Records -> Nat]
  /\ Crashes \in Nat
  /\ None \notin Records

\* The order in which the cleanup takes records has no ties.
ASSUME CleanupAssumption ==
  /\ Covered \subseteq Records
  /\ ListLimit \in Nat
  /\ Rank \in [Records -> Nat]
  /\ IsInjective(Rank)

\* Objects and their sizes can be counted against the quotas.
ASSUME QuotaAssumption ==
  /\ IsFiniteSet(Records)
  /\ Size \in [Records -> Nat]
  /\ GlobalObjects \in Nat /\ GlobalBytes \in Nat
  /\ JobObjects \in Nat /\ JobBytes \in Nat

VARIABLES
  row,      \* record -> its row: "absent", "live", "purged" or "pruned"
  version,  \* record -> version_id, 0 for NULL
  age,      \* record -> phase, by the one clock of service and database
  bucket,   \* record -> versions under its key
  minted,   \* record -> uploads so far; versions are numbered in order
  form,     \* records whose signed upload form was returned
  capacity, \* the record whose transaction holds the capacity lock
  pc,       \* record or call -> where its handler stands
  read,     \* call -> version_id its handler read or verified
  clean,    \* cleaner -> its step
  held,     \* cleaner -> rows its transaction has locked
  todo,     \* cleaner -> of these, rows it has not marked purged
  listing,  \* cleaner -> versions listed and not deleted yet, None between rows
  crashes

rowVars   == <<row, version>>
s3Vars    == <<bucket, minted>>
callVars  == <<pc, read, form, capacity>>
cleanVars == <<clean, held, todo, listing>>
vars == <<rowVars, s3Vars, callVars, cleanVars, age, crashes>>

Init ==
  /\ row      = [r \in Records |-> "absent"]
  /\ version  = [r \in Records |-> 0]
  /\ age      = [r \in Records |-> Open]
  /\ bucket   = [r \in Records |-> {}]
  /\ minted   = [r \in Records |-> 0]
  /\ form     = {}
  /\ capacity = None
  /\ pc       = [c \in Records \union Calls |-> "idle"]
  /\ read     = [c \in Calls |-> 0]
  /\ clean    = [k \in Cleaners |-> "idle"]
  /\ held     = [k \in Cleaners |-> {}]
  /\ todo     = [k \in Cleaners |-> {}]
  /\ listing  = [k \in Cleaners |-> None]
  /\ crashes  = 0

Goto(c, step) == pc' = [pc EXCEPT ![c] = step]

\* Rows that count towards the quotas, and rows a cleanup has locked.
Counted == {r \in Records : row[r] = "live"}
Locked(r) == \E k \in Cleaners : r \in held[k]

-----------------------------------------------------------------------------
(* prepare.                                                                *)

\* The id is minted and the deadlines fixed before anything is stored.
MintRecord(r) ==
  /\ pc[r] = "idle"
  /\ Goto(r, "reserve")
  /\ UNCHANGED <<rowVars, s3Vars, read, form, capacity, cleanVars, age, crashes>>

\* Mutant: the advisory lock is not taken.
CapacityUnlocked(r) == TRUE

CapacityFree(r) == capacity = None

\* reserve: under the lock, the live rows are counted.
CountReservations(r) ==
  /\ pc[r] = "reserve"
  /\ CapacityFree(r)
  /\ IF WithinQuota(Counted \union {r})
       THEN Goto(r, "insert") /\ capacity' = r
       ELSE Goto(r, "denied") /\ UNCHANGED capacity
  /\ UNCHANGED <<rowVars, s3Vars, read, form, cleanVars, age, crashes>>

InsertReservation(r) ==
  /\ pc[r] = "insert"
  /\ row' = [row EXCEPT ![r] = "live"]
  /\ capacity' = None
  /\ Goto(r, "sign")
  /\ UNCHANGED <<version, s3Vars, read, form, cleanVars, age, crashes>>

(* The form is signed for what is left of the upload time, the caller is   *)
(* authorized once more, and the time checked again.  The slot stays       *)
(* reserved when any of this fails.                                        *)
ReturnForm(r) ==
  /\ pc[r] = "sign"
  /\ \/ age[r] = Open /\ Goto(r, "done") /\ form' = form \union {r}
     \/ Goto(r, "denied") /\ UNCHANGED form
  /\ UNCHANGED <<rowVars, s3Vars, read, capacity, cleanVars, age, crashes>>

-----------------------------------------------------------------------------
(* complete.                                                               *)

\* find and the checks on what it returned; c is a complete or a download.
Found(r) == row[r] = "live" /\ age[r] < Expired

Deny(c) == Goto(c, "denied") /\ read' = [read EXCEPT ![c] = 0]

FindForComplete(c) ==
  LET r == Subject[c] IN
  /\ pc[c] = "idle"
  /\ IF Found(r)
       THEN /\ read' = [read EXCEPT ![c] = version[r]]
            /\ Goto(c, IF version[r] = 0 THEN "verify" ELSE "confirm")
       ELSE Deny(c)
  /\ UNCHANGED <<rowVars, s3Vars, form, capacity, cleanVars, age, crashes>>

\* Mutant: the bucket has no versioning, and that is not noticed.
LatestNull(r) == None

\* HEAD of the key answers for its latest version.
Latest(r) == Max(bucket[r])

VerifyUpload(c) ==
  LET r == Subject[c] IN
  /\ pc[c] = "verify"
  /\ IF age[r] = Open /\ bucket[r] # {}
       THEN read' = [read EXCEPT ![c] = Latest(r)] /\ Goto(c, "recheck")
       ELSE Deny(c)
  /\ UNCHANGED <<rowVars, s3Vars, form, capacity, cleanVars, age, crashes>>

\* Authorization, which may be refused, and the time, after the HEAD.
RecheckUpload(c) ==
  /\ pc[c] = "recheck"
  /\ \/ age[Subject[c]] = Open /\ Goto(c, "finalize") /\ UNCHANGED read
     \/ Deny(c)
  /\ UNCHANGED <<rowVars, s3Vars, form, capacity, cleanVars, age, crashes>>

Finalizable(r) ==
  /\ row[r] = "live"
  /\ age[r] < Expired
  /\ version[r] # 0 \/ age[r] = Open

\* Mutant: version_id is overwritten.
BindLatest(r, v) == v

\* coalesce(version_id, $2): the first version stays.
Bind(r, v) == IF version[r] # 0 THEN version[r] ELSE v

\* finalize: one UPDATE, which waits for a cleanup that holds the row.
Finalize(c) ==
  LET r == Subject[c] IN
  /\ pc[c] = "finalize"
  /\ ~Locked(r)
  /\ IF Finalizable(r)
       THEN /\ version' = [version EXCEPT ![r] = Bind(r, read[c])]
            /\ Goto(c, "confirm")
            /\ UNCHANGED read
       ELSE Deny(c) /\ UNCHANGED version
  /\ UNCHANGED <<row, s3Vars, form, capacity, cleanVars, age, crashes>>

\* The last authorization and expiry check before the answer.
ConfirmComplete(c) ==
  /\ c \in Completes
  /\ pc[c] = "confirm"
  /\ \/ age[Subject[c]] < Expired /\ Goto(c, "done") /\ UNCHANGED read
     \/ Deny(c)
  /\ UNCHANGED <<rowVars, s3Vars, form, capacity, cleanVars, age, crashes>>

-----------------------------------------------------------------------------
(* download.                                                               *)

FindForDownload(c) ==
  LET r == Subject[c] IN
  /\ pc[c] = "idle"
  /\ IF Found(r) /\ version[r] # 0
       THEN read' = [read EXCEPT ![c] = version[r]] /\ Goto(c, "url")
       ELSE Deny(c)
  /\ UNCHANGED <<rowVars, s3Vars, form, capacity, cleanVars, age, crashes>>

(* A URL of the version that was read, for a minute and never beyond the   *)
(* expiry of the record; authorized and checked again before it leaves.    *)
ReturnUrl(c) ==
  /\ pc[c] = "url"
  /\ \/ age[Subject[c]] < Expired /\ Goto(c, "done") /\ UNCHANGED read
     \/ Deny(c)
  /\ UNCHANGED <<rowVars, s3Vars, form, capacity, cleanVars, age, crashes>>

-----------------------------------------------------------------------------
(* The client, the clock, and processes that stop.                         *)

(* S3 accepts the form until it expires, with the content that was signed. *)
(* An upload it accepted is stored within the minute the cleanup waits.    *)
Upload(r) ==
  /\ r \in form
  /\ age[r] <= Over
  /\ minted[r] < MaxUploads[r]
  /\ minted' = [minted EXCEPT ![r] = @ + 1]
  /\ bucket' = [bucket EXCEPT ![r] = @ \union {minted[r] + 1}]
  /\ UNCHANGED <<rowVars, callVars, cleanVars, age, crashes>>

(* Time passes for the records that are stored.  A reservation that waits  *)
(* longer than the seconds the pool allows fails, its upload still open.   *)
Tick(r) ==
  /\ row[r] # "absent"
  /\ age[r] < Retired
  /\ age' = [age EXCEPT ![r] = @ + 1]
  /\ UNCHANGED <<rowVars, s3Vars, callVars, cleanVars, crashes>>

\* The service stops under a handler: an open transaction rolls back.
CrashCall(c) ==
  /\ crashes < Crashes
  /\ pc[c] \notin {"idle", "done", "denied"}
  /\ crashes' = crashes + 1
  /\ Goto(c, "denied")
  /\ read' = [d \in Calls |-> IF d = c THEN 0 ELSE read[d]]
  /\ capacity' = IF capacity = c THEN None ELSE capacity
  /\ UNCHANGED <<rowVars, s3Vars, form, cleanVars, age>>

-----------------------------------------------------------------------------
(* Retention cleanup: one transaction over a batch of rows, S3 first.      *)

\* Mutant: any row whose upload is over is taken.
EligibleEarly(r) == r \in Covered /\ row[r] = "live" /\ age[r] >= Stale

\* Mutant: rows that were never completed are left alone.
EligibleBound(r) ==
  r \in Covered /\ row[r] = "live" /\ age[r] >= Expired /\ version[r] # 0

Eligible(r) ==
  /\ r \in Covered /\ row[r] = "live"
  /\ age[r] >= Expired \/ (version[r] = 0 /\ age[r] >= Stale)

\* ORDER BY expires_at, id LIMIT ...
Earliest(R) == {r \in R : Cardinality({q \in R : Rank[q] < Rank[r]}) < BatchLimit}

\* ... FOR UPDATE SKIP LOCKED.
SelectRows(k) ==
  LET rows == Earliest({r \in Records : Eligible(r) /\ ~Locked(r)}) IN
  /\ clean[k] = "idle"
  /\ held' = [held EXCEPT ![k] = rows]
  /\ todo' = [todo EXCEPT ![k] = rows]
  /\ clean' = [clean EXCEPT ![k] = "list"]
  /\ UNCHANGED <<rowVars, s3Vars, callVars, listing, age, crashes>>

IsNext(k, r) == clean[k] = "list" /\ r \in todo[k] /\ \A q \in todo[k] : Rank[r] <= Rank[q]

\* More versions than the cleanup may delete, or than one listing returns.
Flooded(r) == Cardinality(bucket[r]) > ListLimit

\* removeExactKey of the next row: the versions of its key are listed ...
ListVersions(k) ==
  /\ \E r \in todo[k] :
       /\ IsNext(k, r)
       /\ ~Flooded(r)
       /\ clean' = [clean EXCEPT ![k] = r]
       /\ listing' = [listing EXCEPT ![k] = bucket[r]]
  /\ UNCHANGED <<rowVars, s3Vars, callVars, held, todo, age, crashes>>

\* ... deleted one by one ...
DeleteVersion(k) ==
  /\ clean[k] \in Records
  /\ \E v \in listing[k] :
       /\ listing' = [listing EXCEPT ![k] = @ \ {v}]
       /\ bucket' = [bucket EXCEPT ![clean[k]] = @ \ {v}]
  /\ UNCHANGED <<rowVars, minted, callVars, clean, held, todo, age, crashes>>

\* Mutant: the second listing is not made, nor the end of the first awaited.
AssumedAbsent(k) == TRUE

VerifiedAbsent(k) == listing[k] = {} /\ bucket[clean[k]] = {}

\* ... and listed again before the row is marked purged.
MarkPurged(k) ==
  /\ clean[k] \in Records
  /\ VerifiedAbsent(k)
  /\ todo' = [todo EXCEPT ![k] = @ \ {clean[k]}]
  /\ listing' = [listing EXCEPT ![k] = None]
  /\ clean' = [clean EXCEPT ![k] = "list"]
  /\ UNCHANGED <<rowVars, s3Vars, callVars, held, age, crashes>>

\* Tombstones are deleted once the backups' grace is over.
Prunable(k) ==
  {r \in Covered : /\ row[r] = "purged" \/ r \in held[k]
                   /\ age[r] = Retired
                   /\ \A j \in Cleaners \ {k} : r \notin held[j]}

CommitCleanup(k) ==
  /\ clean[k] = "list"
  /\ todo[k] = {}
  /\ row' = [r \in Records |-> IF r \in Earliest(Prunable(k)) THEN "pruned"
                               ELSE IF r \in held[k] THEN "purged" ELSE row[r]]
  /\ clean' = [clean EXCEPT ![k] = "idle"]
  /\ held' = [held EXCEPT ![k] = {}]
  /\ UNCHANGED <<version, s3Vars, callVars, todo, listing, age, crashes>>

\* The rows roll back, S3 does not.
RollBack(k) ==
  /\ clean' = [clean EXCEPT ![k] = "idle"]
  /\ held' = [held EXCEPT ![k] = {}]
  /\ todo' = [todo EXCEPT ![k] = {}]
  /\ listing' = [listing EXCEPT ![k] = None]
  /\ UNCHANGED <<rowVars, s3Vars, callVars, age>>

\* The first listing is of too many versions: for an operator to look at.
FoundFlood(k) == \E r \in todo[k] : IsNext(k, r) /\ Flooded(r)

\* The second listing finds what was written after the first, though the upload
\* is over: a restored version can be.
FoundMore(k) == clean[k] \in Records /\ listing[k] = {} /\ bucket[clean[k]] # {}

\* Either is an exception of the whole batch, in every run that meets it.
RefuseBatch(k) ==
  /\ FoundFlood(k) \/ FoundMore(k)
  /\ RollBack(k)
  /\ UNCHANGED crashes

\* A failed listing or deletion, or a stop.
AbortCleanup(k) ==
  /\ clean[k] # "idle"
  /\ crashes < Crashes
  /\ crashes' = crashes + 1
  /\ RollBack(k)

-----------------------------------------------------------------------------
PrepareStep(r) ==
  MintRecord(r) \/ CountReservations(r) \/ InsertReservation(r) \/ ReturnForm(r)

CompleteStep(c) ==
  \/ FindForComplete(c) \/ VerifyUpload(c) \/ RecheckUpload(c)
  \/ Finalize(c) \/ ConfirmComplete(c)

DownloadStep(c) == FindForDownload(c) \/ ReturnUrl(c)

CleanupStep(k) ==
  \/ SelectRows(k) \/ ListVersions(k) \/ DeleteVersion(k)
  \/ MarkPurged(k) \/ CommitCleanup(k) \/ RefuseBatch(k)

Operation ==
  \/ \E r \in Records : PrepareStep(r) \/ Upload(r)
  \/ \E c \in Completes : CompleteStep(c)
  \/ \E c \in Downloads : DownloadStep(c)
  \/ \E c \in Records \union Calls : CrashCall(c)
  \/ \E k \in Cleaners : CleanupStep(k) \/ AbortCleanup(k)

Next == Operation \/ \E r \in Records : Tick(r)

Spec == Init /\ [][Next]_vars

(* Time passes, and the cleanup is run again and again by its timer: a run *)
(* that has started ends, by a commit, a refusal or a bounded failure.     *)
Fairness ==
  /\ WF_age(\E r \in Records : Tick(r))
  /\ \A k \in Cleaners : WF_cleanVars(CleanupStep(k))

FairSpec == Spec /\ Fairness

-----------------------------------------------------------------------------
(* Properties.                                                             *)

Steps == {"idle", "reserve", "insert", "sign", "verify", "recheck", "finalize",
          "confirm", "url", "done", "denied"}

TypeOK ==
  /\ row \in [Records -> {"absent", "live", "purged", "pruned"}]
  /\ version \in [Records -> Nat]
  /\ age \in [Records -> Phases]
  /\ bucket \in [Records -> SUBSET Nat]
  /\ minted \in [Records -> Nat]
  /\ form \subseteq Records
  /\ capacity \in Records \union {None}
  /\ pc \in [Records \union Calls -> Steps]
  /\ read \in [Calls -> Nat]
  /\ clean \in [Cleaners -> {"idle", "list"} \union Records]
  /\ held \in [Cleaners -> SUBSET Records]
  /\ todo \in [Cleaners -> SUBSET Records]
  /\ listing \in [Cleaners -> (SUBSET Nat) \union {None}]
  /\ crashes \in Nat

(* Concurrent reservations never take the stored rows past a quota, of     *)
(* objects or bytes, of the service or of one job, also when reservations  *)
(* fail half way and cleanups give slots back meanwhile.                   *)
QuotaHolds == WithinQuota(Counted)

(* Before it expires, the version a row is bound to is in the bucket, and  *)
(* so is the version of every URL that was signed and still works; and a   *)
(* complete call that was answered stays true.  No cleanup, whole or       *)
(* failed half way, meets a call that binds what it has just deleted.      *)
FinalizedReadable ==
  /\ \A r \in Records :
       row[r] = "live" /\ version[r] # 0 /\ age[r] < Expired => version[r] \in bucket[r]
  /\ \A c \in Downloads :
       pc[c] = "done" /\ age[Subject[c]] < Expired => read[c] \in bucket[Subject[c]]
  /\ \A c \in Completes :
       pc[c] = "done" /\ age[Subject[c]] < Expired =>
         row[Subject[c]] = "live" /\ version[Subject[c]] # 0

\* A run that takes the rows now refuses its batch, which r is in or behind.
HeldUp(r) ==
  /\ Eligible(r)
  /\ \E q \in Earliest({p \in Records : Eligible(p)}) : Flooded(q)

(* The slot of every reservation that the cleanup covers comes back, of    *)
(* one whose form was never returned, never used or never completed as     *)
(* well, although cleanups fail half way: unless the row is held up for    *)
(* good by a flooded key of its own batch, or of one ahead of it.          *)
SlotsReturn ==
  \A r \in Covered : (row[r] = "live" ~> row[r] # "live") \/ <>[]HeldUp(r)

Kept == [r \in Records |->
  CASE row[r] = "absent" -> "free"
    [] row[r] = "live"   -> IF version[r] = 0 THEN "reserved" ELSE "held"
    [] OTHER             -> "gone"]

Vault == INSTANCE EvidenceVault WITH
  Nothing <- 0, Fits <- WithinQuota,
  kept <- Kept, content <- version,
  open <- {r \in Records : age[r] = Open},
  expired <- {r \in Records : age[r] >= Expired}

(* Rows, calls and cleanups together keep the promise of EvidenceVault:    *)
(* reserved within the quota, bound once while the upload is open, the     *)
(* version never exchanged, given up only when over or expired.            *)
VaultSpec == Vault!Spec
=============================================================================
