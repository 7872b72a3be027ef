--------------------------- MODULE EvidenceBackup ---------------------------
(***************************************************************************)
(* The backup of direct evidence: operators copy bound versions to a       *)
(* second bucket, restore a version that was lost, and retire the copies   *)
(* seven days after the expiry.  Each step that writes to S3 lies between  *)
(* two transactions on the records and their ledger; any of the processes  *)
(* may stop, a write may be lost, or arrive after its sender has given it  *)
(* up.  EvidenceDirect goes on meanwhile: calls, uploads and cleanups.     *)
(***************************************************************************)
EXTENDS EvidenceDirect

CONSTANTS
  Passes,     \* operators that run reconciliation passes, over and over
  Recoveries, \* operators that recover one record each
  RecoveryOf, \* recovery -> record
  Retirers,   \* operators that run the retention of copies
  Losses      \* bound: times the primary bucket loses versions

ASSUME EvidenceBackupAssumption ==
  /\ RecoveryOf \in [Recoveries -> Records]
  /\ Passes \intersect Recoveries = {}
  /\ Losses \in Nat
  /\ None \notin Passes

VARIABLES
  ledger,   \* record -> private_evidence_backups.state, "none" without a row
  expected, \* record -> source version of the ledger's snapshot
  manifest, \* record -> the verified copy, None before
  restored, \* record -> restored_version, 0 for NULL
  copies,   \* record -> copies under its key in the backup bucket
  made,     \* record -> copies written so far
  tags,     \* record -> restored versions, each with the copy it came from
  puts,     \* conditional writes on their way to S3
  session,  \* the pass whose session holds the advisory lock
  pass,     \* pass -> its step
  queue,    \* pass -> candidates it has not tried
  current,  \* pass -> the candidate under way
  source,   \* pass -> version it copies
  copy,     \* pass or recovery -> the copy it has found
  recovery, \* recovery -> its step
  target,   \* recovery -> the restored version it has found
  retire,   \* retirer -> record whose copies it deletes, None between
  doomed,   \* retirer -> copies listed and not deleted yet
  losses

ledgerVars  == <<ledger, expected, manifest, restored>>
copyVars    == <<copies, made>>
passVars    == <<session, pass, queue, current, source>>
recoverVars == <<recovery, target>>
retireVars  == <<retire, doomed>>
backupVars  == <<ledgerVars, copyVars, tags, puts, passVars, copy, recoverVars,
                 retireVars, losses>>

BackupInit ==
  /\ Init
  /\ ledger   = [r \in Records |-> "none"]
  /\ expected = [r \in Records |-> 0]
  /\ manifest = [r \in Records |-> None]
  /\ restored = [r \in Records |-> 0]
  /\ copies   = [r \in Records |-> {}]
  /\ made     = [r \in Records |-> 0]
  /\ tags     = [r \in Records |-> {}]
  /\ puts     = {}
  /\ session  = None
  /\ pass     = [p \in Passes |-> "idle"]
  /\ queue    = [p \in Passes |-> {}]
  /\ current  = [p \in Passes |-> None]
  /\ source   = [p \in Passes |-> 0]
  /\ copy     = [p \in Passes \union Recoveries |-> None]
  /\ recovery = [q \in Recoveries |-> "idle"]
  /\ target   = [q \in Recoveries |-> 0]
  /\ retire   = [t \in Retirers |-> None]
  /\ doomed   = [t \in Retirers |-> {}]
  /\ losses   = 0

\* What the ledger's transactions find under the lock of the record's row.
SourceAvailable(r) ==
  ~Locked(r) /\ row[r] = "live" /\ version[r] # 0 /\ age[r] < Expired

\* evidenceBackupPhase
Restorable(r) == age[r] < Expired
PurgeDue(r)   == age[r] = Retired

-----------------------------------------------------------------------------
(* Reconciliation: candidates one after the other, under a lock that       *)
(* belongs to the session.                                                 *)

Candidates ==
  {r \in Records : /\ row[r] = "live" /\ version[r] # 0 /\ age[r] < Expired
                   /\ ledger[r] \in {"none", "pending"}}

\* The rows that were longest untouched; ties and touches leave it open which.
Batches(R) == kSubset(Min({BatchLimit, Cardinality(R)}), R)

StartPass(p) ==
  /\ pass[p] = "idle"
  /\ session = None
  /\ Candidates # {}
  /\ session' = p
  /\ queue' \in {[queue EXCEPT ![p] = R] : R \in Batches(Candidates)}
  /\ pass' = [pass EXCEPT ![p] = "next"]
  /\ UNCHANGED <<vars, ledgerVars, copyVars, tags, puts, current, source, copy,
                 recoverVars, retireVars, losses>>

\* The candidate is done, or an exception put it off; the next one's turn.
NextItem(p) ==
  /\ pass' = [pass EXCEPT ![p] = "next"]
  /\ queue' = [queue EXCEPT ![p] = @ \ {current[p]}]
  /\ current' = [current EXCEPT ![p] = None]
  /\ source' = [source EXCEPT ![p] = 0]
  /\ copy' = [copy EXCEPT ![p] = None]

\* ledger.reserve: the intent is durable before anything is written to S3.
ReserveIntent(p) ==
  /\ pass[p] = "next"
  /\ \E r \in queue[p] :
       /\ ~Locked(r)
       /\ IF SourceAvailable(r) /\ (ledger[r] = "none" \/ expected[r] = version[r])
            THEN /\ ledger' = [ledger EXCEPT ![r] = IF @ = "none" THEN "pending" ELSE @]
                 /\ expected' = [expected EXCEPT ![r] = version[r]]
                 /\ current' = [current EXCEPT ![p] = r]
                 /\ source' = [source EXCEPT ![p] = version[r]]
                 /\ pass' = [pass EXCEPT ![p] = "check"]
                 /\ UNCHANGED queue
            ELSE /\ queue' = [queue EXCEPT ![p] = @ \ {r}]
                 /\ UNCHANGED <<ledger, expected, current, source, pass>>
  /\ UNCHANGED <<vars, manifest, restored, copyVars, tags, puts, session, copy,
                 recoverVars, retireVars, losses>>

\* The latest copy under the key, when it is one of the pass's snapshot.
Existing(p) ==
  LET r == current[p] IN
  {m \in copies[r] : /\ \A n \in copies[r] : n.id <= m.id
                     /\ Restorable(r) /\ m.source = source[p]}

\* verifyExisting
UseExisting(p) ==
  \/ \E m \in Existing(p) :
       /\ copy' = [copy EXCEPT ![p] = m]
       /\ pass' = [pass EXCEPT ![p] = "readback"]
       /\ UNCHANGED <<queue, current, source>>
  \/ Existing(p) = {} /\ NextItem(p)

\* copy: a copy that exists is used; only when there is none is one written.
CheckCopy(p) ==
  /\ pass[p] = "check"
  /\ IF copies[current[p]] = {}
       THEN /\ pass' = [pass EXCEPT ![p] = "put"]
            /\ UNCHANGED <<queue, current, source, copy>>
       ELSE UseExisting(p)
  /\ UNCHANGED <<vars, ledgerVars, copyVars, tags, puts, session, recoverVars, retireVars,
                 losses>>

Put(by, r, kind, of) == [by |-> by, record |-> r, kind |-> kind, of |-> of]

\* The exact source version is read, and written to the backup bucket.
SendCopy(p) ==
  LET r == current[p] IN
  /\ pass[p] = "put"
  /\ IF source[p] \in bucket[r] /\ Restorable(r)
       THEN /\ puts' = puts \union {Put(p, r, "copy", source[p])}
            /\ pass' = [pass EXCEPT ![p] = "wait"]
            /\ UNCHANGED <<queue, current, source, copy>>
       ELSE NextItem(p) /\ UNCHANGED puts
  /\ UNCHANGED <<vars, ledgerVars, copyVars, tags, session, recoverVars, retireVars, losses>>

\* After the write or its conflict, whichever copy is there is verified.
RecheckCopy(p) ==
  /\ pass[p] = "recheck"
  /\ UseExisting(p)
  /\ UNCHANGED <<vars, ledgerVars, copyVars, tags, puts, session, recoverVars, retireVars,
                 losses>>

\* readBackup of the exact copy.
ReadBack(p) ==
  LET r == current[p] IN
  /\ pass[p] = "readback"
  /\ IF copy[p] \in copies[r] /\ Restorable(r)
       THEN /\ pass' = [pass EXCEPT ![p] = "verify"]
            /\ UNCHANGED <<queue, current, source, copy>>
       ELSE NextItem(p)
  /\ UNCHANGED <<vars, ledgerVars, copyVars, tags, puts, session, recoverVars, retireVars,
                 losses>>

\* ledger.verify: the snapshot is still the row's, the manifest never another.
VerifyIntent(p) ==
  LET r == current[p] IN
  /\ pass[p] = "verify"
  /\ ~Locked(r)
  /\ IF /\ SourceAvailable(r)
        /\ ledger[r] # "none" /\ expected[r] = version[r] /\ copy[p].source = expected[r]
        /\ manifest[r] \in {None, copy[p]}
       THEN /\ ledger' = [ledger EXCEPT ![r] = "verified"]
            /\ manifest' = [manifest EXCEPT ![r] = copy[p]]
       ELSE UNCHANGED <<ledger, manifest>>
  /\ NextItem(p)
  /\ UNCHANGED <<vars, expected, restored, copyVars, tags, puts, session, recoverVars,
                 retireVars, losses>>

Unlock(p) == session' = IF session = p THEN None ELSE session

EndPass(p) ==
  /\ pass[p] = "next"
  /\ queue[p] = {}
  /\ pass' = [pass EXCEPT ![p] = "idle"]
  /\ Unlock(p)
  /\ UNCHANGED <<vars, ledgerVars, copyVars, tags, puts, queue, current, source, copy,
                 recoverVars, retireVars, losses>>

\* The timeout of a request whose write may still arrive.
GiveUpCopy(p) ==
  /\ pass[p] = "wait"
  /\ NextItem(p)
  /\ UNCHANGED <<vars, ledgerVars, copyVars, tags, puts, session, recoverVars, retireVars,
                 losses>>

\* The session ends, and its lock with it; the pass may not notice.
LoseSession(p) ==
  /\ crashes < Crashes
  /\ session = p
  /\ crashes' = crashes + 1
  /\ session' = None
  /\ \/ UNCHANGED <<pass, queue, current, source, copy>>
     \/ /\ pass' = [pass EXCEPT ![p] = "idle"]
        /\ queue' = [queue EXCEPT ![p] = {}]
        /\ current' = [current EXCEPT ![p] = None]
        /\ source' = [source EXCEPT ![p] = 0]
        /\ copy' = [copy EXCEPT ![p] = None]
  /\ UNCHANGED <<rowVars, s3Vars, callVars, cleanVars, age, ledgerVars, copyVars, tags,
                 puts, recoverVars, retireVars, losses>>

PassStep(p) ==
  \/ StartPass(p) \/ ReserveIntent(p) \/ CheckCopy(p) \/ SendCopy(p)
  \/ RecheckCopy(p) \/ ReadBack(p) \/ VerifyIntent(p) \/ EndPass(p)
  \/ GiveUpCopy(p)

-----------------------------------------------------------------------------
(* Recovery of a record whose version was lost.                            *)

LoadRecovery(q) ==
  LET r == RecoveryOf[q] IN
  /\ recovery[q] = "idle"
  /\ SourceAvailable(r)
  /\ ledger[r] = "verified"
  /\ version[r] = IF restored[r] # 0 THEN restored[r] ELSE expected[r]
  /\ copy' = [copy EXCEPT ![q] = manifest[r]]
  /\ recovery' = [recovery EXCEPT ![q] = "check"]
  /\ UNCHANGED <<vars, ledgerVars, copyVars, tags, puts, passVars, target, retireVars, losses>>

\* An exception; the operator may run the command again.
Quit(q) ==
  /\ recovery' = [recovery EXCEPT ![q] = "idle"]
  /\ copy' = [copy EXCEPT ![q] = None]
  /\ target' = [target EXCEPT ![q] = 0]

\* verifyRestored: the latest version, when it is a restore of this copy.
UseRestored(q) ==
  LET r == RecoveryOf[q]
      latest == Max(bucket[r])
  IN IF bucket[r] # {} /\ Restorable(r) /\ <<latest, copy[q]>> \in tags[r]
       THEN /\ target' = [target EXCEPT ![q] = latest]
            /\ recovery' = [recovery EXCEPT ![q] = "commit"]
            /\ UNCHANGED copy
       ELSE Quit(q)

\* The copy is read and verified; a primary object that is there is used, if
\* it is a restore of this copy, or left alone.
CheckRestored(q) ==
  LET r == RecoveryOf[q] IN
  /\ recovery[q] = "check"
  /\ IF copy[q] \notin copies[r] \/ ~Restorable(r)
       THEN Quit(q)
       ELSE IF bucket[r] = {}
              THEN recovery' = [recovery EXCEPT ![q] = "put"] /\ UNCHANGED <<copy, target>>
              ELSE UseRestored(q)
  /\ UNCHANGED <<vars, ledgerVars, copyVars, tags, puts, passVars, retireVars, losses>>

\* The expiry is checked once more immediately before the write.
SendRestore(q) ==
  LET r == RecoveryOf[q] IN
  /\ recovery[q] = "put"
  /\ IF Restorable(r)
       THEN /\ puts' = puts \union {Put(q, r, "restore", copy[q])}
            /\ recovery' = [recovery EXCEPT ![q] = "wait"]
            /\ UNCHANGED <<copy, target>>
       ELSE Quit(q) /\ UNCHANGED puts
  /\ UNCHANGED <<vars, ledgerVars, copyVars, tags, passVars, retireVars, losses>>

RecheckRestored(q) ==
  /\ recovery[q] = "recheck"
  /\ UseRestored(q)
  /\ UNCHANGED <<vars, ledgerVars, copyVars, tags, puts, passVars, retireVars, losses>>

\* Mutant: a second restored version replaces the first.
RebindableAgain(r, v) == v # expected[r]

Rebindable(r, v) == restored[r] = 0 /\ version[r] = expected[r] /\ v # expected[r]

(* commitRestore: the row is bound to the restored version, and the ledger *)
(* remembers it; the same version again is fine, another one a conflict.   *)
CommitRestore(q) ==
  LET r == RecoveryOf[q]
      v == target[q]
  IN
  /\ recovery[q] = "commit"
  /\ ~Locked(r)
  /\ \/ /\ SourceAvailable(r) /\ ledger[r] = "verified"
        /\ restored[r] = v /\ version[r] = v
        /\ recovery' = [recovery EXCEPT ![q] = "done"]
        /\ UNCHANGED <<version, restored, copy, target>>
     \/ /\ SourceAvailable(r) /\ ledger[r] = "verified"
        /\ ~(restored[r] = v /\ version[r] = v)
        /\ Rebindable(r, v)
        /\ version' = [version EXCEPT ![r] = v]
        /\ restored' = [restored EXCEPT ![r] = v]
        /\ recovery' = [recovery EXCEPT ![q] = "done"]
        /\ UNCHANGED <<copy, target>>
     \/ /\ \/ ~SourceAvailable(r) \/ ledger[r] # "verified"
           \/ ~(restored[r] = v /\ version[r] = v) /\ ~Rebindable(r, v)
        /\ Quit(q)
        /\ UNCHANGED <<version, restored>>
  /\ UNCHANGED <<row, s3Vars, callVars, cleanVars, age, crashes, ledger, expected, manifest,
                 copyVars, tags, puts, passVars, retireVars, losses>>

\* A timeout or a stop; after a commit whose answer is lost too.
AbandonRecovery(q) ==
  /\ recovery[q] \notin {"idle", "done"}
  /\ Quit(q)
  /\ UNCHANGED <<vars, ledgerVars, copyVars, tags, puts, passVars, retireVars, losses>>

RecoveryStep(q) ==
  \/ LoadRecovery(q) \/ CheckRestored(q) \/ SendRestore(q)
  \/ RecheckRestored(q) \/ CommitRestore(q) \/ AbandonRecovery(q)

-----------------------------------------------------------------------------
(* S3: a conditional write takes effect when there is nothing under its    *)
(* key, and its sender, if it still waits, goes on either way.             *)

Answered(m) ==
  IF m.kind = "copy"
    THEN /\ pass' = [pass EXCEPT ![m.by] = IF @ = "wait" THEN "recheck" ELSE @]
         /\ UNCHANGED recovery
    ELSE /\ recovery' = [recovery EXCEPT ![m.by] = IF @ = "wait" THEN "recheck" ELSE @]
         /\ UNCHANGED pass

\* Mutant: the write is sent without IfNoneMatch.
AnyKey(objects) == TRUE

FreeKey(objects) == objects = {}

LandCopy(m) ==
  LET r == m.record IN
  /\ m.kind = "copy"
  /\ IF FreeKey(copies[r])
       THEN /\ made' = [made EXCEPT ![r] = @ + 1]
            /\ copies' = [copies EXCEPT ![r] = @ \union {[id |-> made[r] + 1, source |-> m.of]}]
       ELSE UNCHANGED copyVars
  /\ UNCHANGED <<s3Vars, tags>>

LandRestore(m) ==
  LET r == m.record IN
  /\ m.kind = "restore"
  /\ IF FreeKey(bucket[r])
       THEN /\ minted' = [minted EXCEPT ![r] = @ + 1]
            /\ bucket' = [bucket EXCEPT ![r] = @ \union {minted[r] + 1}]
            /\ tags' = [tags EXCEPT ![r] = @ \union {<<minted[r] + 1, m.of>>}]
       ELSE UNCHANGED <<s3Vars, tags>>
  /\ UNCHANGED copyVars

LandPut(m) ==
  /\ puts' = puts \ {m}
  /\ Answered(m)
  /\ LandCopy(m) \/ LandRestore(m)
  /\ UNCHANGED <<rowVars, callVars, cleanVars, age, crashes, ledgerVars, session, queue,
                 current, source, copy, target, retireVars, losses>>

LosePut(m) ==
  /\ puts' = puts \ {m}
  /\ UNCHANGED <<vars, ledgerVars, copyVars, tags, passVars, copy, recoverVars, retireVars,
                 losses>>

\* The primary bucket loses what a record had under its key.
LoseVersions(r) ==
  /\ losses < Losses
  /\ losses' = losses + 1
  /\ \E V \in SUBSET bucket[r] :
       V # {} /\ bucket' = [bucket EXCEPT ![r] = @ \ V]
  /\ UNCHANGED <<rowVars, minted, callVars, cleanVars, age, crashes, ledgerVars, copyVars,
                 tags, puts, passVars, copy, recoverVars, retireVars>>

\* No request to S3 lasts as long as the grace of the backups.
TimePasses(r) ==
  /\ age[r] = Expired => \A m \in puts : m.record # r
  /\ Tick(r)
  /\ UNCHANGED backupVars

-----------------------------------------------------------------------------
(* Retention of the copies: pending intents too, as their write may have   *)
(* arrived.                                                                *)

Due(r) == ledger[r] # "none" /\ PurgeDue(r)

StartRetirement(t) ==
  /\ retire[t] = None
  /\ \E r \in Records :
       /\ Due(r)
       /\ \A u \in Retirers : retire[u] # r
       /\ \A m \in copies[r] : m.source = expected[r]
       /\ retire' = [retire EXCEPT ![t] = r]
       /\ doomed' = [doomed EXCEPT ![t] = copies[r]]
  /\ UNCHANGED <<vars, ledgerVars, copyVars, tags, puts, passVars, copy, recoverVars, losses>>

DeleteCopy(t) ==
  /\ \E m \in doomed[t] :
       /\ doomed' = [doomed EXCEPT ![t] = @ \ {m}]
       /\ copies' = [copies EXCEPT ![retire[t]] = @ \ {m}]
  /\ UNCHANGED <<vars, ledgerVars, made, tags, puts, passVars, copy, recoverVars, retire, losses>>

\* Mutant: the ledger row goes without waiting for the copies.
CopiesForgotten(t) == retire[t] # None

CopiesGone(t) == retire[t] # None /\ doomed[t] = {} /\ copies[retire[t]] = {}

CommitRetirement(t) ==
  LET r == retire[t] IN
  /\ CopiesGone(t)
  /\ ledger'   = [ledger EXCEPT ![r] = "none"]
  /\ expected' = [expected EXCEPT ![r] = 0]
  /\ manifest' = [manifest EXCEPT ![r] = None]
  /\ restored' = [restored EXCEPT ![r] = 0]
  /\ retire'   = [retire EXCEPT ![t] = None]
  /\ doomed'   = [doomed EXCEPT ![t] = {}]
  /\ UNCHANGED <<vars, copyVars, tags, puts, passVars, copy, recoverVars, losses>>

AbortRetirement(t) ==
  /\ crashes < Crashes
  /\ retire[t] # None
  /\ crashes' = crashes + 1
  /\ retire' = [retire EXCEPT ![t] = None]
  /\ doomed' = [doomed EXCEPT ![t] = {}]
  /\ UNCHANGED <<rowVars, s3Vars, callVars, cleanVars, age, ledgerVars, copyVars, tags, puts,
                 passVars, copy, recoverVars, losses>>

RetireStep(t) == StartRetirement(t) \/ DeleteCopy(t) \/ CommitRetirement(t)

-----------------------------------------------------------------------------
BackupNext ==
  \/ Operation /\ UNCHANGED backupVars
  \/ \E p \in Passes : PassStep(p) \/ LoseSession(p)
  \/ \E q \in Recoveries : RecoveryStep(q)
  \/ \E m \in puts : LandPut(m) \/ LosePut(m)
  \/ \E r \in Records : LoseVersions(r) \/ TimePasses(r)
  \/ \E t \in Retirers : RetireStep(t) \/ AbortRetirement(t)

BackupSpec == BackupInit /\ [][BackupNext]_<<vars, backupVars>>

-----------------------------------------------------------------------------
(* Properties.                                                             *)

Copy == [id : Nat, source : Nat]

BackupTypeOK ==
  /\ TypeOK
  /\ ledger \in [Records -> {"none", "pending", "verified"}]
  /\ expected \in [Records -> Nat]
  /\ manifest \in [Records -> Copy \union {None}]
  /\ restored \in [Records -> Nat]
  /\ copies \in [Records -> SUBSET Copy]
  /\ made \in [Records -> Nat]
  /\ tags \in [Records -> SUBSET (Nat \X Copy)]
  /\ puts \subseteq
       ([by : Passes, record : Records, kind : {"copy"}, of : Nat]
          \union [by : Recoveries, record : Records, kind : {"restore"}, of : Copy])
  /\ session \in Passes \union {None}
  /\ pass \in [Passes -> {"idle", "next", "check", "put", "wait", "recheck", "readback", "verify"}]
  /\ queue \in [Passes -> SUBSET Records]
  /\ current \in [Passes -> Records \union {None}]
  /\ source \in [Passes -> Nat]
  /\ copy \in [Passes \union Recoveries -> Copy \union {None}]
  /\ recovery \in [Recoveries -> {"idle", "check", "put", "wait", "recheck", "commit", "done"}]
  /\ target \in [Recoveries -> Nat]
  /\ retire \in [Retirers -> Records \union {None}]
  /\ doomed \in [Retirers -> SUBSET Copy]
  /\ losses \in Nat

(* Until it may be purged, a verified backup is in the backup bucket, the  *)
(* only copy under its key, and one of the version the ledger expects; the *)
(* row is bound to that version or to a restore of that very copy: passes  *)
(* that overlap, stop or hear nothing of their writes never verify what is *)
(* not there, nor write a second copy, and no recovery binds other bytes.  *)
VerifiedHasCopy ==
  \A r \in Records : ledger[r] = "verified" /\ ~PurgeDue(r) =>
    /\ copies[r] = {manifest[r]} /\ manifest[r].source = expected[r]
    /\ \/ version[r] = expected[r]
       \/ version[r] = restored[r] /\ <<version[r], manifest[r]>> \in tags[r]

(* The ledger knows of every copy in the backup bucket, of one whose write *)
(* arrived late too, so that its retention finds them all.                 *)
CopiesRecorded ==
  \A r \in Records : copies[r] # {} => ledger[r] # "none"

(* A recovery that reported success stays true while the record lives:     *)
(* recoveries that race, or repeat after further losses, never bind the    *)
(* row to a different version than the one reported before.                *)
RecoveryStands ==
  \A q \in Recoveries : LET r == RecoveryOf[q] IN
    recovery[q] = "done" /\ row[r] = "live" => version[r] = target[q]

(* What is under the key of a purged record can only be a restore that was *)
(* on its way when the cleanup verified the absence: uploads never arrive  *)
(* that late.                                                              *)
OnlyRestoresLinger ==
  \A r \in Records : row[r] \in {"purged", "pruned"} =>
    \A v \in bucket[r] : \E tag \in tags[r] : tag[1] = v
=============================================================================
