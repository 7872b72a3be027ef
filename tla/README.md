# Nayori Platform: TLA+ models, checks and proofs

The repository is a payment facilitator for the Stacks chain: merchants issue
signed quotes, buyers pay with a signed Stacks transaction, the facilitator
reserves, broadcasts and reconciles the payment, signs a receipt and keeps a
delivery ledger. Around it are two paid resources of its own (x402 and MPP), a
partner OAuth server, and a store of private evidence with backup. This
directory models it in TLA+, checks the models with TLC and proves what matters
most with TLAPS. Paths are relative to the repository unless they begin with
`tla/`; `PROJECT.json` has the exact lines behind every definition.

## Inventory

| Component (source in `src/`) | State | Operations | Hard behaviour | Correct when | Here |
|---|---|---|---|---|---|
| settlement service (`settlement.ts`) | one handler per request; all else in the tables | settle, settleMpp, get, verify | retries and other payments race on quotes and transactions; a crash or a timeout between reserving, broadcasting and recording | no payment is used twice; a transaction is broadcast at most once and never unreserved; answers stay true | `Settlement` |
| settlement tables (`database.ts`, `migrations/`) | quotes, settlements, receipts, deliveries, transitions | reserveSettlement, updateSettlementStatus, claimSettlementsForReconciliation, applyReconciliationResult, claimDelivery, completeDelivery | row locks against unlocked reads; unique indexes; conditional updates | the four tables agree at every commit; statuses only move forward | `Settlement`, `PaidResource` |
| broadcaster (`broadcast.ts`) | none | broadcast | ambiguous answers | - | `Settlement` |
| reconciliation (`reconciliation.ts`, `reconcile-worker.ts`) | a worker's batch; leases in the table | runOnce: claim, observe, apply | leases lapse under a slow worker; two requests to a moving chain; crash between claim and apply | a receipt only at canonical depth; every mined payment is resolved | `Settlement`, `SettlementLedger` |
| delivery ledger (`settlement.ts`, `database.ts`) | deliveries | claimDelivery, completeDelivery | concurrent, repeated, late calls | one start, one digest | `PaidResource` |
| paid resources (`paid-resource.ts`, `mpp-resource.ts`, `facilitator-client.ts`) | none | submit, retrieve | lost and late answers of the facilitator | no body is released that the ledger does not hold | `PaidResource` |
| quotes (`quotes.ts`, `merchant.ts`, `quote-signing.ts`) | quotes | issue | merchant or policy replaced meanwhile; the insert fails after the window was charged; an answer lost after the insert | an answered quote is stored, under a policy its merchant had | `QuoteIssue` |
| rate limiter (`rate-limit.ts`) | windows per key, in memory | consume | window boundary, restart, many requests authenticated at once | never twice the limit within any window's length | `QuoteIssue` |
| partner OAuth (`oauth.ts`, `external-oauth.ts`, `auth.ts`) | invitations, challenges, clients; tokens outside | challenge, register, token, authenticate, disable | concurrent registrations, lost connections, revocation under running requests | an invitation makes one client; a request is judged by what was in force while it ran | `PartnerOAuth` |
| direct S3 evidence (`private-evidence-direct*.ts`, `private-evidence-s3.ts`, `private-evidence-cleanup.ts`) | rows of objects, S3 versions | prepare, complete, download, clean | rows and S3 change apart; several uploads; a cleanup that stops half way | quotas hold; the first version stays and stays readable; slots come back | `EvidenceDirect`, `EvidenceVault` |
| evidence backup (`private-evidence-backup-*.ts`, `private-evidence-recover.ts`) | ledger rows, S3 copies | reconcile, recover, retire copies | overlapping operators, S3 writes that arrive late or never, expiry meanwhile | a verified backup has its copy; no copy is unknown to the ledger; a recovery stands | `EvidenceBackup` |
| encrypted evidence (`private-evidence-store.ts`, `-maintenance.ts`, `-keyring.ts`) | encrypted rows, key file, key rings of processes | put, get, purgeExpired, rotateBatch | rotation beside writers, retries, revocation during waits | limits hold; every row opens with a key that is kept | `EvidenceStore` |
| evidence authorization (`private-evidence-chain.ts`, `evidence-issuer-client.ts`, `private-evidence-security.ts`, `private-evidence-direct-http.ts`) | gate and windows, in memory | authenticate, admit, snapshot, authorize | many requests to a node whose tip moves; disabling meanwhile | a grant is permitted by one tip, the node's tip then | `EvidenceAccess` |
| public payments (`public-payments.ts`) | cache, load in flight | snapshot | readers share one load | at most one load | not modelled |
| migrations (`migrations.ts`) | schema_migrations | runMigrations | two instances start together | each file is applied once | not modelled |
| configuration, provisioning, HTTP surface (`config.ts`, `app.ts`, `documents.ts`, `mcp.ts`, ...) | none that evolves | parsing, routing, operators' scripts | - | - | routes and scripts with the service they call |

How they meet: the HTTP surface calls the services; services and workers share
only PostgreSQL. Workers and services talk to the Stacks API, the paid resources
to the facilitator by HTTP, evidence to S3, to the Stacks API and, for its
clients, to the issuer. No component calls back into another; everything
concurrent is concurrent through tables, S3 or the chain. Rows one component
writes and another reads appear in both their modules: `PaidResource` has the
confirmation of `Settlement` as an atomic step, `EvidenceStore` the decision of
`EvidenceAccess` as an authorization that may be gone at any time, and
`EvidenceBackup` extends `EvidenceDirect`, whose rows and bucket it changes.

## Modules

| Module | Content |
|---|---|
| `Settlement` | settle requests, the tables, reconciliation workers, the chain; `LedgerSpec`, the refinement of `SettlementLedger` |
| `SettlementLedger` | the abstract promise: one entry per quote, reserved once, resolved at most once, confirmed and receipted in one step and only when paid |
| `MCSettlement` + `MCSettlement*.cfg` | its instances for TLC |
| `PaidResource` | the paid resource servers, the delivery ledger, the network between |
| `QuoteIssue` | issue of quotes by HTTP and MCP, the rate limiter, operators, restarts |
| `PartnerOAuth` | invitations, challenges, registration, tokens, authentication of requests |
| `EvidenceDirect` | prepare, upload, complete, download and cleanup; `VaultSpec`, the refinement of `EvidenceVault` |
| `EvidenceVault` | the abstract promise of a record: reserved, bound once, kept, given up once |
| `EvidenceBackup` | extends `EvidenceDirect`: backup passes, recoveries, retention of copies, S3 writes in flight |
| `EvidenceStore` | encrypted rows: put, get, purge, rotation, keys, restarts |
| `EvidenceAccess` | gate, authentication, admission and the chain snapshot |
| `MC<module>` + `.cfg` | an instance of each for TLC |
| `SettlementProofs`, `PaidResourceProofs`, `QuoteIssueProofs`, `PartnerOAuthProofs`, `EvidenceStoreProofs`, `EvidenceAccessProofs` | theorems about the module each is named after |
| `EvidenceProofs` | theorems about `EvidenceDirect`, then about `EvidenceBackup` |
| `Sums` | lemmas about sums over finite sets, for the quotas and limits of evidence |

### Settlement

A request is one settle call. The service mints the identifier of the settlement
before it reserves, so the request also names the row it would create. `payment`
is what the call carries; `Submissions` bounds the combinations.

| Action | Code |
|---|---|
| `ValidateQuote` | `validateQuote`, `validate`, `validateMpp` (`settlement.ts`) |
| `LockQuote` | `reserveSettlement`: `SELECT ... FOR UPDATE` of the quote, replay of its settlement, status check |
| `CheckDuplicate` | the unlocked `SELECT` for another quote's settlement of the transaction |
| `InsertSettlement` | the `INSERT` against the unique indexes: it waits for a conflicting open transaction and fails on a committed row |
| `CommitReservation` | quote to reserved and `COMMIT` |
| `Broadcast` | `broadcaster.broadcast` and the normalization of its outcome |
| `UpdateSettlementStatus` | the conditional update, with the lease check of migration 004 |
| `ClaimSettlements` | `claimSettlementsForReconciliation` |
| `ObserveTransaction`, `ObserveTip` | the two requests of `observe`, separately, as the chain moves in between |
| `ApplyReconciliationResult` | one transaction under the row's lock: row, quote, receipt, delivery |
| `CandidateError` | an error `runOnce` swallows |
| `CrashRequest`, `CrashWorker` | the process stops; an open transaction rolls back |

Environment: `LapseLease` and `BecomeDue` are the clock, `PayerSubmit` is the
payer who submits the signed transaction itself, `NewBlock`, `Reorganize` and
`DropTransaction` are the chain.

What is abstracted:

- Clocks are the comparisons the code makes: a lease has lapsed or not, a row is
  due or not, a quote has expired or not, each turning at any time.
- Transactions that run under one row lock and read nothing outside it are one
  step. `reserveSettlement` is not, as its duplicate check and insert meet other
  quotes' transactions.
- `ORDER BY` and `SKIP LOCKED` of the claim are "any batch of full size among
  the claimable rows".
- A payment is a quote and a transaction. That its content matches the quote is
  decided by the SDK before anything is stored.
- Depth saturates at `MinConfirmations`, as nothing distinguishes more.
- The node accepts only a transaction it could still include. Rejections are
  unconstrained: the node may reject what it already has.

### PaidResource

A call is one handler invocation. `wire` holds its request to the facilitator,
`pc` is where the handler stands, so that a request can outlive its handler
(`AbortSignal.timeout`) and be handled late, or be lost, or its answer be lost.
`NormalizeSettlement` covers both entries (settle call and status call) of both
resources, `ClaimDelivery` and `CompleteDelivery` the facilitator's handlers,
each one transaction under the row lock. `Direct` calls are merchants' own
servers which may complete without claiming. Expiry is a free choice of the
first claim, as `retry_expires_at` is looked at nowhere else. Before the ledger
is touched the facilitator authenticates the caller: `RefuseCall` is its refusal
by key, rate limit or a failed query, and an answer may turn into an error after
the transaction as well. Such refusals meet a server that has claimed its
delivery too; `RefusedOnlyOnConflict` is about the answers the ledger itself
gives, `expired` and `conflict`.
`ConfirmSettlement` and `FailSettlement` stand for `Settlement`'s worker:
`ConfirmationIsAtomic` there is why a delivery row comes with the confirmation
here.

### QuoteIssue

A request runs from its arrival to the answer. `policy` is the merchants table
(None: disabled), `merchant` the row as a request has read it, `started` and
`count` the limiter's map, `quotes` the rows. `seen` and `admitted` are history.

| Action | Code |
|---|---|
| `AuthenticateCall`, `Authenticate` | the merchant is looked up for the tool call (`mcp.ts`, `app.ts`), and again for the quote (`quotes.ts`) |
| `Limit`, `Resolve` | `consume`, then the policy; between the two nothing is awaited |
| `Insert` | signing and `insertIssuedQuote`, with its failures: no row, or a row and no answer |
| `Provision`, `Disable` | `provisionMerchant`, and an operator's update of the status |
| `Restart` | windows are gone and requests end; rows stay |

A policy is which requests it serves and the life of its quotes. The time is the
limiter's, in steps, and only advances. What the code does and the model keeps:
a quote may be issued under a policy that was replaced after it was read
(`route_config_hash` is stored with it and compared with nothing later); the
window is charged for a request the policy then refuses; windows belong to one
process. The configuration speaks of a rate per minute
(`quoteRateLimitPerMinute`); a minute that meets two windows can admit almost
twice as many, and `LimiterBound` says that no minute admits more than that.

### PartnerOAuth

Challenges, clients and tokens are named by the calls that mint them. `mode` is
the configuration: the embedded issuer or an external one.

| Action | Code |
|---|---|
| `FindInvitation`, `FindInviter`, `InsertChallenge` | `issueChallenge`: two reads, one insert |
| `FindChallenge` | `register` up to the transaction: the challenge with its invitation and merchant, expiry, signature |
| `SnapshotRows`, `LockChallenge`, `LockInvitation`, `CommitClient` | the transaction: `SELECT ... FOR UPDATE OF c, i` locks the one row, then the other, and tests again what changed while it waited; two updates and an insert |
| `ReturnSecret`, `LoseRegistration` | the answer; a stop or a broken connection at any step, after the commit too |
| `FindClient`, `ReturnToken` | `issueToken`: client and secret, scopes, then `recordOAuthTokenIssued` |
| `IssueExternally` | tokens of the external issuer, which decides for itself |
| `VerifyToken`, `ReadClient`, `ReadMerchant` | `authenticate` with a token; in external mode no client is read |
| `FailVerification` | the external verifier refuses a token, valid or not: a timeout or an outage of its key set is answered like a forgery |
| `FailRead` | a query of `authenticate` fails |
| `FindApiKey` | `authenticate` with a merchant's key |
| `ProvisionMerchant`, `Invite`, `DisableClient`, `Lapse` | operators' scripts and updates, and expiry |

A message and a signature are who signed what. `seen` and `missed` record, for a
running request, what was in force at some time and what was not: client and
merchant are read one after the other, so a request may pass although there was
no one moment at which both were in force. That is as much as the code does, and
`JudgedByGrounds` states it; a refusal it traces to grounds that were missing,
or to the external verifier, whose failures say nothing of the token. The model
keeps as well that registration locks no
merchant, that nobody looks at whether `recordOAuthTokenIssued` found the client
active, and that an answer lost after the commit leaves a used invitation and a
client whose secret nobody has.

### EvidenceDirect and EvidenceVault

`row`, `version` and `age` are a row of `private_evidence_objects`, `bucket` the
versions under its key. `age` has the phases the code compares with: the upload
is open; over; over for a minute (`Stale`); the record has expired; the grace of
the backups is over.

| Action | Code |
|---|---|
| `MintRecord`, `CountReservations`, `InsertReservation`, `ReturnForm` | `prepare`: identifier and times, `reserve` under the advisory lock, signing and the last authorization |
| `FindForComplete`, `VerifyUpload`, `RecheckUpload`, `Finalize`, `ConfirmComplete` | `complete`: row, `HEAD`, authorization and time, the conditional update, authorization and time |
| `FindForDownload`, `ReturnUrl` | `download` |
| `SelectRows` | the batch: the first rows by `expires_at` and `id`, `FOR UPDATE SKIP LOCKED` |
| `ListVersions`, `DeleteVersion`, `MarkPurged` | `removeExactKey`: list, delete each, list again |
| `CommitCleanup` | tombstones, pruning and `COMMIT` |
| `RefuseBatch`, `AbortCleanup` | an exception of `removeExactKey`, or a failure: rows roll back and S3 does not. A key with more versions than the cleanup deletes (`Flooded`), and one that the second listing does not find empty, refuse the batch in every run |
| `Upload`, `Tick`, `CrashCall` | the client, possibly several times; the clock; a stop |

Content, digests and the form's policy are S3's to check: an upload that is
there is one that was signed. A URL is the version it names, for as long as the
record lives. An upload accepted before the form's expiry is in the bucket
within the minute that the cleanup waits; a reservation does not outlast the
time of its upload. `VaultSpec` maps a record to free, reserved, held or gone,
and its version.

The cleanup is for testnet records of the contracts it is configured for
(`Covered`), and takes them in the order of their expiry (`Rank`). A flooded key
is left to an operator (`docs/S3_PRIVATE_EVIDENCE.md:135`), and until then the
same batch is taken and refused again: its rows, and those behind it, keep their
slots. `SlotsReturn` therefore promises a slot unless its row is held up in this
way for good (`HeldUp`). Records pass their deadlines independently of `Rank`,
which allows more orders than the clock does.

### EvidenceBackup

Extends `EvidenceDirect` and runs beside all its actions. `ledger`, `expected`,
`manifest` and `restored` are a row of `private_evidence_backups`, `copies` the
backup bucket.

| Action | Code |
|---|---|
| `StartPass`, `ReserveIntent`, `CheckCopy`, `SendCopy`, `RecheckCopy`, `ReadBack`, `VerifyIntent`, `EndPass` | a reconciliation pass under the session's advisory lock: candidates, `reserve`, `copy`, the exact read-back, `verify` |
| `LoseSession`, `GiveUpCopy` | the session ends, which the pass need not notice; a request's timeout |
| `LoadRecovery`, `CheckRestored`, `SendRestore`, `RecheckRestored`, `CommitRestore`, `AbandonRecovery` | recovery of one record |
| `LandPut`, `LosePut` | a conditional write takes effect, now or after its sender has gone, or never |
| `StartRetirement`, `DeleteCopy`, `CommitRetirement`, `AbortRetirement` | retention of copies |
| `LoseVersions` | the primary bucket loses versions |

A copy is its source version and its own; encryption and bytes are data. No
write is under way for as long as the seven days between expiry and retirement
of the copies (`TimePasses`). A late restore can put a version under the key of
a purged record; `OnlyRestoresLinger` says that nothing else can.

### EvidenceStore

`row` is the table, with the key an envelope is sealed with. A record is the
context of a put: a retry names the same record. `file` is the key file, `ring`
what a process loaded at its start.

| Action | Code |
|---|---|
| `AuthorizePut`, `Seal`, `LockAndRead`, `AnswerRetry`, `AuthorizeInsert`, `CommitInsert`, `AnswerInsert` | `put`: authorization, sealing, the advisory lock with row and usage, a retry's answer or the insert |
| `AuthorizeGet`, `ReadRow`, `Open`, `Expose` | `get`, and the handler's authorization before the bytes leave |
| `PurgeExpired`, `RotateBatch` | maintenance, each a transaction under the same lock |
| `InstallKey`, `Restart`, `RetireKey` | the operator: a key is retired when neither a row nor the active key of a process uses it |
| `Expire`, `Revoke`, `FailCall` | time, the authorization's grounds, timeouts and lost answers |

`late` is history: calls whose authorization was gone as they read the row, and
calls whose row has passed its expiry while they waited for the authorization or
the key. `AuthorizedAndKept` says that neither is told or shown anything.

### EvidenceAccess

| Action | Code |
|---|---|
| `Enter` | the gate of the handler; every end of a handler is its `finally` |
| `FirstMerchantCheck`, `AskIssuer`, `SecondMerchantCheck` | token, merchant, client at the issuer, merchant |
| `Admit`, `EndWindow` | the window of wallet and operation |
| `Authorize` | `authorizeEvidence`: the authentication again, then the chain |
| `ReadInfo`, `ReadBlock`, `ReadJob`, `ReadEscrow`, `Decide`, `SnapshotMoved` | the snapshot: tip, canonical block, two calls at that tip, tip again; started again once |
| `MoveTip`, `Deactivate`, `TimeOut` | chain, operators and time |

A chain is, for each tip, its blocks, its job and its escrow. `late` marks a
request whose merchant or client was gone as its authorization began. A request
asks for one authorization here; the operation's further ones are the same steps
again.

## Runs

| Run | Question | Bounds | States |
|---|---|---|---|
| `settlement_contention` | Is a payment ever used twice, broadcast twice, half confirmed, or answered falsely; is the ledger implemented? | 2 requests: a retry, one quote with two transactions, one transaction with two quotes; 1 worker; batch 2; depth 2; no reorganization; 1 crash | 785 000 |
| `settlement_workers` | Can old observations, lapsed leases or late broadcast outcomes move a row backwards or break its checks? | a request and its retry, 2 workers (symmetric), depth 2, reorganizations of 1 block, 2 crashes | 429 000 |
| `settlement_live` | Does every call end, is every mined payment resolved? | 2 requests (retry, two quotes), 1 worker, depth 1, 1 crash, fairness | 55 000 |
| `settlement_rejection` | Is a definitive rejection persisted as failed? *Violated.* | 1 request, 1 worker | 100, stops at the violation |
| `settlement_reorg` | Does a receipt imply canonical depth under shallow reorganizations? *Violated.* | 1 request, 1 worker, depth 2, reorganizations of 1 block | 830, stops at the violation |
| `paid_resource` | Is a body ever released that is not recorded, a delivery started twice, does the ledger refuse a retry without a conflict? | 1 settlement, 5 calls: 2 retries, one through the other resource with another body, one direct, one of another merchant | 116 000 |
| `quote_issue` | Is an answered quote stored, under a policy its merchant had; how much can the limiter admit? | 5 requests (4 of one merchant, symmetric; 1 by MCP), 3 policies, limit 2 in a window of 2, time 0 to 2, 1 change of a merchant, 1 restart | 2 450 000 |
| `partner_oauth` | Does an invitation make one client, do registrations that wait for each other end, is a request judged by what was in force? | 1 merchant, 1 invitation, 2 challenges of 2 wallets, 2 registrations, 1 token, 1 request, 2 keys, 2 changes of the merchant, fairness | 1 560 000 |
| `evidence_direct` | Do quotas hold, does the first version stay and stay readable, do slots come back unless a flooded key holds them up; is the vault implemented? | 2 records that exceed the job's bytes together, 2 uploads of one, 1 version to a cleanup, 2 completes, 1 download, 1 cleanup of 1 row, 1 crash, fairness | 499 000 |
| `evidence_backup` | Is a verified backup there, every copy known, a reported recovery lasting? | 1 record, 2 passes and 2 recoveries (symmetric), 1 cleanup, 1 retirer, 1 crash, 2 losses | 2 970 000 |
| `evidence_store` | Do limits hold as envelopes grow, does every row open, is nothing stored or shown without authorization? | 2 records, 3 puts (one a retry), 1 get, 2 processes, 2 keys, the larger envelope fits only once | 813 000 |
| `evidence_access` | Is a grant right for the tip of its moment, does the gate give its places back? | 3 requests, gate 2, 3 blocks with a fork, 2 moves of the tip, 1 window | 3 900 000 |

Why the bounds are enough to be interesting. All conflicts of reservations are
between two requests: over a quote, over a transaction, or both, and each of the
three combinations is an initial state. Workers conflict in pairs over a row.
Depth 2 is the least at which a block can be mined and not deep enough, and the
least for which a reorganization is shallower than the depth. A crash can fall
on every step. Two crashes let the request and a worker, or a worker twice, be
hit. Settlements of different quotes share nothing in `PaidResource`, hence one
is enough there. Three requests at a limit of two, over a boundary that falls
between them, are the least that can exceed a limiter's window, four the least
that could reach twice its maximum. Two registrations are the least that
deadlock or double. A quota of objects that both records keep and of bytes that
they do not makes the second reservation depend on the first's cleanup. With
two uploads, and a limit of one version in place of the code's hundred, a key is
one the cleanup empties or one it refuses; as the two records are never live
together, the row such a key holds up is its own. One
record is enough for the backup: its steps lock, list and write by the key of
one record, and passes take their candidates one after the other. Two losses let
a restored version be lost again. The tip can go to another branch and come back
in two moves. In `evidence_backup` the last check of a complete call is taken at
once (`MCAnswersAtOnce`): it touches nothing that the backup does.

No instance checks deadlock: requests are finite in number and end. The waiting
that could be a deadlock, on row locks and indexes, is what `EveryCallEnds` and
`RegistrationsEnd` are about.

### Fairness

`settlement_live` assumes, and the code justifies:

- weak fairness of every handler that has begun (Node runs its promises;
  requests to the node have timeouts) and of every worker (`reconcile-worker.ts`
  loops, catches errors and waits by a timer);
- weak fairness of the clock (`LapseLease`, `BecomeDue`) and of empty blocks;
- strong fairness, per settlement, of a useful answer from the chain API and of
  an application without error. A row that is not resolved is claimed over and
  over: a pending result moves `reconcile_after` on, and the claim is ordered by
  it, so every row gets its turn, and an API or a database that works now and
  then eventually works for it.

Not assumed: payers submit nothing, the mempool keeps nothing, blocks include
nothing, a request need not begin, and crashes are not followed by a retry.
`MinedSettlementResolves` therefore starts from a mined transaction. A
reservation whose transaction never reaches a block stays pending for ever and
keeps its quote: nothing in the code ends it.

`evidence_direct` assumes that time passes and that the cleanup is run again and
again: it is a command that an operator schedules (`README.md:19`), and a run of
it ends, by a commit, a refused batch or one of the bounded failures. Nothing is assumed of
calls, clients and uploads: a slot whose form was never returned, used or
completed comes back as well. `partner_oauth` assumes weak fairness of the steps
of a registration that has begun; it may also be lost at any step, and a lost
connection releases its locks.

## Proofs

All theorems hold for every value of the constants, in number and in kind, under
the named assumptions of the modules: types of the constants, a reorganization
shallower than the depth, `None` none of the values it is told from, and, where
quotas count them, finitely many records and keys. TLC evaluates the assumptions
on every run of these modules.

- `Sums`: what the quotas of evidence rest on. `SumMonotone` says that a sum of
  natural numbers over fewer elements is no larger. The provers have no
  induction over sets here; instead the sum is shown to be the cardinality of
  its `Units`, which obeys the same recursion (`UnitsCount`), and a subset on
  which the two would differ has a least one (`LeastSubset`, by the
  well-foundedness of strict inclusion).
- `SettlementProofs`. `TypeCorrect` is by an invariant that adds `Observing`: a
  worker has seen something exactly while it has a candidate. The safety
  theorems share one inductive invariant, `IInv`. `NoPaymentReuse` is not
  inductive; what carries it is `CommitsExclusive`: a request about to commit
  conflicts with no committed row and with no other such request, which its
  insert established by waiting, and which the row lock keeps true.
  `Reservations` says what is known of a row by where its request stands;
  `BroadcastOnce`, `ConfirmationIsAtomic`, `AnswersStayTrue` and `TableChecks`
  follow with it. `StatusLifecycle`, an action property, follows from `IInv`.
- `WaitingEnds` is the part of `EveryCallEnds` that is a safety property, for any
  number of requests: nobody waits for long enough a chain to close a circle.
  `Locking` says that a row lock is held by an open transaction of its quote,
  which is still issued. A waiting insert therefore waits for another quote's
  commit, which waits for nothing, and a worker, whose settlement exists, finds
  the quote unlocked. A chain of two waits does occur, with three requests: one
  for a quote, one for that quote and a transaction, one for that transaction.
- `ReceiptsAtDepth` assumes `ReorgDepth = 0` and adds `ObservationsHold`: what a
  worker has seen is still true. That is false with reorganizations, as the run
  `settlement_reorg` shows.
- `ImplementsLedger`, `Spec => LedgerSpec`, is in the same module and under the
  same assumption. `EntriesUpdate` shows how the entry of one quote changes, by
  `NoPaymentReuse` independently of the `CHOOSE` in the mapping; reserving,
  applying and new blocks map to ledger steps, all else to stutters.
- `PaidResourceProofs`: types, `ReleasesRecorded`, `DeliveriesStartOnce`,
  `LifecycleHolds`, `RefusalsAreConflicts` (of a server of this repository the
  ledger refuses a completion only over another recorded digest, and writes
  nothing then). The invariant adds `DeliveryRows` (a
  row exists exactly for confirmed settlements, a digest exactly for delivered
  ones) and `ClaimedFirst` (a server of this repository that completes has a
  started delivery).
- `QuoteIssueProofs`: types, `QuotesBacked`, `LimiterBound`. `RowsRead` says
  that what a request has read is among the rows its merchant has had since;
  `Admissions` that only an admitted request which its policy permits inserts.
  For the limiter, `Windowed` relates window and count to the times of
  admission: `Current` are the requests the window has admitted, `Trailing`
  those of less than a window's length before it, fewer than the maximum, as
  they do not include the one that opened the window before. A span as long as a
  window lies in both together (`SpanCovered`).
- `PartnerOAuthProofs`: types, `OneClientPerInvitation`, `AccessAsGranted`,
  `JudgedByGrounds`. `OneEach` says that at most one registration is between
  locking an invitation and its commit, and that the invitation is open there;
  `Registered`, `UsedByClient`, `TokensClaim` and `RequestsCarry` hand scopes
  and merchant from invitation to client, token and request. For
  `JudgedByGrounds`, `SeenSoFar` says what a request must have seen in force by
  where it stands; the refusals of an external verifier are its exception.
- `EvidenceProofs`, of `EvidenceDirect`: types, `QuotaHolds`, `FinalizedReadable`, and
  `ImplementsVault`, `Spec => VaultSpec`. The quota is not inductive: between
  count and insert (`Prepared`) the rows that count can only become fewer, as
  the lock is held. That a bound version is not deleted rests on `Cleaning`
  (rows a cleanup holds are eligible, no two hold the same) and `CallsKnow` (a
  call about to bind holds a version of the bucket while the upload is open,
  when no cleanup takes its row). `Uploads`: before a record is stale, all its
  versions are there.
- `EvidenceProofs`, of `EvidenceBackup`: all properties of `evidence_backup`, `QuotaHolds` with
  the backup beside it, and a refinement. `BInv` is inductive. Of
  the invariant of `EvidenceDirect` it keeps the part a loss of versions leaves standing
  (`RowsKept`), and adds what a cleanup has emptied (`Cleaned`): a key it has
  verified absent is filled again by restores only, as their versions carry the
  tag of the copy they were made from and uploads are over. `InFlight` and
  `PassesKnow` carry `CopiesRecorded` across writes that land after their
  sender has gone: the intent precedes the write, and no write outlives the
  grace. `OneCopy` is the conditional write. `VerifiedBacked` and
  `RecoveriesKnow` are the core: a pass verifies a copy of the version its
  ledger row expects, and the row is bound to that version or to a restore that
  a recovery read back and committed while the row was still bound to what it
  had loaded. With these a racing recovery can only commit the version already
  recorded, hence `RecoveryStands`.
- `ImplementsVaultWithBackup`, `BackupSpec => OriginSpec`: what the vault
  promises of versions holds, with losses and recoveries, of contents.
  `OriginVault` maps a row to the upload its bytes come from, through the tag of
  a restored version to the source of its copy. `Origins` says that a
  restored version came from one copy, and that a key's versions come in order:
  uploads, the binding of one of them, then restores. With `VerifiedBacked` the
  copy a recovery restores is of the version the row was first bound to, so that
  rebinding is a stutter of the vault. TLC found no violation of `OriginSpec` and `Origins` in the states
  of `evidence_backup`; they are not part of the run.
- `EvidenceStoreProofs`: types, `WithinLimits`, `RowsOpenable`,
  `AuthorizedAndKept`, by `HoldsLock` and `RoomKept` (what was counted under the
  lock still fits), `KeysKept` (active keys and the keys of rows are in the
  file, and a put has sealed with its process's active key) and `LateDenied`
  (a late call has a check before it that it will fail). That a waiting call cannot take a row put
  anew for the one that expired rests on `Numbered`, the births of rows, and
  `Outdated`, what a late call still holds.
- `EvidenceAccessProofs`: types with the gate, by `GateCounts` (the counter is
  the number of handlers inside, a conjunct of `TypeOK`), and `GrantedAtTip`, by `SnapshotAtTip` (job
  and escrow were read at the pinned block) and `LateAtFirstCheck`.

Only model-checked: the liveness properties `EveryCallEnds`,
`MinedSettlementResolves`, `SlotsReturn` and `RegistrationsEnd` (liveness under
fairness is out of reach of the prover), and the two violations. Every other
property of a run is the statement of a theorem.

## Findings

1. **A rejection may not be persisted** (`settlement_rejection`). A reservation
   is due for reconciliation at its insert. If a worker claims it while the
   broadcast is in flight, `updateSettlementStatus` keeps the lease on a row it
   sets to failed, and the check `settlements_reconciliation_lease` refuses the
   update: the caller gets an internal error, and the row stays validated until
   the worker makes it pending.
   `docs/plans/2026-08-27-testnet-settlement-design.md:84` promises a persisted
   failed settlement.
2. **A receipt may be signed for an orphaned transaction** (`settlement_reorg`).
   `observe` reads the transaction, then the tip, and computes the depth from
   both. A reorganization between the two, though shallower than the depth,
   leaves a transaction outside the chain with enough confirmations.
   `README.md:202` says the setting controls canonical depth before a receipt
   can exist.

## Not modelled

- The public payments feed: one process, one promise that all readers share and
  a cache of one entry; nothing else reads what it keeps.
- Migrations: they end before the service listens, under one advisory lock, each
  file in a transaction with its row of the list.
- Cryptography and the SDK: signatures, tokens, envelopes, the decoding of
  transactions and the match of their content with a quote are decided before
  anything is stored, and enter as "valid or not".
- Configuration, request parsing, documents, listings, wording of answers and
  errors, logging, the backup's diagnostics: they read or format, and change
  nothing.
- Challenges of the two paid resources: data that a payment is compared with;
  the protocol begins at the settlement.
- A system clock that steps back: time only advances in every module.
- Of settlements: the read-only verify and get routes. Their answers are the
  rows, about which the invariants speak.

What the code leaves open, so that no property claims otherwise: a reservation
whose transaction never reaches a block keeps its quote for ever; a dropped
transaction may still be submitted by its payer; a slot of a prepare that failed
is taken until the upload time is over and a cleanup has run; a key with too many
versions stalls the cleanup of its batch and of what is behind it until an
operator has looked at it; quotes outlive the
policy they were issued under.
