# A TLA+ verification of robust2api

robust2api is a gateway in front of AI providers. Clients call it with an API
key; it picks an upstream account, forwards the request, streams the answer back
and charges the user. This directory holds TLA+ models of the parts of the
backend whose correctness depends on interleaving, failure and time, the TLC
configurations that check them on small instances, and TLAPS proofs of the
safety properties for every value of the constants. `PROJECT.json` maps every
definition to the lines of `src/` it models, and lists the runs, the mutants that
show each property can fail, the hazards and the theorems.

Paths below are relative to `src/backend/internal/`.

## 1. The system

Five programs are built from one code base (`app/`): **gateway** serves client
requests, **control** the administration API, **billing** consumes charges,
**worker** runs background jobs (token refresh, cleanup, snapshots), and
**bootstrap** migrates the schema. Any number of gateways and billing processes
may run. They share PostgreSQL and Redis and nothing else. The code is layered:
handler, service, repository.

A request passes through: authentication (cached API key); the user's wait queue
and concurrency slot; the eligibility check against the billing cache; account
selection from the scheduler snapshot; the account's queue and slot; a valid
OAuth token; the upstream call with retries and failover; the capture of the
response; the publication of a charge event. The event then travels through a
Redis stream to the billing process, which debits the user in PostgreSQL and
updates the billing cache.

### Inventory

**Billing event pipeline** (`repository/billing_event_stream.go`,
`billing_event_consumer.go`, `usage_billing_repo.go`, `usage_log_tombstones.go`,
`service/billing_consumer_service.go`, `billing_event.go`).
State: the stream and the pending list of its consumer group, a dead letter
stream, the tables `usage_billing_dedup` and `usage_billing_dedup_archive`, the
ledger, the usage logs and their tombstones. Operations: Publish with retries;
read, recover, apply, project, acknowledge, dead-letter; Start and Stop; the
retention jobs that archive claims and delete logs. Hard: at-least-once delivery,
publish retries that duplicate, two threads in the same request, a commit whose
answer is lost, a crash between commit and acknowledgement, a claim that moves
between tables under a lookup. Correct when a request is debited exactly once and
no acknowledgement loses an event silently.

**Idempotency coordinator** (`service/idempotency.go`,
`repository/idempotency_repo.go`, `service/idempotency_cleanup_service.go`).
State: a row per scope and key with a status, a lock time, an expiry and a stored
response. Operations: claim, reclaim, execute, mark succeeded or failed, delete
expired rows. Hard: statements of several requests interleave without a
transaction around them; rows expire while operations run; marks are not owned.
Correct when an operation takes effect once and replays are genuine.

**Concurrency slots** (`repository/concurrency_cache.go`,
`service/concurrency_service.go`, `handler/gateway_helper.go`).
State: per user and per account a sorted set of slots and a counter of waiting
requests in Redis, both with TTLs. Operations: count a waiter, acquire, poll,
release, give up, clean up. Hard: calls whose answer is lost, gateways that die,
clients that leave, fail-open increments, a cleanup at the start of the worker.
Correct when the limit holds and what leaks comes back.

**Gateway request lifecycle and failover** (`handler/gateway_handler.go`,
`handler/openai_gateway_handler.go`, `gatewayruntime/failover/state.go`,
`service/billing_lifecycle.go`, `handler/streaming_billing_v2.go`,
`handler/queue_first_billing.go`, `service/gateway_service.go`).
State, per request: accounts that failed, retry and switch counts, the response
held back, whether a reservation was published and finalized. Operations: select,
forward, retry, switch, capture, reserve, finalize, release. Hard: no switch
after bytes have reached the client; every reservation is finalized or released;
the client sees the end of the stream only after its charge was published.

**OAuth token refresh** (`service/oauth_refresh_api.go`,
`token_refresh_service.go`, the `*_token_provider.go` files). State: credentials
with a rotating refresh token in PostgreSQL, an access token cache and a lock in
Redis. Administrators refresh an account by hand or edit it
(`handler/admin/account_handler.go`, `service/admin_service.go`). Hard: a lock that
expires or is deleted by another holder, a refresh token spent but not stored, the
race of background and request-time refresh, writers that take no lock.

**Billing cache** (`service/billing_cache_service.go`,
`repository/billing_cache.go`). State: cached balances, subscription usage and
rate limit usage, a bounded write queue, a circuit breaker. Hard: queued deltas
against absolute writes, a full queue, stale eligibility.

**Scheduler snapshot and outbox** (`service/scheduler_snapshot_service.go`,
`scheduler_outbox.go`, `repository/scheduler_cache.go`,
`scheduler_outbox_repo.go`). State: versioned snapshots of schedulable accounts,
an outbox table, a watermark, bucket locks. Hard: rebuilds that race, events
passed over, ids that commit out of order.

**User message queue** (`service/user_msg_queue_service.go`,
`repository/user_msg_queue_cache.go`). State: one lock per account with an owner
and a TTL, the time of the last completion. Hard: expiry under a holder, fail-open.

**API key authentication cache** (`service/api_key_auth_cache_impl.go`,
`repository/runtime_cache_invalidation_bus.go`): two cache levels and an
invalidation bus whose messages may be lost.

**OpenAI WebSocket pool and account scheduler** (`service/openai_ws_pool.go`,
`openai_account_scheduler.go`): leased connections and a load-aware choice.

**Control-plane authentication** (`service/control_auth_service.go`,
`control_auth_flows.go`): sessions with refresh rotation, one-time flows.

The remaining parts (usage cleanup and dashboard aggregation, the usage record
pool, redeem and promo codes, rate limits, the timing wheel, migrations, pricing,
protocol conversion, generated code, frontend, deployment) are listed in
`PROJECT.json` with the reason why they are not, or only in part, modelled.

## 2. Plan

| Order | Module | What it adds | State |
|---|---|---|---|
| 1 | `BillingPipeline`, `UsageCharging` | the charge, and the contract it implements | done, proved |
| 2 | `Idempotency` | the coordinator | done, proved |
| 3 | `ConcurrencySlots` | slots and wait queue of a user | done, proved |
| 4 | `GatewayRequest` | failover, the streaming billing lifecycle of one request and the user message queue: no answer spliced from two attempts, reservations finalized or released, the end shown only after the charge was published, one sender per account | done, proved |
| 5 | `TokenRefresh` | lock, re-read and rotation of OAuth credentials, the token cache, refreshes by hand and edits in the control plane, the scheduler's copies of an account with outbox and rebuilds: a rotated token is not lost, an account is not given up without a reason, the scheduler's cache catches up | done, proved |
| 6 | `GatewayRequest` composed with `UsageCharging` | what the handler publishes is what the pipeline bills | planned |
| 7 | `BillingCache` | write queue against reload, composed with the projection of `BillingPipeline` | planned |

"Proved" means that every safety property the runs of the module check is a
theorem; liveness stays with TLC (section 5).

## 3. The modules

### BillingPipeline

Entries of the stream are numbered in the order Redis stores them. A thread is a
`readLoop` or a `pendingRecoveryLoop`; its `pc` names the statement it executes
next, so that every Redis call and every SQL statement that reads or writes
shared rows is one step.

| Code | Actions |
|---|---|
| `Publish` | `PublishOk`, `PublishError` (the entry may have been stored), `PublishCancel` |
| `readLoop` | `ReadNew` |
| `scanPendingEntries`, `recoverPending` | `GoIdle`, `ListPending`, `EndScan`, `ClaimPending`, `ClaimFails`, `EmptyBatch` |
| `processMessage` | `Dispatch`, `DeadLetter`, `Ack`, `AckFails`, and the end of an entry, `Finish` |
| `ApplyUsageCharge` | `MatchDedup`, `MatchArchive`, `InsertClaim`, `Recheck`, `CheckTombstone`, `CommitTx` (its answer may be lost), `AbortTx` |
| `handleEvent` | `Project` |
| `Start`, `Stop` | `Start`, `Stop`, `Stopped` |
| retention | `ArchiveClaim`, `DeleteLog` |

PostgreSQL is external: READ COMMITTED statements see committed rows, and an
insert that meets an uncommitted row with the same key waits for its transaction
(`Holds`). The row locks of the debit itself never decide anything else. Retention
is at least a day, so a claim is archived only after every transaction begun
before it was made has ended; the variable `early` carries that assumption.
Amounts are abstract: a charge is a fingerprint, debited or not, and its updates
of balance, subscription, quotas and rate limit are one (`Debited`), because they
share the transaction. Delivery counts are cut off at `MaxRetryCount`: the code
only asks whether they have reached it.

`UsageCharging` is the contract, without streams, threads or tables. Its variables
are read off the detailed state (`Contract` in `BillingPipeline`): the accepted
events are those in the stream, the billed fingerprint of a key is its claim in
either table, and an event is closed when one of its entries is acknowledged.

`BillingRetries` adds a history variable that counts the handler calls for each
entry; `MCRetries` instantiates it with two billing processes, the number that the
chart in `deploy/helm` has by default.

### Idempotency

One key of one scope. A caller is one HTTP request; a client's retry is another
caller. Each statement is a step, each may fail with or without effect, and a
process may die at any step. A caller reads the clock once, at `Begin`, and uses
that time for all its comparisons and for the expiry it writes, as `Execute` does;
only the marks read it again. `body` is the caller whose response is stored, and
`whole` says whether it survived `max_stored_response_len`: a cut response is no
JSON and the replay is refused. Redaction of the stored body is left out.

Two facts a reader may not expect: a row in state `processing` answers
IN_PROGRESS until it expires, because `locked_until` is not looked at for that
status; and a mark finds its row by id alone.

### ConcurrencySlots

One user. The member a request adds is named after the request, for every attempt
has a fresh name and a request adds at most one. Ages stand for Redis TIME minus
score, and for the time since EXPIRE. `counted` is the handler's `waitCounted`,
`released` the `sync.Once` of `wrapReleaseOnDone`. `disturbed` is a history
variable: some call has failed, a gateway has died, or the wait counter expired or
was deleted. A handler runs on after its client has left and its slot was
released; that is the code's design and `InUse` does not count such a request. Nor
is a slot renewed: a request that outlives the TTL is no longer entitled to it.

### GatewayRequest

One step per part of the handler `Messages` between two calls that others can
see. `pc` follows the loop: `select` (account and slot), `queue` (the message
lock), `reserve`, `sending` (Forward until the upstream accepts), `streaming`,
`failed` (an error of Forward), `record` (the charge), `commit`, `return` (the
deferred release), `done`. A response is a set of pieces, each with the number of
the attempt it came from, so that a splice of two attempts is visible: `shown` is
what the client has, `held` what `streamingBillingTerminalWriter` or the
queue-first buffer holds back.

| Code | Actions |
|---|---|
| selection loop | `Select`, `SlotTimeout`, `Intercept`, `Backoff` (`HandleSelectionExhausted`), `NoneLeft` |
| `AcquireWithWait`, `waitForLockWithPing` | `QueueAcquire`, `QueueFailOpen`, `QueueTimeout` |
| cleanup, TTL | `ForceRelease`, `LockExpires`, `LoseTTL` |
| reservation, `Forward` | `ReserveFails`, `Forward`, `Accepted`, `WriteBody`, `Finishes`, `Refused`, `Breaks` |
| `HandleFailoverError` and the errors around it | `RetrySame`, `Switch`, `Exhausted`, `Canceled`, `UseFallback`, `GiveUpStreamed`, `EndWithError`, `ForwardFailed` |
| charge and end | `RecordOk`, `RecordFails`, `Commit`, `Return` |
| context of the client | `ClientLeaves`, `SlotOnDone`, `QueueOnDone` |

A call that reports an error may have taken effect: a failed publication leaves
`unsure`, a failed AcquireLock may leave a lock that no one will release
(`Orphan`). `lapsed` is a history variable: the request's lock expired or was
forced from it. Which account is chosen among those that have not failed is left
open; how accounts are scored is not modelled.

### TokenRefresh

One OAuth account. Its tokens are a generation number (`gen`): every refresh
rotates the refresh token, so generation *n* can be spent once, for *n + 1*. Its
`_token_version` is a number of its own (`ver`): `RefreshIfNeeded` writes a new one
with the tokens, a refresh by hand copies the old one into the new credentials
(`handler/admin/account_handler.go:796` and `:859`), an edit writes back the one of
its form. The code takes the version from the clock; the model takes the
generation `RefreshIfNeeded` stored at that time, which assumes that the clocks of
two hosts differ by less than the time between two refreshes.
`valid` is the generation the provider accepts, `row` the account in the database,
`copy` the scheduler's, `obj[p]` the one a request, the job or an administrator was
given, `fresh[p]` the one `RefreshIfNeeded` works on (the same object when the
re-read fails, which matters, because `persistAccountCredentials` changes it before
it stores it), or the one `UpdateAccount` has read.

| Code | Actions |
|---|---|
| `GetAccessToken` | `Pick`, `Lookup`, `GiveUp`, `Check` (`CheckTokenVersion`), `Store`, `Accepted` |
| 401 in `HandleUpstreamError` | `Unauthorized`, `ForceRefresh`, `Park` |
| `RefreshIfNeeded` | `Lock`, `TakeLock`, `LockHeld`, `Degrade`, `Reread`, `RereadFails`, `Rotate`, `CallFails`, `InvalidGrant`, `Recover`, `Persist`, `PersistFails`, `Release` |
| `TokenRefreshService` | `Cycle`, `Condemn`, `Park`, `Post`, `Drop`, `Publish` |
| `refreshSingleAccount`, `UpdateAccount` | `Open`, `ManualRotate`, `ManualFails`, `Load`, `Save`, `UpdateFails`, `Invalidate` |
| `syncSchedulerAccountSnapshot` | `Sync`, `Write` |
| outbox and snapshots | `Poll`, `ApplyEvent`, `StartRebuild`, `PassOver`, `Fallback`, `SetSnapshot`, `SnapshotFails` |
| time and faults | `LockExpires`, `BucketLockExpires`, `CacheExpires`, `Age`, `Unpark`, `Crash` |

The outbox is one flag: an event of the account lies beyond the watermark. An
event can be missing afterwards, because the insert failed, because one of the
last second exists although it has been read already, or because its id is
behind the watermark. `listed` says whether the account is in the snapshot of its
bucket. Failures come out of a budget (`MaxFaults`); a failing call may have
taken effect. Three history variables say why something may go wrong: `lost` (a
new token was not stored, or overwritten by older credentials after a 401 or by an
edit), `broken` (the refresh lock expired under its holder, Redis failed and the
refresh ran without, or an administrator refreshed by hand, who never takes it),
`blind` (the row could not be read after an invalid_grant).

## 4. The runs

| Run | Bounds | Distinct states | Shows |
|---|---|---|---|
| `billing_once` | one charge, two XADDs, one reader and one recoverer, one stop or crash, the handler at most twice | 824 thousand | types, exactly-once debit, a ledger row for it, at most one delta, projection before acknowledgement, permanent claims, refinement of `UsageCharging` |
| `billing_clash` | two events with one key and different fingerprints, stream trimmed to one entry, retry limit 1 | 319 thousand | the loser is never acknowledged as billed; ledger and debit agree |
| `billing_retries` | a reservation, one reader and two recovery threads in two processes, retry limit 3, one stop or crash | 482 thousand | at most `MaxRetryCount` handler calls for an entry, one more for the second process; no silent loss |
| `billing_live` | one charge, one XADD, one stop, fairness | 19 thousand | every stored entry is acknowledged in the end |
| `billing_tombstone` | as `billing_once`, with a log and its deletion | violation | finding 1 |
| `billing_stop` | one charge, one stop | violation | finding 2 |
| `idempotency_keys` | three callers, two fingerprints, TTL 3, clock to 4 | 1.4 million | once within the TTL, one runner, real replays, final successes |
| `idempotency_concurrent` | three callers, TTL 2 | violation | finding 3 |
| `slots_limit` | three requests, limit 1, queue of 2, both TTLs 2, one worker start | 298 thousand | the limit, no leak, an exact counter, slots and queue that come back |
| `slots_worker` | as `slots_limit` | violation | finding 4 |
| `gateway_request` | a stream with two accounts and one switch, a buffered request with a fallback group, or two requests in the message queue of one account; one same-account retry | 278 thousand | no splice, no end uncharged, no reservation or lock left, one sender, bounded attempts; every request ends |
| `token_refresh` | two requests, a request and the job, or one of both with the scheduler's threads, two failures (none for two requests); an administrator with a request, the job or the scheduler's threads, one failure; one rotation, two attempts | 380 thousand | a rotated token is not lost, no account given up without a reason, no token older than the last one `RefreshIfNeeded` stored; due accounts are refreshed, the scheduler's cache catches up |

Why these bounds suffice to make the interesting cases happen. Two deliveries of
one charge already race at every statement, and the third interferer, the archive
job, may act between any two. Two conflicting events meet in both orders, and with
a retry limit of 1 the loser reaches the dead letter stream. With two recovery
threads one can claim between the other's `XPENDING` and `XCLAIM`, and a limit of 3
leaves room for two retries each. No run has an event without a command or an entry
that cannot be decoded (both are acknowledged without a transaction); the theorems
cover them. With three callers
one may hold a claim, one reclaim, and one replay; the clock outlives one TTL, so
that expiry, reclaim and cleanup happen. With three requests for one slot and two
places in the queue, one is served, one waits and one is refused, and a full queue
of leaked counts is reached. In `gateway_request` a stream can be refused, break
off before or after its first bytes, retry the same account, switch, find no
account left and start again after the backoff; the combinations (`Mixes`) are
chosen in the initial state, because requests meet only in the queue of an
account. In `token_refresh` one rotation separates an old token from a new one,
which is all the properties ask, and two failures allow one to hit the lock and
another the database; beside an administrator, who spoils enough without the lock,
one is left. Who takes part (`Casts`) is again chosen initially. Every
bound is a named constant: `PublishRetries`,
`MaxRetryCount`, `MaxLen`, `BatchSize` are settings of the program; `MaxStops`,
`MaxTime` and `MaxStarts` bound the environment. Runs that may legitimately come
to rest (all events published and settled, all callers answered) do not check
deadlock. `idempotency_keys` uses symmetry of callers and fingerprints, which no
definition tells apart; it checks no liveness.

### Fairness

`billing_live`: threads take the steps they can take; `GoIdle` happens because
time passes; a stopped process is started again (the deployment restarts it). A
claim and an acknowledgement that are tried again and again succeed in the end
(strong fairness of `ClaimPending` and `Ack` per entry): without it a Redis that
fails every call would refute anything. PostgreSQL needs no such assumption: after
`MaxRetryCount` failures the entry goes to the dead letter stream.

`slots_limit`: only that time passes. No cleanup is assumed to run, because
`StartSlotCleanupWorker` looks at schedulable accounts only and never at a user's
set; the next acquire drops expired members, or the key expires as a whole.

`gateway_request`: a handler goes on, as every call it waits for ends or times
out; the lock of an account expires, and the cleanup of locks without TTL runs.

`token_refresh`: requests, the job and the scheduler's threads go on, and both
locks expire. Failures end because their budget does: in place of an assumption
that a call made again and again succeeds. The full rebuild is one of the
scheduler's threads; `SchedulerCatchesUp` rests on it.

## 5. What is proved

TLAPS checks every proof to the last leaf, for every value of the constants that
satisfies the named assumptions (`ConstantsAssumption`, `IdempotencyAssumption`,
`ThreadsAssumption`, `NoRecordAssumption`, `SlotsAssumption`, `TokenAssumption`,
`GatewayAssumption`): any number of events, threads, processes, callers, requests and
accounts (events, accounts and, where handler calls are counted, threads finitely
many); positive limits and times. Every invariant and action
property that a passing run checks is a theorem.

**`BillingPipelineProofs`.** `TypeCorrect`; `ExactlyOnce` (`ChargedOnce`),
`LedgerCorrect`, `NoSilentLoss` (`AckedIsAccountedFor`), `NoDoubleDelta`,
`ClaimsStay` (an action property), `ChargesProjected` (`AckedIsProjected`), and
`Refinement` (`ImplementsContract`).
`ChargedOnce` alone is not inductive: a thread about to commit with
`applied = TRUE` must be the only one, and its key unclaimed. `IInv` adds for each
thread what its place in the transaction says about the two dedup tables
(`ThreadSafe`: a transaction that has found nothing so far either began before any
claim of its key, and then no claim is archived while it runs, or it will find the
claim at its next lookup), that at most
one thread holds an uncommitted claim on a key (`Exclusive`), and the relation of
claims, debits, ledger rows, deltas and acknowledgements (`DatabaseSafe`). The
proof takes the actions one at a time. The refinement maps `CommitTx` of a winner
to `Bill`, `DeadLetter` to `GiveUp`, `Ack` to `Close`, a stored XADD to `Accept`,
and everything else, `ArchiveClaim` included, to a stutter. `ChargesProjected` has
an invariant of its own, `ProjectInv`: from `Project` or `DeadLetter` on, the entry
a thread is about to acknowledge is projected or given up, and nothing that was
told to the cache or given up is taken back (`Remembers`), so that the fact
survives whatever other threads, crashes and publishers do before `Ack`.

**`RetriesProofs`.** `HandlerRuns` (`HandlerRunsBounded`) and `StreamHolds`.
Delivery counts are read by `XPENDING` and used after `XCLAIM`, and in between the
recovery thread of another process may claim the entry, run the handler and let it
go idle again. So the calls may exceed the limit, and the bound is
`MaxRetryCount` and one more for every further recovery thread (one per process,
finitely many by `ThreadsAssumption`). `RetryInv` separates two phases of an entry
(`Covered`). While its delivery count is below the limit, the calls made and those
due (`MayCall`) are covered by deliveries: a reader's call by the first one, a
recovery's by the claim before it. Once the count has reached the limit, no new
page leads to a call; only pages read before still do, and there is at most one in
the hands of each recovery thread (`MightCall`), none in those of the thread whose
claim reached the limit. `Undelivered` says that an entry beyond the cursor is in
nobody's hands. TLC finds the bound attained: with two processes and limit 3 an
entry is handled four times. `StreamHolds` shows that the stream has no entries
but `Entries`, whatever publications are retried: `OriginInv` keeps an injection of
the entries into events and attempts.

**`IdempotencyProofs`.** `IdempotencyTypes`, `OnceWithinTTL`, `OneRunner`,
`ReplaysAreReal`, `SuccessIsFinal`. `IdemInv` has two halves. `Anytime` holds at
any age of the row: ids are not reused, a holder of an id has the row's
fingerprint, a stored success belongs to an operation that took effect. `Exclusive`
holds while no caller's TTL has passed: one claim is alive or has succeeded, the
status tells which, and only failures are reclaimed. The clock only moves away
from `NoneExpired`, so the implication is inductive.

**`SlotsProofs`.** `SlotTypes`, `LimitHolds` (`WithinLimit`), `NothingLeaks`,
`CounterIsExact`. `SlotsInv` adds that the set never has more members than the
limit, that entitled requests are among them, that the key of the set is never
older than its members (so its expiry drops none in use), and which places in the
handler are counted.

**`TokenProofs`.** `TokenTypes`, `RotatedTokenKept` (`TokenKept`),
`ServedTokenCurrent` (`ServedIsCurrent`), `RefreshesExclude`, `AccountNotCondemned`
(`NotCondemned`). `TypeInv` adds to the types which account objects exist at which
place in the code. `KeptInv` says, while no token is lost, that no copy of the
account has newer tokens than the row, or the same with another version
(`Older`), that the row is not newer than the provider, and that a token the row lacks is with exactly one
refresh about to store it (`Carries`), the job's, a request's or an
administrator's: whoever else calls the provider has an older token and is refused.
`ServedIsCurrent` follows because a version is never greater than the generation
stored with it, although it may be smaller after a refresh by hand. `ExclInv` says
that only the holder of the refresh lock is between the re-read and the release,
until `broken`. Together they
give `BlameInv`: whoever is refused finds a newer token in the row, since the
winner can only be past its update.

**`GatewayProofs`.** `GatewayTypes`, `AnswersNotSpliced` (`NoSplice`), `EndsCharged`
(`EndIsCharged`), `ReservationsSettle` (`ReservationsSettled`), `SendersExclude`
(`OneSender`), `HandlersClean` (`NothingHeld`), `FailoverBounded`
(`AttemptsBounded`). `TypeInv` adds to the types that an account is chosen where
the handler works with one. The next five properties concern one request at a time:
`Local` says what its place in the handler implies about the account, slot and lock
it holds (`Placed`), the writers in place and the bytes they hold back
(`Captured`), from which attempt every byte on its way to the client comes
(`FromAttempt`), where the end of the answer may be (`EndHeld`) and which
reservations are open (`Reserved`). One frame lemma (`Untouched`) covers the
requests that do not move. `LockInv` relates the locks of the accounts to the
requests that believe to hold them; only here do requests meet. `AttemptsBounded`
is no consequence of a counter in the code: same-account retries are counted per
account, the backoff clears the failed accounts, and the fallback group starts
over. `Counted` therefore counts the retries as a set of pairs of an account and
the number of a retry (`Spent`), which can only grow within `Accounts` times
`1 .. MaxSame`, and bounds the attempts by its cardinality and the switches
(`Budget`).

Only model-checked: the liveness properties `EntriesGetAcked`, `SlotsComeBack`,
`QueueReopens`, `RequestsEnd`, `LocksComeBack`, `TokensGetRefreshed` and
`SchedulerCatchesUp`: fairness is outside the prover's reach.

## 6. Findings

1. *A replay can resurrect a deleted usage log.* `ApplyUsageCharge` checks for a
   tombstone and inserts the log in a later statement of a READ COMMITTED
   transaction; a deletion that commits in between is undone
   (`repository/usage_billing_repo.go:94`, run `billing_tombstone`).
2. *Stop does not drain.* It cancels the context in-flight entries use before it
   waits for them; they are redelivered later, and charged once, but not drained
   as `service/billing_event.go:113` says (run `billing_stop`).
3. *Two concurrent requests may both run an operation when the key's last record
   has expired.* Both read the expired success; the first reclaims it, executes
   and marks it; the reclaim of the second still matches, for it compares id,
   status and lock but not the expiry (`repository/idempotency_repo.go:118`, run
   `idempotency_concurrent`). It needs a key reused after its TTL, and two such
   requests at once.
4. *A start of the worker frees the slots of all live gateways.* Its cleanup keeps
   only members with the worker's own prefix, and the worker serves no requests
   (`service/wire.go:182`, run `slots_worker`). `WithinLimit` is therefore stated
   until the first start.

### Observations

Behaviour of the code that the models show and that no comment or test
contradicts plainly enough to call it a finding:

- *With several billing processes `max_retry_count` may be exceeded.* The retry
  count of an entry comes from a page read before the claim
  (`repository/billing_event_consumer.go:310`); another process may have claimed
  and handled the entry since. Each process after the first can add one call of
  the handler before an entry is dead-lettered (`HandlerRunsBounded`).
- *An old account may be written back.* After a 401 the handler stores the
  credentials of the object it was given, the scheduler's copy, with `expires_at`
  in the past (`service/ratelimit_service.go:188`). If the account was refreshed
  since, the spent refresh token is back in the database; the next refresh gets
  invalid_grant and the account is set to error. `TokenKept` names this case.
- *The refresh lock does not outlast every refresh.* Its TTL is 60 s, the OpenAI
  client's timeout 120 s, and the release deletes the key whoever owns it
  (`repository/gemini_token_cache.go:46`). The loser of a race whose winner has
  not stored its token yet gives a healthy account up; `NotCondemned` holds while
  the lock excludes.
- *A token may be cached after it was invalidated.* `CheckTokenVersion` and
  `SetAccessToken` are two steps, and the job's invalidation may come between
  them; the comment at `service/token_cache_invalidator.go:69` has the order in
  mind in which it comes before both. The cache's TTL ends it.
- *After a refresh by hand the old token may be used and cached again.* It keeps
  the `_token_version`, so that `CheckTokenVersion` takes an older copy of the
  account for current: a request that was given the scheduler's copy before the
  refresh stores the old access token after `refreshSingleAccount` has cleared the
  cache "so that the next request uses the new token"
  (`handler/admin/account_handler.go:885`). TLC shows it when `ServedIsCurrent` is
  stated with generations in place of versions; hence the property protects what
  `RefreshIfNeeded` stored. The endpoint of the OpenAI accounts
  (`handler/admin/openai_oauth_handler.go:189`) does not clear the cache at all.
- *A form writes credentials back.* `UpdateAccount` stores the credentials the form
  was opened with; a refresh in the meantime is undone, like after a 401.
- *The job ends an account's pause and then publishes it as paused.*
  `postRefreshActions` writes the object it read before to the scheduler's cache;
  the outbox event or the next rebuild repairs it.
- *A JSON error of a stream is not sent.* The terminal writer takes an error
  answer for an unfinished SSE frame and its release discards it
  (`handler/streaming_billing_v2.go:208`): the client gets a status without a body.
- *A buffered answer may be charged and refused.* The charge is published before
  the buffer is committed; a response too large for it is answered with 503.

## 7. What is not modelled

Within the modelled components: the status and metrics reads of the consumer;
the amounts of a charge; the circuit that reports billing health; keyless
idempotent calls, the observe-only mode and `ExtendProcessingLock`, which no
production code calls; users without a limit; the account's wait queue as a second
instance, and the queue depth metric. The model of Redis has no failover that
loses acknowledged writes, and PostgreSQL is durable. In `GatewayRequest`: the
scoring of accounts, sticky sessions, the delay between user messages
(`EnforceDelay`) and the throttle mode, the flush of the terminal writer beyond
4 MiB, terminal frames it already holds when the stream breaks off, headers and
pings, which the code counts as written too, and the Gemini and OpenAI handlers,
which follow the same scheme. In `TokenRefresh`: the Gemini and Antigravity
providers, privacy settings, bulk and group events, the versions of a snapshot
(`SetSnapshot` writes the accounts and activates the list in one step; a write that
stops in between is in `SnapshotFails`), and the paths without the refresh API that
tests use. Of the writers of an account's row in the control plane, the import
from another installation (`service/crs_sync_service.go`), a new authorization,
bulk updates, clearing an error and the switch for schedulable accounts are left
out; so are the errors other than invalid_grant for which the job gives an account
up at once (`service/token_refresh_service.go:419`). In `BillingPipeline` a
repair of the cache is recorded for reservations and releases too, where
`repairBillingCache` finds nothing to do.

Of the other components the billing cache, the API key cache, the WebSocket pool
and control-plane authentication could be modelled in the same way. The greater
part of the repository cannot: more than half of its lines is generated
ORM code (`backend/ent`), and most of the rest converts requests and
answers between API formats, computes prices, reads and writes rows for
administration pages or renders reports. That is data, not control. Where an
administration page writes a row that other processes write too, as for OAuth
accounts, it is part of the model. The models therefore map a small
share of the lines, those that decide about money, limits and credentials.

## 8. Running it

    tlc -config MCBilling_once.cfg MCBilling        # and so on, see PROJECT.json
    tlapm BillingPipelineProofs.tla
    tlapm IdempotencyProofs.tla
    tlapm SlotsProofs.tla
    tlapm TokenProofs.tla
    tlapm RetriesProofs.tla
    tlapm GatewayProofs.tla
