# Formal models of Tyrako

Tyrako is an HTTP API in Go that redeems TrueMoney gift vouchers. A client sends a
phone number and a gift (a voucher code or a gift link); the service validates it,
calls TrueMoney once, answers with what TrueMoney said and keeps all-time statistics.
API keys with ranks and scopes protect it, rate limiters bound it, and several
processes may share one PostgreSQL and one Redis. This directory holds TLA+ models of
its core, the TLC runs that check them and TLAPS proofs about them.

`PROJECT.json` lists the components, the runs, the source lines behind every
definition, the hazards the properties are aimed at, the findings and the theorems.

## Inventory

| component | state | operations | what is hard |
|---|---|---|---|
| Redeem service (`internal/service/tw_service.go`, `coalesced_tw.go`) | the singleflight map of each process | `TwService.Redeem`, `record`, `recordTwError`, `CoalescedTwProvider.Redeem` | duplicates arriving as a call ends, shared results, leaders that disconnect, crashes between spend and record |
| TrueMoney client (`internal/provider/truemoney`) | none; TrueMoney holds the voucher | `Client.Redeem`, `mapBusinessError`, `extractVoucherHash` | a POST that timed out may still be processed; unreadable answers after a spend |
| Validator (`internal/validator`) | none | `ValidateTwRedeem`, `ValidateGift`, `IsTrustedGiftHost` | drift between the validator's and the client's check of a link |
| Money (`internal/money`) | none | `ParseCents`, `FloatCents` | the boundary at `math.MaxInt64` |
| Statistics stores (`internal/repository/postgres/stats.go`, `memory/stats.go`) | totals row, counted references | `RecordTw`, `RecordTwError`, `Totals` | concurrent transactions on one reference and one row, lost acknowledgements |
| Keys (`internal/service/key_service.go`, `repository/*/keystore.go`) | table of keys | `CreateKey`, `ListKeys`, `RevokeKey`, `RotateKey`, `Bootstrap` | several store calls per operation, several administrators and replicas, partial failure |
| Auth middleware (`internal/middleware/auth.go`) | key row copied per request | lookup, check, detached `Touch` | a row judged after it changed, usage counting after revocation |
| In-memory limiter (`internal/ratelimit`) | bucket per key, at most 10000 | `Allow`, `purge`, `evictOldest` | window boundaries, a full map, refused requests that count |
| Redis limiter (`internal/ratelimit/redislimit`) | counter with TTL in Redis, fall-back limiter per process | `Allow` | Redis failing and recovering, lost replies and retries, TTLs rounded to seconds, several processes |
| HTTP pipeline (`internal/server/router.go`, `middleware/*`, `handler/*`) | limiter counts | order of middlewares, rank tiers, scopes, client address, decoding | which request reaches which service after which checks, who is counted for it |
| Migrations (`internal/repository/postgres/migrate.go`) | `schema_migrations`, advisory lock | `Migrate` | a session lock taken through a pool, replicas starting together, lost acknowledgements |
| Lifecycle, configuration (`cmd/api`, `internal/server`, `internal/config`) | the process | start, shutdown, `Load`, `validate` | shutdown against requests under way, a process that never exits |

How they interact: the router authenticates a request with the key store, limits it,
and calls the redeem service; the service calls the client through the coalescing
provider and then the statistics store; `Bootstrap` runs when a router is built.
Processes share only the stores, Redis and TrueMoney.

The properties that make a component correct are listed with its module below.

## Modules

| module | models | used by |
|---|---|---|
| `GiftLink` | the two checks of a gift, as functions of the facts they look at | `Redeem`, `MCInputs` |
| `Money` | `ParseCents` and the exact value it must return | `Redeem`, `MCInputs` |
| `Stats` | abstract specification: what a statistics store promises (and what the in-memory one does under its mutex) | extended by `Redeem`, instantiated by `PgStats` |
| `Redeem` | redemption on several processes, composed of the three above | `MCRedeem`, `RedeemProofs` |
| `PgStats` | the PostgreSQL statistics store, step by step; refines `Stats` | `PgStatsProofs` |
| `Keys` | key service, key stores, Auth and `Touch` | `MCKeys`, `KeysProofs` |
| `MemoryLimiter` | the in-memory limiter | `MCMemoryLimiter`, `MemoryLimiterProofs` |
| `RedisLimiter` | the Redis limiter on several processes, with `MemoryLimiter` as the fall back of each | `MCRedisLimiter`, `RedisLimiterProofs` |
| `Pipeline` | configuration, middlewares, decoding and statuses of every route | `MCPipeline`, `PipelineProofs` |
| `Lifecycle` | start, migration, serving and shutdown of several replicas | `LifecycleProofs` |
| `MCInputs`, `MCRedeem`, `MCKeys`, `MCMemoryLimiter`, `MCRedisLimiter`, `MCPipeline` | small instances for TLC; `MCInputs` also drives the pure functions | `InputsProofs` (on `MCInputs`) |
| `RedeemProofs`, `PgStatsProofs`, `InputsProofs`, `KeysProofs`, `MemoryLimiterProofs`, `RedisLimiterProofs`, `PipelineProofs`, `LifecycleProofs` | theorems | |

A definition named `X_Something` with a comment `Mutant:` is `X` with a plausible bug;
it is part of no specification and exists to show that a property can fail.

### Redeem

A request is in one of the stages `idle`, `wait` (in `Do`), `record`, `reply`, `done`
or `lost`. A call of the singleflight group is named by the request that leads it:
`fn` is its progress, `val` what it returned, `wire` what TrueMoney has made of its
POST. `DoLead` and `DoJoin` look the key up and enter the map in one step because
`Do` holds its mutex over both; `Publish` removes the key and releases the waiters,
again under the mutex. Between any two of these steps other requests, TrueMoney,
disconnects (`ClientGone`) and crashes (`Crash`) may step. `CallFails` may happen at
any time after the POST was sent, whatever TrueMoney did or will still do with it:
that is what makes a 5xx ambiguous. A request that cannot even be made (`CallNotMade`)
leaves nothing on the wire. `CtxCanceled` is FALSE because the call runs under
`context.WithoutCancel`.

Abstractions: the SHA-256 key is the pair of phone and gift (taken as collision free;
phone and gift cannot be confused because a valid phone has ten digits); a
gift is the record of what the checks look at, its host a sequence of pieces (the domain, a name, a dot, a
port) on which `IsTrustedGiftHost` compares suffixes as the code does; an amount is the pair of its digits; the
response body is left out. TrueMoney (external) processes a POST at most once,
succeeds only while the voucher has a share left and may refuse at any time.
A panic inside a call is not modelled.

Properties: `SingleUpstreamCall`, `NoReplay`, `PaidToCaller`, `RefusalIsFinal`,
`SpendReported`, `BooksAreTrue`, `EveryoneAnswered`.

### Stats and PgStats

`Stats` counts a reference once, an empty reference always and an error always.
`PgStats` splits `countOnce` into its statements. PostgreSQL (external) is modelled at
READ COMMITTED: an insert waits for the uncommitted row of the same reference, an
UPDATE waits for the row lock and then reads the latest committed row, writes appear
at commit. Any statement may fail (`Abort`), the acknowledgement of a commit may be
lost (`Commit(w, FALSE)`), and an increment beyond the BIGINT range is an error.
The refinement mapping is the identity on the committed rows.

### Keys

Every store call is one atomic statement (a mutex or one SQL statement); between two
calls of one operation anything may happen. A write may be applied and reported as
failed (`told = FALSE`), because the statement runs under the request's context and over a
connection that can break. Bootstrap runs once per start of a replica, and the replica
serves requests whether or not it succeeded. A plaintext and its hash are one value.
`generated`, `replaced`, `failed`, `revokedOk` and `dead` are history variables.
`ListKeys` only reads; key names, prefixes and timestamps other than expiry are left out.

Properties: `RevocationIsFinal`, `UsesAreCounted`, `BootstrapEstablishesSeed`, `ReplacementInPlace`;
refuted: `FailedRotationKeepsOldKey`.

### MemoryLimiter

`Allow` is one step (it holds the mutex). `Room` is the purge and, if the map is still
full, the eviction of one of the buckets that reset first; which one of several is
Go's map order, so a choice. `count` is kept at most at Max + 1: the code only compares
it with Max. `calls`, `log`, `retryAt` and `evictions` are history variables. Time is a discrete clock,
so a request exactly at `resetAt` is a case of its own.

Properties: `MemoryBound`, `EvictsSoonest`, `RefusalIsEarned`, `RetryAfterHonoured`,
`SlidingBudget`.

### RedisLimiter

Redis (external) runs the script atomically, so `Allow` with a reply is one step. The
fall back in `AllowFallback` uses the bucket operators of `MemoryLimiter`, instantiated for the
map of each process, purges and evictions included; `evictions` counts, as a history, the running windows of each key
that each process evicted. `ReplyLost` is a script that ran without its reply arriving: the client
library then runs it again (another step of the key) or `Allow` falls back. `RedisRestart`
is a Redis that comes back empty. The clock has `Second` ticks to a second because
EXPIRE truncates the window to whole seconds (at least one) and TTL rounds the remaining
time to the nearest; `RetryAfter` is what `writeRateLimitError` makes of it. The branch for a
reply of another shape is left out: this script never returns one. A counter without an expiry
does not arise either, because the script sets it in the step in which it creates the counter.

Properties: `DegradedBudget`, `RetryAfterHonoured`.

### Pipeline

One step per middleware in the order of `NewRouter`: `RateLimitIP`, `Auth`, `RateLimit`,
`RequireScope`, then `Decode` (the handler reads its body or path) and `Serve` (the service
runs and the status is written; the first `WriteHeader` wins). `Load` starts the process
only with a configuration that `validate` accepts, out of ten environments that include
non-positive limits and windows. Two requests at a time take their steps in any order.
`trustProxy` is taken to be set exactly when there is a reverse proxy, which appends the
address of its peer to whatever X-Forwarded-For the client sent. A limiter counts per bucket in a
window that may end at any time (`WindowEnds`); its insides are `MemoryLimiter` and
`RedisLimiter`. With Redis, one request may be counted up to `MaxRuns` times, because the client library runs a
script again whose reply it did not get (three times by default, so four counts); `retried` is the history of those extra counts. The fall back to
memory and evictions from a full map are left to `RedisLimiter` and `MemoryLimiter`. Keys do not change here; `Keys` has the races with revocation. The
services are `Redeem` and `Keys`; of their results only success and failure are told apart, because
none of their errors becomes a 400, 401, 403 or 429 that a middleware would also give.

Properties: `ClientBudget`, `TierBudget`, `Entitled`, `RefusedForOwnTraffic`.

### Lifecycle

`pc` follows `run` of each replica: connect, `Migrate`, serve, drain, the deferred calls, exit. The
advisory lock belongs to a session of the pool: it ends with the session (`SessionEnds`: lost, or
at `MaxConnLifetime`) while `Migrate` goes on, and it outlives `Migrate` when the deferred unlock
runs under a cancelled context or on another session, whose result the code ignores. A statement under
`ctx` begins only before the signal; any statement may fail; a commit may be reported
as failed (`CommitUnacknowledged`). `tx` is the row that an open transaction inserted into
`schema_migrations`; its primary key makes a second INSERT of the version wait or fail. A request is
followed only through what a shutdown can cut off: the POST, the acquisition of a connection
(refused once `db.Close` was called), the record and the answer. `db.Close` returns when every
acquired connection is back. What the SQL of a migration does is its number. Without `DATABASE_URL`
there is nothing to migrate or close; that variant is left out.

Properties: `OnceInOrder`, `ServesMigrated`, `OrderlyExit`, `GetsThrough`.

## Runs

| run | instance | what it shows |
|---|---|---|
| `inputs` | every gift record over two vouchers; every amount up to two past the largest whole part, and around MaxInt | validator and client agree on links; ParseCents is exact |
| `redeem` | 3 requests, 2 processes, 2 phones, 2 names of one voucher | one call per key, no replay, the right person is paid, the books |
| `redeem_faults` | 2 requests, 1 process, an invalid phone, a link without hash, an unparsable amount, a refusal, four faults, 1 disconnect, 1 crash, fairness | what an answer says about the voucher under every failure; everyone is answered |
| `pg_stats` | 3 workers, 2 references, 5 calls, totals that overflow, fairness | refinement of `Stats`, acknowledged means counted, no call waits for ever |
| `keys_seed` | 1 administrator, 2 replicas with a seed, 1 restart, 2 clients, 2 rows | revocation is final, counting is exact, a reported bootstrap has the seed in the store |
| `keys_rotate` | 2 administrators, no seed, 4 rows | the old key goes only when its replacement is there |
| `limiter` | 3 keys, 2 buckets, 1 request per window of 2, clock to 4, 4 calls per key | bounded memory, fair evictions, budgets, retry times |
| `redis_limiter` | 2 keys, 1 process with 1 bucket, 1 request per window of 7/3 s, clock to 8/3 s, 3 admissions per key, 1 restart of Redis | the limit degrades but never disappears, evictions included; retry times survive rounding |
| `pipeline` | 2 requests at a time, 2 clients, 4 keys, 4 routes, 10 configurations, up to 2 counts per request in Redis | who is counted, who reaches a service, who is refused and why |
| `lifecycle` | 2 replicas started at most twice, 2 migrations, 1 request, fairness | migrations once and in order, no service without schema, orderly exits, nobody stuck |
| `body_400`, `keys_failed_rotation` | as `pipeline`; 1 administrator and 1 replica with a seed | disagreements between documents and code, see below |

Why the bounds are enough: coalescing hazards involve a leader, a follower and one that
arrives as they end (3 requests); losing an update or a reference takes two transactions
and a third that meets their result; a rotation race takes two administrators, and four
rows leave room to rotate a key that was itself a replacement; an eviction needs one key more
than there are buckets, and four calls of one key spend two windows and an evicted one. In
`redis_limiter` 8 ticks hold one whole window of 7 and one whole TTL of 6 with the start of the
next, on a window that is no whole number of seconds. Keys meet only in the map of a process, where two keys for one
bucket evict each other; the second key calls at the start only (`LastCall`), which already
gives the first one three windows' worth (with a bound of two, evictions not counted, the run fails). Processes meet only in Redis, whose steps
do not depend on which process takes them, so one is enough; the theorems are for any number. In `pipeline` the routes are one of each kind
(body, body under `/keys`, path under `/keys`, unauthenticated), the keys a member, a partner without scopes, an admin and a
revoked one, and two requests make every limit of 1 and 2 be met and
exceeded; two counts of one request are enough to refuse the first request at a limit of 1. In `lifecycle` two migrations make an order, and a second start meets the
lock and the rows that the first left behind.

Deadlock is checked in `inputs`, `redeem*` and `pg_stats`, where the only final state is the
one in which everything has ended. In the others a behaviour may stop: the program only reacts
to requests and the bounds on them run out (`keys_*`, `limiter`, `redis_limiter`), a process
exits that refuses its configuration (`pipeline`), or all replicas are down (`lifecycle`).

Fairness. `redeem_faults`: weak fairness on the steps of the process itself (goroutines
are scheduled, the store's calls return) and on the deadline of a POST, which the
client's own timeout (30 s by default) and the 35 s of the call's context guarantee.
Nothing is assumed of clients, TrueMoney or crashes. `pg_stats`: strong fairness on
statements that wait for a lock, because PostgreSQL queues lock requests; weak fairness
on the rest; failures are never forced. `lifecycle`: weak fairness on the steps of `run` and of
handlers, on `StatementFails` only where a statement cannot succeed (the context is done, the row is
there), on the end of a session (`MaxConnLifetime`), and on the end of `Shutdown`
(`ShutdownTimeout`). That the database answers is an assumption, not something the code
enforces: `record` uses `context.Background()` without a deadline, so a database that never
answers would hold the request, then `db.Close`, and so the exit.

### Findings

- `body_400`: `docs/security.md` says that malformed payloads are rejected with 400; after a body
  with a second JSON value that decodes (an empty object or null) `decodeJSON` writes the 400
  and returns nil, and the handler redeems the voucher or creates the key all the same.
- `keys_failed_rotation`: `docs/api-reference.md` says that a failed rotation leaves the old
  key usable; the revocation may have been applied although it was reported as failed.

### Disagreements without a run

Each of these is visible in one place of the code and needs no exploration of states:

- `docs/security.md` asks for HTTPS gift links; `ValidateGift` accepts `http://`, and one of its tests expects it to.
- `docs/api-reference.md` gives 502 and 504 for upstream failures; a response body that cannot be
  read is answered 500.
- The comment on `Bootstrap` says that a random key is only generated when the store is
  empty; replicas that start together without a seed (which production refuses) all read an empty store, and each inserts an admin key.
- `docs/api-reference.md` and `docs/architecture.md` give `/tw` a scope; its route has no scope check.
- A failure of the key store in `Auth` is answered 401, as if the key were unknown.
- When the revocation at the end of `RotateKey` fails, the new key stays active while its
  plaintext is dropped with the error, and two concurrent rotations of a key leave two active
  replacements.
- `ShutdownTimeout` (10 s) is shorter than a POST may take (30 s): a shutdown can cut off a
  redemption after TrueMoney was called. `OrderlyExit` says that, short of a crash, only
  that and a listener that fails can.

## Proofs

Every invariant and every action property that a passing run checks is also a theorem, for
every value of the constants: any number of processes, requests, keys, references, migrations,
restarts and faults, and any limits and windows. The theorems rest on the named assumptions of the
modules, which say only what a value can be in the program:

- types of the constants; limits, windows, the length of a second and the number of buckets positive;
- MaxInt at least 99, so that the fraction of an amount fits;
- `None` is no row, request, counter or bucket; a script runs at least once for a request;
- the configurations of `Pipeline` are records of the fields of `Config`, with any integers in them,
  negative ones included: that the accepted ones are positive is proved of `validate`, not assumed;
- no process of `RedisLimiter` is called "redis".

The arguments:

- `RedeemProofs`. `IInv` is inductive. Its parts: a request that has not arrived owns
  nothing (`Arrival`); the map of a process holds exactly the calls under way in it
  (`MapIsCalls`); a POST belongs to a call with a hash (`PostIsCall`); what a call
  returned agrees with what TrueMoney did (`ReturnedVerdict`); a request waits for a
  call with its own phone and gift and answers what it returned (`WaitsForOwn`). The
  properties alone are not inductive: that two calls under way are different jobs
  rests on the map, and that a 200 was paid rests on the value the call kept. From it follow
  `TypeOK`, `SingleUpstreamCall`, `PaidToCaller`, `RefusalIsFinal`, `SpendReported`
  and the action property `NoReplay`.
  `BooksAreTrue` needs `BInv` on top: nothing is booked before `record` runs, a success carries
  the reference of the voucher its call spent, and what was counted was a success. Its sum of
  amounts is handled by the laws of finite sums (`SumsExist`, `SumsAgree`, `SumsCommute`,
  `SumGrows`), proved by minimal counterexample from the well-foundedness of inclusion among finite
  sets: the sum that `SumFunctionOnSet` computes exists, does not depend on the order in which
  elements are picked, and grows by what is added.
- `PgStatsProofs`. `IInv`: the row a transaction is going to write is the committed row
  plus its own change as long as it holds the lock (`LockedRow`), and a pending
  reference is new and inserted by one transaction only (`UniqueInsert`). With it every
  commit is one step of `Stats`: `StoreImplementsStats`, and `AckedCounted`.
- `InputsProofs`. `ParseCents` is exact for every width, `math.MaxInt64` included: the
  guard `w > (MaxInt - f) / 100` refuses exactly what does not fit. `ChecksAgree`
  holds for any vouchers, whatever the gift: what is extracted went
  through the validator first (`GiftsThrough`).
- `KeysProofs`. A change of the table keeps rows, secrets and revocations (`Persists`), so what an
  operation, a Bootstrap or a client read stays true of the row although the row may have changed since:
  `OpsHoldRows`, `BootHoldsSeed`, `ClientsHoldRows`. A secret names one row (`OneRowPerSecret`, the UNIQUE
  constraint), so a change of one row is a change of its key. `ReportedIsRevoked` ties the history to the
  table: a revocation that was reported is in it, and so a client that looks the key up later finds it
  revoked. `UsesAreCounted` needs that the clients counted for a row are finitely many.
- `MemoryLimiterProofs`. `IInv`: the map is finite and within its bound, what an
  entry has counted, up to Max, was admitted since its window began
  (`CountsAreAdmissions`), and a refused key was told the end of the window it is in
  (`ToldTheEnd`). The set of keys may be infinite. From it follow `MemoryBound`,
  `RefusalIsEarned`, `RetryAfterHonoured` and `EvictsSoonest`. `SlidingBudget` needs `Paced`: all
  but the admissions counted in the entry of a key were made by the time its window began, and
  all but those and one window's worth (one more for each eviction) a whole window before that.
- `RedisLimiterProofs`. `IInv`: a counter is running and ends at most half a second after
  what a refused client was told (`Expires`), and the admissions by Redis since any time are bounded by
  its count, one window's worth before it, and one for each loss of its data (`RedisPaced`).
  `FallbackPaced` says the same of the bucket of each process, with one window's worth more for each running window of
  the key that was evicted. An eviction takes a bucket away together with its count, so its admissions move from
  the bucket to the bound in the same step (`Dropped`); a bucket that ended moves them to the window before
  (`EndedWindow`). `BudgetsDegradeGracefully` and `RetryAfterIsHonoured` hold for any number of keys and buckets.
- `PipelineProofs`. `IInv`: for every request under way, what the middlewares before its stage have
  established (`AllEstablished`), and that what each limiter has counted of a client or a key is, up to the limit, at least what it let
  pass of them in the present window and at most that and the repeated counts of their own retried scripts (`CountsClients`, `CountsKeys`); this rests on
  `clientIP` giving a client its own address, behind the proxy or not, and on a key being counted in its own tier
  only. `RefusedForOwnTraffic` follows: whoever is refused has reached the limit with what passed and what was retried, and nobody else has added to it.
- `LifecycleProofs`. `IInv`: the loop of a replica is never past the first missing migration
  (`LoopIsBehind`), at most one transaction is about to apply it (`OneApplies`), and what `Migrate`
  reported stays true (`ReportsStay`). `OnceInOrder` alone is not inductive: that a commit
  appends the next number rests on the position of the loop. Nothing in `IInv` speaks of the advisory
  lock: the primary key of `schema_migrations` and the order of the loop are what makes
  `MigrationsOnceInOrder` and `ServesOnlyMigrated` hold, so losing the lock does no harm. `OrderlyExit`
  rests on `AllAttended`: a handler runs only in a process that serves or stops, and once the server has
  stopped only if it was forced to.

Only model-checked: the liveness properties (`EveryoneAnswered`, `EveryCallEnds`, `GetsThrough`), because
the prover does not handle fairness.

## Not modelled

Logging, recovery, CORS, security headers, response formatting, what the `/stats`
read-out contains and `FloatCents`, which nothing calls: they change no state of the program. The
parsing of the environment is external to `Load`. The int64 wrap-around of the in-memory
totals (a store for a single process without a database) is left out: it takes more satang than exist.

## Plan

Done: all modules above, their runs, and a proof of every safety property the runs check. Left:

1. The abstract limiter as a specification of its own, which `MemoryLimiter`, and `RedisLimiter` while Redis
   answers, implement.
