# InferGate in TLA+

Models, model-checking runs and proofs for this repository: the gateway
(`gateway/`), an asyncio HTTP service in front of LLM providers: rate limit →
exact cache → semantic cache → cross-replica coalescing → ordered failover behind
circuit breakers. Several worker processes (`--workers 2`, three replicas behind
nginx) share a Redis; without Redis each process falls back to a private store.
`bench/` drives it with a load test and an orchestrator, which are modelled too.

    tlc -workers 2 -config Coalescer_safety.cfg MCCoalescer.tla
    tlapm CoalescerProofs.tla

## 1. The system

| Part | State | Operations | Talks to |
| --- | --- | --- | --- |
| Handler of `/v1/complete`, `main.py` | stats counters | `complete`, `do_upstream`, `read_cache` | all parts below, by call and callback |
| `TokenBucket`, `limiter.py` | `rejected`; in the store `ig:rl:<api key>` = "tokens\|ts" | `allow` | store |
| `ResponseCache`, `SemanticIndex`, `cache.py` | per process: keys and vectors, bounded, FIFO; in the store: payloads under exact keys, with a TTL | `get`, `put`, `add`, `search` | store, embeddings |
| `Coalescer`, `coalesce.py` | `leader_calls`, `followers_served`; in the store: locks `ig:lock:<exact key>` with a TTL | `run` | store, handler's callbacks |
| `ProviderPool`, providers, `providers.py` | `failovers`; per provider `calls` | `complete` | breakers, HTTP |
| `CircuitBreaker`, `breaker.py` | state, failures, half-open successes, trips, `opened_at`; private to a process | `allows`, `record_success`, `record_failure` | – |
| `MemoryStore`, `RedisStore`, `store.py` | keys, values, expiry | `get`, `set`, `setnx`, `delete`, `incr` | Redis |
| Startup, `store.py`, `main.py` | which store a process uses | `build_store`, `lifespan` | Redis |
| Stats and metrics, `metrics.py`, `main.py` | counters | `/stats`, `/metrics`, `/admin/reset` | all parts (reads, resets) |
| Embeddings, settings | none | `embed`, `cosine_batch`; read once | – |
| Load test, `bench/loadtest.py` | semaphore, latencies, errors | `fire`, three scenarios, `reset_all`, percentiles | gateway and first mock over HTTP |
| Mock provider, `bench/mock_upstream.py` | `calls`, `fail_rate`, latency | `complete`, `/calls`, `/reset`, `/configure` | – |
| Orchestrator, `bench/run_all.py` | child processes, one report per repetition | `single_run`, `start_gateway`, `stop`, `flush_redis`, aggregation | gateway, mocks (processes and ports), Redis |
| Calibration and workload, `bench/` | none | threshold sweep, random prompts | embeddings |

What is hard in it:

- **Where a coroutine gives up control.** Every Redis command is an await, so
  requests of one process and of other processes interleave between any two of
  them. `MemoryStore` awaits an `asyncio.Lock` that is never contended, so it never
  suspends: read–check–write sequences that are atomic in the tests are not atomic
  in production. The modules have both (`SharedStore` in `ResponseCache`, `backend` elsewhere).
- **Checks that are stale when used**: a cache miss before `SET NX`; a cache read
  before a lock read; a bucket level before it is written back; a vector whose
  payload expired; a breaker that changed state while the call it admitted ran.
- **Timers**: lock TTL, followers' deadline, breaker reset, payload and bucket TTL.
- **Counters reset under load**: `/admin/reset` zeroes them while requests that
  have raised some and will raise others are between two awaits.
- **Processes known by their ports**: the orchestrator spawns servers, but takes
  whoever answers for the one it spawned.
- **Failures**: leaders that die with a lock, Redis commands that raise with or
  without having taken effect, providers that fail, restarts that lose the index.

What makes each part correct:

- *Handler and coalescer*: an answered payload was fetched for the key asked for;
  no request hangs; no lock stays for good; a leader does not delete the lock of
  another; upstream calls are made only when needed.
- *Pool and breaker*: a healthy provider is always reached; a breaker opens only
  after a streak of failures, and closes again once its provider recovers; the
  counters agree with the state.
- *Limiter*: no client gets more than burst plus refill; nobody is in debt; who
  waited as told is served.
- *Cache*: a hit is the answer to the key or to a prompt that is similar enough;
  the index is bounded, and what it names is missing only because it expired.
- *Counters*: what entered a stage of the handler left it, failed in it or is in it.
- *Load test*: it ends; a scenario reports its own requests, a failover scenario a
  failover.
- *Orchestrator*: each load meets the gateway, the Redis and the mock that its arm
  is about; nothing is left behind; the headline follows from the repetitions.
- *Stores*: both are the same store to their callers.

## 2. Modules

| Module | Models | Theorems |
| --- | --- | --- |
| `SingleFlight` | abstract: what `/v1/complete` promises about payloads | |
| `Coalescer` | handler from the cache lookup on, `Coalescer.run`, exact cache tier, locks; processes, their stores, time, faults | `CoalescerProofs` |
| `Breaker` | the methods of a breaker, as operators on its value | |
| `ProviderPool` (extends `Breaker`) | `ProviderPool.complete` with overlapping calls | `ProviderPoolProofs` |
| `Meter` | abstract: the ideal token bucket, read, refilled and charged in one step | |
| `TokenBucket` | `TokenBucket.allow`, implementing `Meter` on a MemoryStore | `TokenBucketProofs` |
| `ResponseCache` | `ResponseCache`, `SemanticIndex` | `ResponseCacheProofs` |
| `KVStore` | abstract: the store as `RedisStore` offers it; Redis is external | |
| `MemoryStore` | `MemoryStore`, implementing `KVStore` | `MemoryStoreProofs` |
| `Gateway` | the whole handler in one process with every counter, `/admin/reset`, restarts | `LoadTestProofs` |
| `Figures` | percentiles, medians, reductions, as operators | `FiguresProofs` |
| `LoadTest` (extends `Gateway`, `Figures`) | the scenarios, their clients and the mocks, around the gateway | `LoadTestProofs` |
| `Benchmark` (extends `Figures`) | the orchestrator, its processes and ports | `BenchmarkProofs` |
| `MC…` | model values and symmetry for TLC | |

The modules meet in three ways. `LoadTest` composes the gateway with its clients and
providers: its steps are steps of `Gateway`, and `LoadTestProofs` shows that
(`LoadDrivesGateway`). `Gateway` leaves open what the limiter, the caches, the
coalescer and the breakers decide, which the modules above it settle one by one;
so it has every interleaving they have. `Benchmark` takes a scenario as one step and
looks at the processes around it.

### Coalescer

`pc[r]` is the await at which the coroutine of request `r` is suspended; an action
is the code from there to the next await.

| Action | Code |
| --- | --- |
| `Arrive` | the handler, admitted by the limiter, reaches `cache.get` |
| `Lookup` | `cache.get` of the handler: answer a hit, else enter `run` |
| `SetNX` | `store.setnx`: leader, or follower with a deadline |
| `UpstreamOk`, `UpstreamRaises` | `pool.complete` returns or raises `UpstreamError` |
| `Put` | `store.set` of `cache.put` |
| `Delete` | the `finally` of a leader |
| `Poll`, `Check` | a follower's read of the cache, then of the lock and the clock |
| `StoreRaises` | a Redis command raises, its effect applied or not: HTTP 500 |
| `Crash`, `Expire`, `Tick` | a process dies and is replaced, a payload expires, time passes |

`backend[p]` is what `build_store` chose when process `p` started, any member of
`Backends`; a restart chooses again. Payloads and locks live in slots, a store and a
key: Redis for the processes on it, the process itself for one that fell back, whose
slots go with it when it dies. `key[r]` is the slot of the request. In a process on
its own memory `running[p]` holds the request that has the event loop until it awaits
something that suspends (`Suspended`): the provider, a sleep, the end.

The lock's value is always "1" in the code; the model adds who wrote it
(`lock[k].by`), which no guard of an action reads. `lapsed` and `fetched` are history too.
A request makes one sleep-and-poll per loop; a lock or deadline is a timer counted
in ticks. Settings are environment variables of a process, so `Caching` and
`Coalescing` are sets of processes. `Check` merges the read of the lock with the loop test that follows it,
which reads nothing another coroutine changes but the clock. The deadline starts
when the lock is refused. The semantic tier is off here (it has its own module).

`Coalescer` implements `SingleFlight` (`AnswersArePromised`), store by store: `asked <-
key`, `reply` is the answer of requests that are done. That promise is not trivial: a payload
passes through a cache written by other requests, by followers that went ahead
on their own, and by leaders without a lock.

### ProviderPool and Breaker

A breaker changes only while no coroutine is suspended, so its methods are
operators on a record. A step of the pool is what happens between two awaits:
`Succeed` and `Fail` record an outcome and, after a failure, go on in the same
step through the providers that are allowed (`TryFrom`) until one is called or
none is left. `Slot`s are concurrent calls, reused without end. `opened_at` is kept as the ticks that
are left (`cooling`). Counters that only grow stop at `Cap`; the code reads
`failures` only against the threshold, and `Cap >= Threshold`. `reliable` is the set of
providers that never raise, fixed by the environment at the start.

### TokenBucket

`Begin` reads the clock, `Get` reads the bucket and decides, `Set` writes
`tokens|ts` back and returns; a refusal announces `RetryAfter`. A tick refills one unit, a request costs `Cost`
units. `Abort` is a Redis command that raises or a replica that dies. `Observe`
restarts the history variables `mark` and `spent` at any time, so that the budget
properties speak about every stretch of time. `shared` holds the calls under way that
overlapped something: another call of their client, the beginning of the stretch, or
the expiry of their bucket; `overlap[c]` is what such calls of client `c` were
granted. `Budget` is what the code says of itself, `BudgetAlone` what it keeps on
Redis: all that exceeds the budget was granted to calls that overlapped. On a
MemoryStore (`backend`) nothing happens between `Begin` and `Set` of a call
(`Undisturbed`, `Interruptible`); `BudgetInMemory` is the budget itself, and
`TokenBucket` implements `Meter` (`ActsAsMeter`): `level` is what the stored bucket is
worth by now, or what a call that has decided leaves in it, and `verdict` is set when a call decides. Meters are
charged once and refill at every tick, however late the code reads, refills
and writes, or lets a record expire. All hosts are assumed to read the same clock. The history `told` holds the instant
at which the wait is over that the last writer of a bucket announced, counted from
its clock reading, as the code does. `WaitIsEnough` has both sides of the promise: whoever
comes then is allowed unless the bucket was written again, and the wait is no longer
than the price of a request, counted from when it is announced. It is about the
`retry_after_s` of the body; the header is rounded (section 5).

### ResponseCache

One `Req` is one call of `get` or `put`. Vectors are known by `Score`, a constant
table of similarities; `IsNearest` is `argmax` with its first-index tie rule; the
index is the sequence of its keys. Cache keys are records of the pair that is hashed
(`Variant`: model and parameters; `Prompt`: the normalised prompt), SHA-256 taken
as injective. A vector is recomputed from the prompt of the key. The history `expired`
holds the keys a payload of which reached its TTL; `MissesNeedExpiry` says that
nothing else comes between a similar prompt and its payload.

### MemoryStore and KVStore

`KVStore` counts TTLs down; `MemoryStore` compares expiry times with a clock and
keeps expired entries until a `get` finds them. `StandsInForRedis` says that every
reply of the second is one of the first, under the mapping `Entries`. It is the
reason why the other modules use one timer for both stores. `Stored` keys are set,
`Counter` keys are incremented: the two must be disjoint, because `incr` of
`MemoryStore` drops an entry's expiry and ignores that it may have passed, where
INCRBY keeps it. Nothing in `gateway/` calls `incr`.

### Gateway

A request goes through `admit`, `lookup`, `coalesce`, `upstream`, `put`, `release`:
the awaits of the handler, without telling apart those that no counter lies between.
`count` holds the counters of `Stats`, of the coalescer, the pool and the limiter
under their names in the code, `calls` those of the providers. `ResetStats` is
`/admin/reset`, in one step as it awaits nothing; `limiter.rejected` is the one counter it leaves.
`Restart` is a process that dies and the one that replaces it. The histories `stale`
(requests in each stage at the last reset) and `failed` state what the counters
alone do not say. Token counters and Prometheus metrics are left out.

### LoadTest

The load test with the gateway it drives and the mocks behind it. `phase` is where the
scenario is: reset of the gateway, reset of the mock, `/configure`, fire, restore, then
`/health`, `/stats` and `/calls`. A client of `fire` is queued until it gets a permit, then
sent, then ok or an error. `GiveUp` is its timeout or a broken connection: the gateway
keeps the request, which may count in the scenarios after it.

Every request of the scenarios may fail, as far as `Unreachable` names its server, and
what happens then is what the code says: `ResetMock` swallows the exception and goes on
with the count the mock has; `Break` returns the report of a skipped scenario; `ReadCalls`
reports nothing in a load and the completions the gateway counted in a herd; and the
requests no `try` is around (`ResetGateway`, `Restore`, `ReadHealth`, `ReadStats`) end the
load test (`Raise`, phase `raised`). Where the request changes something it may have taken
effect all the same (`AfterFailure`). The `GET /health` at the start of `main` is not a
step: if it raises, nothing has happened yet.

`HttpProvider` counts a call, then posts it. `posted` holds the requests whose call of
the first mock is on its way; `MockReceives` is the mock, which counts the call and
draws its outcome. A call that ends before the mock has it (a refused connection, a
timeout, a dead gateway) is lost, or is one of the `astray` ones that arrive later
(`MockReceivesLate`), whatever scenario it is by then. `unheard` records that the mock's
count may differ from the gateway's for one of these reasons. The injected failure is a
list with status 200 (FastAPI takes `return {...}, 503` so), which `HttpProvider.complete`
fails to read: `doomed` requests never come back with a completion.

`ReportsTellTheTruth` and `FailoverIsForced` are about `clean` reports: no client gave up
and the gateway did not restart. That the gateway's own numbers fit those of its
clients is stated of all of them, what the mock says of its calls only of those whose
reset it heard and none of whose calls was lost (`unheard`).

### Benchmark

`holder[p]` is who is bound to a port, `child[p]` the process the orchestrator spawned
for it: the code knows only the second and asks only the first. `Bind` is the spawned
server, which exits if the port is taken; `Stop` may leave a killed process that is `dying`;
`Abandon` leaves the children to themselves when an exception comes before the
`try`, or the orchestrator is killed (`Interrupt`). `measured` records under which conditions the
last load ran, `stray` whether a gateway the invocation did not spawn was ever about. A scenario is
one step here; that it ends is `LoadTestEnds` of `LoadTest`. `Raise` is an exception anywhere in one,
before or after it did what it does to Redis and the mock; a failover whose first
request fails is skipped (`Failover`), and may leave the mock failing until it is stopped.

### Figures

`pct` by exact interpolation in hundredths, `statistics.median`, and `drop`, of a
family of samples, a function of any finite domain: no figure depends on their
order. So `Benchmark` reduces the family of repetitions whose control counted a
call (`Compared`), and needs no filtered sequence. The code rounds floats where the
module divides integers.

## 3. Runs

Passing runs:

| Run | States | What it shows |
| --- | --- | --- |
| `Coalescer_safety` | 1.0 M | 3 requests for a key, 2 processes on Redis or on their own memory, all faults: locks, answers, and on memory no needless upstream call |
| `Coalescer_liveness` | 186 k | Redis, slow and crashing processes, two of three with `CACHE_ENABLED=false`, one of these with coalescing off: every request ends, every lock comes free |
| `Pool` | 358 k | 3 overlapping calls, 2 providers, any of them reliable: breakers trip only on streaks, a reliable provider serves, the primary comes back |
| `Bucket` | 885 k | 3 calls of 2 clients. On Redis, interleaved and failing: only overlapping calls exceed the budget, no debt, announced waits are enough; on memory: the budget itself, and the verdicts of an ideal bucket |
| `Cache` | 281 k | 2 processes on Redis, eviction, expiry, restarts: sound index, close hits, misses only by expiry |
| `Store_memory` | 7.1 k | MemoryStore stands in for Redis |
| `LoadTest` | 1.3 M | a herd and a failover of 2 requests, 2 providers, all faults, gateway and mock unreachable at times: counters balance, reports are true, a failover is one, the load test ends |
| `Benchmark` | 1.1 M | 2 invocations of 2 repetitions, all faults: clean loads, nothing left behind, an earned headline, an end |

Runs that must find a violation, each for a sentence of the repository:

| Run | The sentence | What happens |
| --- | --- | --- |
| `Pool_direct_close` | "requires N consecutive successful probes before closing", ARCHITECTURE.md:121-122 | a late success closes an open breaker |
| `Bucket_overspend` | "the budget is global across replicas", limiter.py:2-3 | two requests read the same level, both pay from it |
| `Cache_variant` | "never serves a wrong answer", ARCHITECTURE.md:73 | the index ignores model and parameters |
| `Benchmark_stranger` | "owns process lifecycle end to end so the mistake cannot recur", ARCHITECTURE.md:163-164 | a gateway already on port 8080 answers for the one that was spawned; the control has a cache |

Bounds. Three requests are enough for a leader, a follower and a newcomer, the
most roles that meet on a key (two leaders and the owner of the deleted lock); one
key, since keys meet in no step. Two processes give every pair of backends,
and three in the liveness run one for each setting. `LockTTL` 2 and
`WaitLimit` 1 let a lock outlive a follower and lapse under a leader. Each request
is made once, so the runs need no constraint. The liveness run leaves out failing
providers and store calls: to the other requests a failed provider is a leader
that publishes nothing, which the processes without a cache already have, and a lock
that a failed call left behind is that of a crashed leader. In the pool `Threshold
= Probes = 2` are the least values at which a count matters; `Reset = 1` is the
least delay; slots are reused, so the histories are unbounded. In the bucket, `Cost`
2 with `Burst` 3 leaves a fraction of a request, `MaxClock` 4 exceeds `BucketTTL`, so
that buckets expire; `BucketTTL` equals `Burst`, the least at which an expiry is no
faster than a refill (with less, TLC finds `ActsAsMeter` violated). In
the cache, four calls fill an index of two, evict and search; similarities 2, 1, 0
with threshold 1 put one pair of prompts exactly on the threshold. `Store_memory`
lets the clock run past three TTLs. The load test has a herd and a failover, in the
order of the code, so that a request given up in the first is still there in the second; with
one permit the second makes its clients queue. A load is to the model a herd that reports
nothing where the mock's count cannot be read. `Survivors` holds one of the two requests: the
other goes no further when its client gave up, which bounds what lives on between scenarios.
The servers stop with the load test: what they do after it is any behaviour of `Gateway`. Latencies are unequal, so that
percentiles interpolate. Counters need no bound: each scenario sends each request
once, and resets. In the benchmark, two repetitions give a median of two and an
odd one out, two invocations an heir to whatever the first left; a load counts 0, 1 or 2
calls, so that a control may count none and an arm may gain or lose. Symmetry is used
in safety runs only; processes are interchangeable only if their settings agree.

Fairness. `Coalescer!FairSpec`: weak fairness of each request's steps (the event
loop is fair, Redis replies or raises: an assumption, as store.py:111-113 sets no socket timeout; httpx bounds a provider call by
`upstream_timeout_s`) and of `Tick`. No fairness on arrivals, crashes, expiry or
store errors. `ProviderPool!FairSpec`: weak fairness of each slot's `Start` (that
requests keep coming is an assumption on clients, and needed: without traffic a
breaker stays open), of the end of a call, and of `Tick`. `PrimaryReturns`
assumes that the first provider eventually stops failing.
`LoadTest!FairLoadSpec`: weak fairness of the harness alone (its coroutines run, httpx
ends each request, those of `fire` after 60 s); the gateway and the mock may do nothing at all. `Benchmark!FairSpec`: weak
fairness of the orchestrator alone: its waits have deadlines, its scenarios end, and `flush_redis` returns: an assumption
again, as its Redis client has no timeout (run_all.py:54-55).
Servers may bind late or never, and dying processes may stay.

Redis itself is assumed to lose nothing but what expires, though docker-compose.yml:4
gives it no persistence: `MissesNeedExpiry` says what the gateway does, not what a restart
of Redis would.

## 4. Proofs

All theorems hold for every value of the constants that satisfies the `ASSUME`s,
whose conjuncts only type the settings, say that TTLs, costs and thresholds are
positive and that `MemoryStore` is private to a process and cannot raise.

- **`CoalescerProofs!LockSafety`** (`LeaderHoldsLock`). The invariant `LockInv` adds to the types that only
  leaders reach `delete` and that arrived requests have a key: without the first, a
  `Delete` by someone else would break the lock of a leader. Each action
  either leaves locks alone or touches a lock that is free or its own, or lapses
  it, which `lapsed` records. `LeadersExclude` follows: no two leaders of a key whose
  lock has not lapsed.
- **`CoalescerProofs!Refinement`** (`AnswersArePromised`). `PayloadInv` adds that
  a cached payload was fetched for the key it is stored under, that requests past their
  call are the only ones in `fetched`, and that a leader's answer is settled before
  its `finally`. Every action then maps to one of `SingleFlight` or to a stutter.
- **`CoalescerProofs!CallsAreNeeded`** (`NoNeedlessCall`). `LoopInv` says that on a process's own
  memory a request that is not suspended has the event loop (`OwnsLoop`), so that
  the payload it found missing is still missing when it acts on that (`Missed`),
  and that who leads or follows coalesces (`RolesFit`). `OneHome`: requests that meet in
  such a memory are served by one process. Redis is exempt: there every command suspends.
- **`ProviderPoolProofs`**. `BreakerInv` combines types, `CountersAgree` and a streak
  at least as long as the failures counted. `TripsNeedStreaks` is an action property from it.
  `ReliableProviderServes` needs that no slot awaits a provider behind a reliable one
  and that the breaker of a reliable provider stays closed. `RecoveryTakesProbes`
  (`NoDirectClose`) is the sentence of ARCHITECTURE.md that `Pool_direct_close` refutes, for calls that
  do not overlap: the provider that is awaited was allowed, and nothing but time
  has happened to its breaker since (`AllowedStill`).
- **`TokenBucketProofs`**. `DebtInv`: a stored bucket has, by now, refilled at least since
  its last write; calls about to write leave no debt; and when an announced wait is over,
  the bucket holds the price of a request (`WorthTheWait`). It gives `NoDebt` and
  `WaitsAreEnough` (`WaitIsEnough`) on both stores. `BudgetKept` (`BudgetAlone`) assumes `BucketTTL >=
  Burst`: a full refill is no slower than the expiry. Its invariant `Accounted` has
  three parts for each client: what it spent outside overlapping calls plus the
  level now fits the burst and the refill (`Covered`); so it does with what any call
  about to write leaves, though that was computed from an old reading (`Pending`:
  no write raises a bucket above the level it found, brought up to date, by
  `LevelFrom`); and for a call that overlapped nothing, at its own clock
  reading, with what it is about to grant (`Own`). `Bucket_overspend` shows that
  what overlapping calls get has to be excluded.
- **`TokenBucketProofs!BudgetKeptInMemory`** (`BudgetInMemory`) and **`MeterInMemory`** (`ActsAsMeter`),
  about a MemoryStore, with the same assumption. `NothingShared`: at most one call is under way, and it
  overlaps nothing, so that `BudgetAlone` is the budget itself. `Prompt`: the clock has not
  moved since a call under way read it. Then `Get` is the ideal bucket's `Grant` or
  `Refuse`, a tick its `Refill`, and every other step a stutter (`MeterStep`). The
  case that matters is the tick in which a record expires (`LevelRefills`): by
  `RefilledSince` and the assumption on the TTL it was within one unit of full.
- **`ResponseCacheProofs`**. `HitInv`: payloads are stored under the key of the call
  that stored them, and a search leaves behind a key that serves the prompt.
  `IndexInv`: a call about to index a key has stored its payload, so what is indexed is
  backed or expired (`MissesExplained`); `AddSound` shows that
  `add` keeps an index within its bound, without duplicates. A private store needs the
  assumption that its process is the only one.
- **`MemoryStoreProofs!StandIn`**, if `Stored` and `Counter` are disjoint. `AgedImage`
  shows that a tick ages the image of an entry as Redis ages its key; every
  operation then maps to the same operation of `KVStore`.
- **`LoadTestProofs!CountersBalanced`** and the other theorems on the gateway's counters.
  `LedgerInv` states the balance stage by stage, with the number of requests in each stage. `Moves` is the lemma on that number: a request that moves leaves one
  stage and enters another, by the cardinality theorems of finite sets. Every step
  then raises one counter, or one failure, on each side. `AvoidedExplained` adds the
  balances up at rest. `LoadDrivesGateway` maps every step of the load test to one of
  the gateway or a stutter, and carries the balance over (`ScenariosBalance`).
- **`LoadTestProofs!ReportsAreTrue`** (`ReportsTellTheTruth`) and **`FailoversForced`**
  (`FailoverIsForced`). As long as no client gave up, the gateway did not restart and no
  request raised (`Live`), `Scene` says that nobody but the batch is in the gateway and how
  far each of its requests is, phase by phase; `Books` that each counter is the number of
  requests it counted (`Tally`), that the mock's count and the calls on their way to it make
  up the gateway's unless one was lost (`MockAgrees`), and that in a failover every request
  that awaits the first provider has a call that is on its way or doomed (`Forced`). The sets
  of requests behind the counters change at one request per step (`OneMore`); `ServeEffect`
  says what any step of the handler adds to which. Once a clean report is written, nothing is
  under way that could give up or crash (`Quiet`). `LoadTypes` has the types.
- **`FiguresProofs`**. Sorting is stated by counting: the `i`-th sample is the one with
  fewer than `i` samples below it and at least `i` up to it. That there is one for every rank
  (`RankTaken`) needs no induction over the samples: among the samples with at
  least `i` up to them one is up to the fewest (`LeastNat`, from the
  well-foundedness of `<`), and what lies below it has a greatest
  one (`GreatestSample`), which has fewer than `i` up to it. Samples grow with their
  rank (`NthMonotone`), so percentiles grow with `p` (`PctMonotone`), at equal ranks by
  the remainder and across ranks by the neighbour in between.
  `LoadTestProofs!PercentilesInOrder` (`PercentilesOrdered`) and `BenchmarkProofs!HeadlineEarned`
  (`HeadlineIsEarned`) follow, the second with the sign of a reduction (`DropSign`).
- **`BenchmarkProofs`**. `TypeInv` needs that a repetition appends one run (`RunsInStep`).
  `CleanInv` names who may hold which port where (`ChildrenKnown`), and that as long
  as no stranger's gateway is about, the one that serves was started for the arm
  (`OwnGateway`), Redis stays as flushed until the load (`FlushHolds`), and a mock of the
  invocation fails only inside a failover or on the way out of one (`MockHealthy`).
  `MeasuresOwnAlone` (`MeasuresItsOwn`) is the sentence that `Benchmark_stranger` refutes,
  where it holds: nobody else holds the ports, and no invocation is killed.

Only model-checked: the liveness properties (`EveryRequestEnds`, `LockComesFree`,
`PrimaryReturns`, `LoadTestEnds`, `InvocationEnds`), which rest on fairness, out
of the reach of the prover. Every invariant and every action property of a passing
run is proved. Of the four properties that a run refutes, three are proved under the condition
that restores them (`BudgetKeptInMemory`, `RecoveryTakesProbes`, `MeasuresOwnAlone`);
`HitsKeepVariant` would need that all requests name the same model and parameters, which makes
it empty.

## 5. Not modelled

Embeddings and their arithmetic (only similarities count), the text of requests and
payloads, token counters, providers' HTTP, Prometheus metrics, an orderly shutdown, a
process that refuses to start (`REDIS_REQUIRED`), deployment files, wall times, throughput and the layout of the
reports. `bench/calibrate.py` and `bench/workload.py` are sequential arithmetic on floats and
seeded draws, without state that anything else reads. `GroqProvider` and `HttpProvider` count a call and then return or raise;
a 200 reply whose body has no `text` is a completion to them and to the models.
Clock differences between hosts are left out of `TokenBucket`.

Noted while modelling, without a run of their own:

- tests/test_resilience.py:76 asserts that "20 identical requests must collapse to 1
  upstream call", on MemoryStore, where `NoNeedlessCall` agrees. On Redis a request
  may miss in its lookup and reach `SET NX` only after the leader published and
  deleted the lock: it leads, and calls upstream a second time, without any fault.
- main.py:88 promises "a clean slate"; `limiter.rejected` is not reset, and requests
  in flight go on counting. So `rate_limited` is left out of `ReportsTellTheTruth`.
- `upstream_calls_avoided` (metrics.py:72) counts failed requests as avoided calls:
  `AvoidedAccounted` has the sum.
- run_all.py:140 raises before the `try` that stops the mocks, which stay; run_all.py:78
  does not wait after `kill`; loadtest.py:165 restores `fail_rate` outside any `finally`, and
  the failover that is skipped at 157 may have been heard. A mock left failing is stopped with its invocation, unless the
  invocation did not start it or is killed: `LoadsAreClean` is stated for the invocation's own.
- loadtest.py:134-135: where the mock cannot be asked, the herd reports the completions
  the gateway counted (`upstream_calls` of `/stats`) as the calls the mock observed, which
  are fewer when a call fails. At 60-61 a reset that fails leaves the mock's count as it
  was, and the scenario reports it as its own: `unheard` excludes both.
- main.py:120-124 answers a refusal with the wait in the body, to the ms, and in the header
  `Retry-After` rounded down, or 1: a client that follows the header may come too early.
- aggregate_runs drops a repetition whose control counted no call from the median,
  yet reports it in `repetitions` (run_all.py:253-256, 274).
- calibrate.py:41-43 compares base prompts with each other, never a paraphrase with
  another base prompt: false positives of that kind are not in its table.
- The lock's TTL (30 s, config.py:55) is shorter than a leader may take (two providers
  of 20 s each) and is never renewed: a second leader joins a slow one, whose
  `finally` then deletes the second one's lock. `LeaderHoldsLock` is stated up to `lapsed`
  for this reason.
- coalesce.py:64 says "leader finished without publishing -> stop waiting"; over
  Redis a leader may publish and release between the follower's two reads, and the
  follower calls upstream.
- ARCHITECTURE.md:100-101 says that the lock of a crashed leader "expires rather than
  wedging every follower until timeout"; with a TTL of 30 s and a deadline of 20 s
  the timeout comes first.
- The bucket's record lives for 3600 s (limiter.py:40): a bucket that refills slower
  than that, like the one in test_resilience.py:107, is full again as soon as its
  record expires. `BucketTTL >= Burst` in `BudgetKept` excludes this.
- cache.py:44 speaks of "recent vectors"; `add` returns early for a key it holds, so a
  payload stored again after its TTL keeps its old place in the eviction order.
- README.md:207 gives 0.80 as the default of `SEMANTIC_THRESHOLD`, config.py:48 has
  0.78; the metric `infergate_failovers_total` (metrics.py:20) is never incremented.

## 6. Plan

Done, in this order: the coalescer and its promise; pool and breaker; limiter;
cache; the stores; their proofs; the choice of a store at startup; the gateway's
counters; the load test; the orchestrator; the proofs of the last three; the limiter as
an ideal bucket; the order statistics of the reports; the failures of the load test's own
requests; the announced wait of a refusal.

Left, most important first:

1. Orderly shutdown with requests in flight.
2. A restart of Redis, which loses locks, payloads and buckets at once.
