# Verification of the AI gateway

TLA+ models of the gateway in this repository (a Go reverse proxy in front of
LLM providers), the TLC configurations that check them, and TLAPS proofs.
Every definition is translated from the source; `PROJECT.json` maps it to the
lines it stands for.

## 1. The system

A chat request passes middleware (recovery, auth, load shedding, rate limits,
metrics), is routed to a provider, checked against per-key limits and a daily
token quota, answered from the response cache if possible, merged with
identical requests by the coalescer, and otherwise sent upstream by the
provider manager through a semaphore, a rate limiter and a circuit breaker. If
the upstream fails with a retryable error, the handler degrades to the other
providers in preference order. Background goroutines evict the cache, watch the
configuration, probe providers, warm up prefixes and save the state.

| component | state | operations | interacts through | what is hard | correct means |
|---|---|---|---|---|---|
| coalescer (`cache/coalescer.go`) | map key -> call, call: done channel, value, error | `Do` | called by the chat handler, calls back `fn` | `fn`, assignment, close and waiting run outside the mutex; timeout; panic of `fn` | one executor per key; waiters get the executor's result; everyone returns; keys are released |
| chat handler (`server/api.go`) | one goroutine per request | quota check, lookup, `Do`, accounting, store, degradation, stream | cache, coalescer, manager, cost tracker, profiler | check-then-act between cache and coalescer; shared answers; client disconnect cancels the executor | answers fit the request; a paid response is charged once; degradation never repeats a provider; everyone is answered |
| response cache (`cache/cache.go`) | entries with expiry | `Get`, `Set`, `SetWithTTL`, minute ticker | chat handler | eviction at capacity, overwrites, entries of two TTLs | capacity; only the next to expire is evicted; expired entries leave |
| circuit breaker (`provider/circuit.go`) | state, buckets, index, open time, successes | `Allow`, `Record`, `State`, `AdvanceBucket` | `Manager.Generate`, routing, dashboards | outcomes arrive in a later state than the one that admitted the call; adaptive thresholds | open lasts its wait; cold-start guard; settles closed when the upstream recovers |
| provider manager (`provider/manager.go`) | maps of providers, semaphores, limiters, breakers, budgets | `Bootstrap`, `Register`, `Unregister`, `Generate` | admin API, watcher, chat handler, warm-up | lookup and use under two locks; replacement under calls in flight | a call holds at most its slot and gives it back; limits hold across an edit |
| limits (`provider/concurrency.go`, `rate_limit_multi.go`, `server/ratelimit.go`, `middleware.go`) | channels, token buckets | `Acquire`, `Release`, `Allow`, cleanup, admin changes | manager, middleware | cancellation while waiting; several levels at once; lazy refill | bound on concurrency; all levels or none charged; no rhythm of retries locks out the requests that fit |
| adaptive semaphore (`provider/concurrency_adaptive.go`) | channel, limit, latency window | `Acquire`, `Release`, `Adjust` | created by the manager, not used by requests | the channel is replaced under its holders | no lost slot, no blocked release |
| upstream client (`provider/openai.go`) | retry budget | `Generate`, `GenerateStream`, `Health` | breaker, handler | retries, broken streams, a bounded channel between two goroutines, merge of tool-call deltas | chunks once and in order; the charge fits the end; nobody blocks for ever |
| cost tracker (`provider/cost.go`) | aggregates per key, model, day; append-only log | `Record`, `DailyTokens`, replay | handler, quota check, dashboards | restart in the middle of an append; change of day; quota checked before and charged after | nothing recorded is lost or counted twice; bounded overshoot |
| affinity router (`prefix/affinity.go`) | ring, load per provider, overflow marks | `SetRing`, `Decide`, `Inc`, `Dec` | routing, warm-up | decision and counting are not one step; ring replaced by an older one | stable choice, bounded load, counters return to zero |
| routing (`server/routing.go`, `routing_pool.go`) | pool, rules | rule match, weighted choice, preference order, toggles | manager, affinity, handler | eligibility changes between decision and call | only eligible providers; open breakers last |
| warm-up (`prefix/profiler.go`, `quota.go`, `warmup.go`) | prefix statistics, token buckets, tokens spent | `Observe`, `RealRequest`, `Tick` | manager, affinity, handler | shared reserve, cap on tokens, failing warm-ups | real requests come first; the cap holds |
| configuration (`config/watcher.go`, `parser.go`, callback in `cmd/gateway/main.go`) | last hash and providers | start, poll, diff, apply | manager, admin API (which writes the file too), file | file read before the lock; truncated contents; diff ignores fields | the gateway converges to the file |
| persistence, shutdown (`persistence/store.go`, `server/graceful.go`) | snapshot file | save, restore, signal, drain | main, handlers | crash between write and rename; two savers; save before drain | a restart finds a complete snapshot; a shutdown ends |
| prober, degradation chain (`provider/tenant.go`, `server/routing.go`) | health cache | `probe`, `UpdateHealth`, `routingCandidates` | handler | the comparator reads the cache while the prober fills it | preference order; no older result over a newer one |
| middleware (`server/shedding.go`, `auth.go`, `cors.go`, `recovery.go`, `observability/metrics.go`, `collector.go`) | in-flight counter, labelled counters, log channel | `Allow`, `Done`, `get`, `Info` | every request | increment before the check; counters made on demand; panics | bounded in-flight; every request measured once |
| SLO (`observability/slo.go`) | two rings of buckets, last alert | `record`, `advance`, `evaluate` | middleware | rings of different length advance together | a window counts what it covers |

Section 7 lists what is left aside.

## 2. Modules

```
SingleFlight <--refines-- Coalescer <--composes-- ChatCompletion
TokenBuckets <--refines-- RateLimits
ResponseCache    CircuitBreaker    StreamPath    HotReload
ProviderManager  AffinityRouter    Gateway
CostLedger, WarmUp, SloMonitor, DegradationOrder   (one MC module: MCServices)
```

| proofs | about |
|---|---|
| CoalescerProofs | Coalescer, SingleFlight |
| ChatCompletionProofs | ChatCompletion, with an instance of CoalescerProofs |
| CircuitBreakerProofs | CircuitBreaker, StreamPath |
| ProviderManagerProofs | ProviderManager, RateLimits, TokenBuckets |
| AffinityRouterProofs | AffinityRouter |
| GatewayProofs | Gateway, ResponseCache |
| ServicesProofs | CostLedger, WarmUp, SloMonitor, DegradationOrder, HotReload |
| Sums | lemmas on sums over finite sets, for the breaker, the ledger and the SLO rings |

Each has an MC module with its instance (the coalescer and the response cache,
both of package `cache`, share MCCache). Where a module uses another one that it
does not compose (the chat handler the cache and the manager, the manager the
breaker, routing the breaker and the manager), the user's module has the other's
effects as a free choice.

**Coalescer** - `Do`. Variables `pending` (the map), `result`, `closed` (the
call objects, named by the caller that created them) and, per caller, `pc`,
`key`, `joined`, `ret`. Every critical section is one action (`Join`, `Lead`,
`Cleanup`); what runs outside the mutex is stepwise: `FnReturns`, `FnPanics`,
`AssignResult`, `CloseDone`, `Wake`, `WaitTimesOut`. `AssignResult` writes value
and error together, which nobody can tell apart because they are read only after
`close(done)`.

**SingleFlight** - the promise of `Do` without lock, map and channel: a key has
at most one flight; a caller leads or boards; everyone aboard gets what it
brought or gives up. `ImplementsSingleFlight` is the refinement, with `pending`
as the leader, `result` once `closed` as the cargo, and `ret` once done as the
answer.

**ChatCompletion** - `handleChatCompletions` for requests without `stream`. It
instantiates `Coalescer` with the requests as callers, so the coalescer's steps
are the handler's. A request is what the code hashes: provider, tenant (API
key), prompt and context hash. The cache is a map in which an entry may
expire, and a store may evict any one other entry: an over-approximation of
`ResponseCache`. A response is the request that produced it, the provider it
came from and whether it is whole. Tokens are counted as one per call. The model
starts after routing and the per-key limits; `Disconnect` is offered where the
context is looked at.

**ResponseCache** - `SetWithTTL`, `evictExpired` and `Get` (the predicate `Hit`),
one action per locked operation, over discrete time. Ties between expiry times
are broken by Go's map order, hence `\E victim \in Oldest`.

**CircuitBreaker** - `Allow`, `Record`, `State`, `AdvanceBucket`, with the two
ends of `Manager.Generate`: a call is admitted, runs for any time and records
its outcome in whatever state the breaker is by then. Time is `openFor`. Rates
are compared by cross-multiplication. `healthy` says whether the upstream has
recovered; a call sent after that succeeds quickly. Without the timer all
outcomes fall into one slice; once it is `Full` (`MaxTotal`), only fast successes
are followed further, and without counting them: they lower both rates and move
the thresholds up, so they cannot open a breaker that the counts before did not.

**ProviderManager** - the manager for one provider name; no operation touches
two names. An instance is what one `Register` installs under the lock: provider,
semaphore, limiter, breaker. Editors are admin requests and watcher events: add
(`Register`), edit (`Unregister`, then `Register`), remove (`Unregister`).
`Register` is three steps, since it looks under a read lock (`QuickCheck`),
builds outside and then writes (`UpdateConfig`, or `Install` with its double
check). `Generate` is `Get`, `FindLimits` under a second read lock, `Acquire` or
`GiveUp`, and `Return`, which covers a refusal by limiter or breaker as well as
the call, because the deferred `Release` runs either way. `slots` is the fill of
each semaphore's channel. That an edit also writes the YAML file is left to the
watcher's model; the event this causes is one more editor.

**AffinityRouter** - `routeRequest` with affinity on. A request follows a rule
(`RuleHit`, `RuleMiss`) or goes to the ring: it copies the pool (`CopyPool`),
lists the providers (`ListForRing`), reads their weights (`ReadConfigs`), each
under another lock, installs the ring (`Rebuild`), and walks it one virtual node
at a time under the router's mutex (`StartWalk`, `Take`, `Skip`, `Fallback`),
while breakers turn and loads change; `Inc` is outside the mutex. A fallback
draws from the pool (`SelectFromPool`), once more from the handler if there is
nobody (`PoolIsEmpty`). `weight` is a provider's configured weight, 0 if it is
not active. `own` and `wide` are history variables that record which facts
(active, member of the pool) have been true since a request arrived; no guard
reads them. A request with an explicit `?provider=` touches none of this.

**CostLedger** - the cost tracker with the handler's two ends: `CheckQuota`
before a call, `Record` after it (with the day it is by then). A record is a
number; the log is a sequence of numbers or `Garbage`. `AppendLog` writes a whole
line, part of one, one without its newline, or nothing; `Crash` may come at any
time, `Restart` replays what `json.Unmarshal` accepts.

**RateLimits** and **TokenBuckets** - the gates a request passes: its client's
bucket, key and model under one mutex, the provider's limiter, and the breaker,
which refuses after all have charged. Buckets are lazy as in the code (a level
and its age); `TokenBuckets` is the promise: buckets that gain their rate at every
tick, and a request that takes its cost from all buckets of a gate or from none.
The mapping is the level after a refill. A client that was answered or refused may
send its request again, as often as it likes.

**StreamPath** - `GenerateStream` and its two consumers. A request connects
(`AttemptFails`, `BackoffEnds`, `BackoffCanceled`, `Connected`), its reader
goroutine parses (`ReadChunk`, `ReadGarbage`, `ReadEnd`) and sends into a channel
of `Buffer` places (`Send`), the handler receives, writes or aggregates
(`Receive`, `ReceiveFailure`, `Finish`); `Disconnect` is possible at any time. The
retry budget is shared, as in the provider.

**HotReload** - the file, its editor (by rename, or truncating and writing), the
watcher (`Start`, `Read`, `Changed`, `ReloadRules`, then one step for each call of
the manager) and the admin handlers with `persistProviderToYAML` (read, truncate,
write). An entry is its API key and the rest of its fields; `rest` tells apart a
field that is compared and lost when the file is rewritten (timeout) from one that
is not compared (weight).

**Gateway** - a request's way through the middleware, and the process around it:
the shedder's `Allow` with its correction, the labelled counter made on demand
(`GetFast`, `GetSlow`), the logger's channel, the handler that answers, is refused
or panics, the two savers with their lock, temporary file and rename (each of which may fail), signal,
drain, deadline, crash and restart.

**WarmUp** - profiler, quota and scheduler: `RealRequest` before the upstream
call, `Observe` with its eviction after it, `Tick` copying the records, and one
warm-up after the other until `StopTick`.

**SloMonitor** - `record` with `advance` and `evaluate`. Burn rates are compared as
percentages of failures; `seen` is the history the windows are compared with.

**DegradationOrder** - the prober's rounds, the health cache, and the sort of
`routingCandidates`, comparison by comparison (`SliceStable` sorts fewer than 20
elements by insertion), each reading the two scores one after the other, then the
chain of `gracefulDegradation`. Scores are fractions.

The operators under "Faulty variants" are one-line bugs (a dropped guard, an
off-by-one, a missing reset) that no specification uses; they document, per
property, a change of the code the property detects.

## 3. Runs

| run | instance | checks |
|---|---|---|
| `cache` | coalescer: 3 goroutines, 2 keys, 2 outcomes, panics; response cache: 3 keys, 2 places, TTL 1 and 3, time to 6 | shared results, nobody waits for a call that was dropped, termination and release of keys, refinement of SingleFlight; capacity, fair eviction, expired entries leave |
| `chat` | 3 requests; 2 providers, 2 tenants, one prompt; quota 1; expiry and eviction | tenant and provider isolation, cache contents, accounting |
| `chat_live` | 3 requests for one content, broken streams | every request past the quota check is answered |
| `breaker` | 2 callers, 3 slices of at most 2 outcomes, 2 successes to close, wait 2, timer runs | justified closing, cold start, open period |
| `breaker_gateway` | 2 callers, `NewCircuitBreaker`'s values (10 slices, 5 calls, 1 success to close, stable at 20), up to 24 outcomes in the one slice in use, wait 2, no timer | recovery |
| `manager` | 2 callers, 2 editors; a configuration of one slot, an unlimited one, one without a factory | slots, limits across an edit, waiters, draining of replaced semaphores |
| `affinity` | 2 requests, 2 keys, 2 providers of weight up to 2, 2 changes, one provider that fails | exact loads, bounded staleness, stable choice, convergence of the ring |
| `services` | ledger: 2 handlers, 2 keys, 2 models, 3 records, 2 faults, 2 days; warm-up: 3 prefixes for 2 records; SLO: rings of 2 and 3 buckets; chain: 3 providers, 2 rounds, 1 turn | aggregates, bounded loss and overshoot; recency, reserve and cap; windows and alerts; order and freshness |
| `limits` | 2 requests of different size, one client, key and model; one admin change | refinement of TokenBuckets; as long as requests that fit are sent, some pass |
| `stream` | a streaming and an aggregated request, 1 retry, budget 1, 2 statuses, 2 and 3 chunks, 2 tool calls | order and completeness, charge and error class, both goroutines end |
| `reload` | 2 providers, 3 keys of which one cannot be built, 2 edits, 1 admin request | manager and watcher agree; convergence to the file |
| `gateway` | 2 requests, limit 1 or 2, one log place, authentication, 1 crash | shedding, measuring, state file, shutdown |

`cache` runs two modules that share no state, `services` four; a behaviour is one
of a single module, and so is the fairness assumed of it.

**Bounds.** Three goroutines are an executor, a waiter and a newcomer, which is
what each window of `Do` needs. Two tenants and two providers are what isolation
and degradation need; three requests allow an executor, a waiter and a third
that comes between store and clean-up. The quota of one call lets requests pass
the check together. Three keys in two cache places give a victim, a survivor
and a newcomer. Breaker: three slices are the current one, its predecessor and
one that `recentFail` does not see; with at most two outcomes each (`MaxTotal`;
`Record` waits for the timer when the slice is full) the window holds six, enough
for the unstable (3), the default (`MinCalls` = 4) and the stable branch
(`StableAt` = 5 instead of 20). `breaker_gateway` is the breaker that runs: no
timer, the default values and one slice, in which 24 outcomes reach every branch;
beyond them only fast successes are considered, a late failure in a longer closed
period is not. `MaxTime` caps the cache's clock; no entry is written that
would expire later. Manager: two callers compete for one slot, and two editors
replace, remove or re-register under them; each installs at most one instance,
so `Last` = 3 cuts nothing off. Affinity: two requests are the slow rebuild and
the one that decides by it; two changes (`MaxChanges`) are what makes a ring
older than another; a provider of weight 1 is overloaded by one request
(c = 1/2), so that walks pass it by; three virtual nodes per provider, of which
a ring holds at most two, leave room for a wrong numbering. Ledger: a torn write
costs its own record and the next, so three records (`MaxRecords`) leave one that
must survive, and two faults (`MaxFaults`) add up. Warm-up: three prefixes compete
for two records; the clock (`MaxClock`), the real requests and the warm-ups are
capped so that a tick can find two candidates and a refill between them. SLO: the
clock runs to twelve, several times round both rings, with four records. Chain:
two probe rounds are what can overtake each other; three providers give the sort
its three comparisons; one turn (`MaxTurns`) is a breaker or a removal in between.
Limits: the second request needs two tokens and the first one, so that each can
empty the other's bucket; amounts are in parts of `Unit` = 2, and ages beyond
`MaxAge` cannot be told apart; both requests return as often as they like.
Stream: two attempts against a budget of one; a
channel of one place (64 in the code) is full after one chunk; three chunks can
interleave two tool calls. Reload: an edit can fall between any two steps of the
watcher and of the admin request, and a second edit can follow. Gateway: two
requests are what races in the shedder at limit 1 and for the new counter.

`CHECK_DEADLOCK FALSE` is set because requests are finite (all answered is the
end), the cache's clock stops, and after a removal every call of the manager is
refused at once, which is no step; records, requests and edits of the other
models are finite, too. `affinity`, `limits` and `reload`, in which something is
always polled or rebuilt, are checked for deadlock.

**Fairness.** Goroutines that can run do run (weak fairness on the steps of a
caller or handler); `fn` ends because the HTTP client has a timeout; `Wake` and
`WaitTimesOut` are fair together because the timer fires. Cache: time passes and
the ticker fires. Breaker: requests keep arriving, calls end and time passes; nobody has to
call `AdvanceBucket`, and in `breaker_gateway` nobody does. Manager: editors and calls end; strong
fairness of `Acquire`, because a Go channel serves its senders in order.
Limits: handlers run
and time passes, weak fairness only. A limiter refuses at once and keeps no
queue (`provider/rate_limit_multi.go:99`, `provider/concurrency.go:97`), so no
request has its turn: steady small requests can hold a bucket below what a large
one needs. `FittingRequestsPass` therefore promises progress of all the requests
that fit together, and of one that is alone; its premise, that requests keep being
sent, is part of the property. Stream:
the reader, the consumer and the attempts go on (the HTTP client has a timeout),
but no chunk has to come. Reload: the ticker polls, and whoever truncated the file
writes it. Gateway: handlers and savers go on, and the drain's deadline passes.
Affinity: strong fairness of a request's steps, because a Go mutex does not
starve a waiter, and of `NoRule`, that is, requests that no rule matches keep
arriving (otherwise nothing rebuilds the ring). Only there and for the breaker,
where nothing moves without requests, are requests assumed to arrive. Never
assumed: that the upstream recovers, that a client disconnects, that an entry
expires.

## 4. Proofs

The theorems hold for every value of the constants that satisfies the named
assumptions of the modules (`CoalescerAssumption`, `ChatAssumption`,
`CacheAssumption`, `BreakerAssumption`, `StreamAssumption`, `ManagerAssumption`,
`LimitsAssumption`, `RouterAssumption`, `GatewayAssumption`, `LedgerAssumption`,
`WarmAssumption`, `SloAssumption`, `OrderAssumption`, `ReloadAssumption`): any
number of requests, keys, providers, places and retries. The bounds of the clocks,
records and edits are constants like the others. One theorem has a hypothesis of
its own (`ClosingIsJustified`, below). Every safety and action property of the
runs is stated by a theorem.

* **CoalescerProofs** - the properties of `Do` are not inductive: that waiters
  share the result needs to know that a call a waiter knows belongs to a caller
  of its key (`WaitersKnowTheirCall`), that a closed call has its result
  (`ResultsAreHandedOver`), and that an entry in the map belongs to a caller
  that is still leading and every leading caller owns its entry
  (`EntriesAreOwned`, which is what excludes two executors). That nobody waits for
  a call that was dropped (`NoCallIsAbandoned`) needs as well that an entry whose
  `fn` panicked is never deleted (`PanicsKeepTheirEntry`). With `IInv` every
  action maps to one action of SingleFlight or to a stutter
  (`CoalescerIsSingleFlight`).
* **ChatCompletionProofs** - first a lemma on how the modules are composed
  (`HandlerUsesDo`): each of the handler's steps is a step of the coalescer or leaves
  its variables alone, for which one must know that a leader that is about to return
  has a response in its hand (`ResponseInHand`). With that the theorems of CoalescerProofs, taken in by
  INSTANCE, hold inside the handler, and its own invariant can rely on them: what
  a call produced fits the key it was made for, on its way from the upstream
  through `result` and `ret` to the cache and to the answer (`DoHandsOutFitting`,
  `CacheFits`, `OutFits`). `EachCallIsChargedOnce` counts the requests that are
  about to record. `WaitersHaveAnExecutor` is what remains of `NoCallIsAbandoned`
  here, where `fn` does not panic: who waits, waits for a leader at work.
* **CircuitBreakerProofs**, the breaker - `TypeOK` needs that a half-open breaker
  has fewer successes than permits, since otherwise one more would leave the
  bound. `OpenIsServed` follows for every number of callers. `ClosingIsJustified`
  needs that a closed breaker's window holds no more than what was recorded since
  it closed (`SeenCovers`), since an outcome adds one at most; the total is a fold over the slices, and the lemmas of
  Sums say how it changes with one slice. Its hypothesis is `MinCalls >= 3`:
  `NewCircuitBreaker` sets 5, and the guard against a cold start that the theorem
  states is about three calls.
* **CircuitBreakerProofs**, the stream - the invariant says for each request
  where its chunks are: received, in the channel and in the reader's hand are
  together what was sent (`Carried`), numbered without a gap (`Numbered`); what was
  charged and merged is what was received (`Consumed`); the end fits how the
  connection went (`PhaseFits`, `Settled`), from which also `ReaderIsNeverAbandoned`
  follows. A step touches one request, the others
  are carried over by one lemma.
* **ProviderManagerProofs**, the manager - that slots are the running calls needs
  that no one holds an instance which is still to be installed (`NothingAhead`), or
  a new semaphore would start with foreign holders, and that instances are built in
  order (`BuiltInOrder`). That limits are not older than the provider needs that
  a caller past `Get` has found an instance (`LookupsSucceeded`). `Acquire` and
  `Return` are an argument on the cardinality of the holders.
* **ProviderManagerProofs**, the limiters - `LimitsAreTokenBuckets`: the level a
  lazy bucket would have after its refill is the level of a bucket that is filled
  at every tick. That needs that a tick later a lazy bucket has one more rate or
  is full, that beyond `MaxAge` it is full anyway, so that forgetting an idle client
  gives nothing away, and that a gate's buckets are charged together.
* **AffinityRouterProofs** - the counters need that a request's place fits its
  route (`PlacesFit`). Bounded staleness is an argument along the data: what is
  true is recorded by everybody on the way (`PresentIsRecorded`), what a request
  has read it has recorded (`ReadingIsRecorded`), whoever decides knows all that
  those know who can still rebuild (`OthersAreCovered`), hence, whoever installed
  the ring, its providers are known to those who decide by it (`RingIsKnown`).
  `RebuildsKeepHomes` is about two rings only: a node of the new one that was not
  in the old one, or the reverse, belongs to a provider whose weight changed, and
  the home of a key is the nearest node.
* **GatewayProofs** - four layers. `StoreInv`: a saver holds the lock while it
  writes, and the file that is renamed is whole. `RequestInv`: where requests are
  while the process runs, stops or is down. `CountersFollow`: the shedder's counter
  is the number of requests between `Allow` and `Done`, with the one it is about to
  correct. `MeasuresFollow`: the counters are the numbers of requests that left,
  by status. The last two are arguments on cardinalities. And for ResponseCache,
  where capacity is inductive together with the types: at capacity the victim
  leaves before the key comes in, below it one key is added; `EvictionIsFair`
  splits on who can lose an entry.
* **ServicesProofs** - one invariant for each service.
  - `HealthInv`: all probes under way belong to one round and no stored result is
    of a later one, which is what waiting for a round before the next is for.
  - `QuotaInv`, `CapInv`, `ProfileInv`: a bucket is below the reserve only by real
    requests; warm tokens exceed their share by at most the last warm-up; the
    prefixes in the table are the most recent ones, also during several evictions.
  - `SortInv`: the prefix of the chain that is sorted so far, for a comparator
    that never changes its mind on what matters (open, priority) and may on what
    reads live scores; `TriedInv` for the chain that follows it.
  - `LogInv`: what the lines of the log can be after failed and torn writes, and how
    much the next restart will lose (`AtStake`).
  - `SumsInv`: the aggregates are the sums over one set of records. `Record` adds
    one record to the set; a restart folds the log, whose lines are in order, so that
    no record counts twice. The folds are opened with the lemmas of Sums.
  - `ChargesFit`: what a key has used today, with one largest call for every handler
    that passed the check, is within the bound; the bound grows by two calls with
    each fault, and midnight starts again.
  - `ReloadTypes`, `ServedInv`: between the calls of a reload the manager serves, for
    the names already handled, what the watcher remembers.
  - `SloInv`: each record has an age, the steps the rings made since, and each ring
    counts at each of its places the records of one age (`RingCounts`, for both
    rings with the same ages). A step takes at least a bucket size, and less than
    two unless it was capped, which takes a pause (`TimesFit`); hence what a window
    counts and what it forgot.
* **Sums** - MapThenFoldSet is a function by recursion over subsets. That a finite
  set of weights has exactly one sum and that the recursion computes it, whatever
  element it takes next, is shown by a smallest counterexample, since the induction
  theorems of the library cannot be used (see below).

`TypeOK`, `OneExecutorPerKey`, `ProvidersAreListed` and `ReaderHasAConsumer` are
proved and not part of a run: the last is what `StreamsEnd` rests on, and TLC
checks that. ChatCompletion, CostLedger, Gateway, HotReload and StreamPath have their
types as a conjunct of one of their invariants.

Only model-checked: liveness (`EveryCallReturns`, `EveryRequestIsAnswered`,
`ExpiredEntriesLeave`, `RecoversWithTheUpstream`, `WaitersAreServed`,
`RingFollowsPool`, `FittingRequestsPass`, `StreamsEnd`, `FollowsTheFile`,
`ShutdownEnds`). It needs ENABLED and fairness, which the provers here do not
have; induction over data by an operator is out of reach as well.

## 5. Plan

Done: the modules of section 2 and the proofs of section 4. Left:

1. What liveness turns on, as safety: that whoever waits has something that will
   wake it. Stated and proved for the callers of `Do` and the stream's reader; left:
   a slot that will be released, a bucket that fills.
2. The caches: that ChatCompletion's cache, in which anything may expire or be
   evicted, allows every step of ResponseCache.
3. `Register`'s configuration map (hazard at `provider/manager.go:66`).

## 6. Where code and documents differ

Met while modelling; `PROJECT.json` quotes the lines. The models follow the code.

* `Do` has no deferred clean-up; a panicking `fn` leaves its key in the map, and
  callers wait for nobody until their timeout, for ever
  (`cache/coalescer.go:31-33, 53`; `FnPanics`).
* The cache is looked up before `Do` only, so two concurrent requests with one key
  can both call the upstream (`README.md:53`).
* A stream that breaks off is a success and is cached (`provider/openai.go:97, 378`;
  `whole = FALSE` in ChatCompletion, `ReadEnd` in StreamPath).
* Nobody calls `AdvanceBucket`, the window does not slide
  (`provider/circuit.go:44, 212`; `TimerRuns`).
* An edit removes the provider before it registers it again; a body without
  `kind`, such as the terminal UI sends, is refused and the provider stays removed
  (`server/admin_providers.go:87`, `README.md:93`).
* tools, tool_choice, stop and response_format are not part of the cache key
  (`server/api.go:38, 42`).
* Half-open admits everybody; the waves 1, 3, 10 are not implemented
  (`docs/BUSINESS_CHAIN_01_GATEWAY.md:46-47`).
* Overflow is never sticky: `RecordOverflow` is called only after a decision that
  needs an earlier record (`server/routing.go:82`, `prefix/affinity.go:141`).
* The load bound c x weight is exceeded by the requests between their `Decide`
  and their `Inc`, which are not one step (`server/routing.go:81-86`).
* A request can be sent to a provider that left the pool after the request
  arrived or, by a slower request's ring, a little before
  (`server/routing.go:98-124`); `PicksAreRecent` says how much.
* Two concurrent edits can leave a configuration other than the one the running
  instance was built from, and an update after a removal one without a provider
  (`provider/manager.go:66`); `Config` is documented as the latest registered
  configuration (`provider/manager.go:122`).
* The pool's page reads the rules without their mutex
  (`server/routing_pool.go:72`).
* Waiters do not retry when their executor was canceled by its own client; they
  get its error (`docs/L0_AND_TEST_DESIGN_20260821.md:16`).
* `X-Context-Hash` is added to the message key, it does not replace it, so two
  formats of one context never share an entry (`server/api.go:569-570`).
* The cache evicts by expiry and is not an LRU (`cache/cache.go:1`).
* With an exhausted retry budget the client retries at once, without backoff
  (`provider/openai.go:180`), where the documents say that it stops
  (`docs/BUSINESS_CHAIN_01_GATEWAY.md:132`); every status but 200 is retried (`openai.go:157, 174`);
  the body is closed before its error message is read (`openai.go:194`); a last
  chunk with usage and no choices is dropped (`openai.go:396`).
* Edits of weights, limits or rules alone are never applied
  (`config/watcher.go:166`); an edit between parsing and `updateHash` is never
  applied (`config/watcher.go:117`); persisting a key drops the rules and most
  fields (`server/admin_providers.go:109, 150`); a truncated file reads as an
  empty one and unregisters everybody until the next poll.
* The admin API takes a name for a model only if it contains a space
  (`server/ratelimit.go:106`); a client's limit is one per connection, since
  `RemoteAddr` has the port (`server/middleware.go:100-109`). `LimitsAssumption`
  takes a client's burst to be at most 600 times its rate, which reading
  `DM_GATEWAY_RATE_LIMIT` does not enforce (`server/api.go:108-115`); beyond that,
  forgetting an idle client would give it credit it had not earned back.
* `RequestsByStatus` counts twice (`observability/collector.go:165, 169`); shed
  requests are not measured; a panic after the header is measured as 500.
* The state is saved before the listener closes (`server/graceful.go:53`), its drain
  (30 s) is shorter than the write timeout (120 s), and nothing of the snapshot is
  applied at a restart (`cmd/gateway/main.go:146`, `persistence/store.go:2`).
* The quota may be overshot by one call per running handler, and a failed write
  loses its record and the next at a restart (`server/api.go:557`,
  `provider/cost.go:140`); `OvershootIsBounded` and `LossIsBounded` say how much.
* Hot prefixes stay hot: the count is not of the last 15 minutes
  (`prefix/profiler.go:117`).
* The long SLO window is 3 hours and may keep older counts after a pause
  (`observability/slo.go:102, 150`).
* The comparator of the degradation chain reads live scores (`server/routing.go:262`):
  while a probe is stored, the order within a tier may be of no moment;
  `PreferenceHolds` says what holds all the same. The prober's recovery attempt
  only logs (`provider/tenant.go:397`).
* The adaptive semaphore is created but no request acquires it
  (`provider/manager.go:89-94`).

## 7. Not modelled

* Code that the gateway never runs: `TenantManager`, `PricingStore`,
  `CostValidator`, `ModelWhitelist`, `AuditLog`, `CanaryRollout`, `FileExporter`,
  `PipeStream`, the token counter, the generic `Retry` loop, and
  the adaptive semaphore, which is created but never acquired or adjusted.
* `TracingMiddleware`, which is in the chain (`server/api.go:295`): it puts the
  trace identifiers of the headers into the request's context, and no property
  depends on them.
* Conversions no property is about: request bodies, JSON and YAML syntax,
  Prometheus text, SSE framing, error texts. The cache key is taken to be
  injective: neither a collision of hashes nor one of the texts that are put
  together without escaping (`server/api.go:27-36, 575`) is modelled.
* Details of modelled parts: the scanner's limit of 1 MiB for a line of the usage
  log, which would end the replay (`provider/cost.go:165`); the second trigger of a
  warm-up, `TriggerHitTokens`, and the order and limit of the list its tick copies
  (`prefix/warmup.go:127`); two admin requests at once over one YAML file; and in
  HotReload an entry that is disabled counts as absent and a file that
  `config.Parse` rejects as unreadable, although `persistProviderToYAML`, which
  only needs YAML, would still find and rewrite such an entry
  (`server/admin_providers.go:114`).
* Reads: dashboards, statistics, diagnostics, the rule matcher and the random draw
  within a tier, whose results are free choices where they are used.
* Clients and surroundings: `gtctl`, `gtui`, the benchmarks, the mock upstream and
  the self test.
* The disk beneath a rename: the store does not sync, so after a power failure (not
  a crash of the process) even a renamed file may be short.
