# TLA+ verification of the Lava network provider pairing system

This directory holds TLA+ models of the program in `src/main`, the TLC
configurations that check them on small instances, and TLAPS proofs that hold
for all instances. File and line numbers refer to `src/main/internal` unless
another path is given.

Contents: [the system](#1-the-system) · [modules](#2-the-modules-and-the-code) ·
[runs and bounds](#3-runs-bounds-and-what-they-show) · [fairness](#4-fairness) ·
[proofs](#5-proofs) · [findings](#6-findings) · [limits](#7-what-is-not-modelled) ·
[plan](#8-plan)

## 1. The system

A consumer *policy* (location, features, minimum stake) is paired with the best
*providers*. Providers live in an in-memory storage; a processor filters and
ranks them, with a cache of answers in front; a concurrent front end feeds the
processor from a queue and buffers the results.

```
 clients --EnqueuePolicy(s)--> PolicyProducer --Enqueue--> PolicyQueue (channel)
                                                             | DequeueWithContext
                                                             v
 GetResults <-- resultsBuffer <-- collectResults <-- resultsChan <-- PairingWorker
                                                             | GetPairingListWithDetails
                                                             v
           DefaultPairingSystem -> Processor -> ProviderStorage, Filters, Scoring, LFUCache
```

| Component | State | Operations | What makes it correct |
|---|---|---|---|
| `ConcurrentPairingSystem`, `PairingWorker` (`queue/concurrent_processing.go`) | running flag, workers with context and counters, `resultsChan`, `resultsBuffer`, totals; locks `cps.mu`, `resultsBufferMu`, `pw.mu` | `Start`, `Stop`, `EnqueuePolicy(s)`, worker loop, `collectResults`, `GetResults`, `ResetStats` | an accepted policy is processed and answered once; nothing is given up before `Stop`; `Stop` and `ResetStats` return and end what they should; totals agree with results |
| `PolicyProducer`, `QueueManager` (`queue/queue_system.go`) | `active`, list of producers; `p.mu`, `qm.mu` | `AddProducer`, `Start`, `Stop`, `ProducePolicy(iesBatch)`, `StartAll`, `StopAll` | a refused call enqueues nothing more; no lock cycle with `Stop` |
| `PolicyQueue` (same file) | channel, `closed`, two counters; an RWMutex | `Enqueue`, `EnqueueWithTimeout`, `Dequeue`, `DequeueWithTimeout`, `DequeueWithContext`, `Close` | no operation on a closed channel; capacity; calls return; counters mean something |
| `PolicyConsumer` (same file) | `active`, context, counters; an RWMutex | `ConsumeLoop`, `ConsumePolicy`, `Start`, `Stop` | a policy is processed once; nothing is taken after `Stop`; the loop ends |
| `DefaultPairingSystem`, `Processor` (`services/`) | configuration, statistics, cache; `d.mu`, `p.mu` | `GetPairingList…`, `ProcessPolicy`, `FilterProviders`, `RankProviders`, `GetScoringStats`, `SetTopN`, `SetCachingEnabled`, `UpdateScoringWeights`, `ResetStats`, batch functions | an answer contains only providers that qualify; caching is invisible except for age; reset is a barrier; statistics add up |
| `LFUCache` (`cache/lfu_cache.go`) | items, lists by frequency, `minFrequency`, capacity; `cache.mu` | `Get`, `Put`, `Remove`, `Clear`, `SetCapacity` | bounded; evicts least frequent, then least recent; the indexes agree |
| `ProviderStorage` (`storage/`) | map by address, index by location; `ps.mu` | `AddProvider`, `RemoveProvider`, getters | the index agrees with the map |
| Filters, validation (`filters/`) | – | `ApplyFilters`, `ValidatePolicy` | every filter applies, though the chain stops early |
| Scoring (`services/composite_scoring.go`, `scorers.go`, `scoring.go`) | table of scorers and weights; `css.mu` | `RankProviders`, `UpdateScoringWeights`, `AddScorer`, `RemoveScorer` | best first; one list is scored by one set of weights; a scorer that fails for one provider costs no other its place |
| Batch processing (`services/processor.go`) | worker pools | `ProcessPolicies(Concurrently, WithContext)` | one result per policy |
| Server (`cmd/server/main.go`), fake data (`testdata/`) | tickers, random source | four goroutines, signal handling, feature selection | rounds end; `Stop` comes after the signal |

What is hard here: workers, collector, clients and control operations hold five
kinds of locks in different orders, and channel operations under some of them;
`Stop` closes a channel that others send on; a RWMutex with a waiting writer
keeps readers out; the consumer waits for a policy while it holds its own lock;
the table of scorers is locked for one provider at a time; the cache is filled
from a read of the storage made several steps earlier; the running minimum of
the cache is allowed to be wrong, and nearly every operation relies on how
wrong. `PROJECT.json` lists each such place, by line, under "hazards", with the
properties that guard it.

Nothing is persisted and no messages are lost: there is no crash recovery to
model. A panic ends the process; the model records it in `crashed` and stops.

## 2. The modules and the code

| Module | Models | Checked by |
|---|---|---|
| `RequestLedger` | abstract: what the service promises about each policy | implemented by `ConcurrentPairingSystem`, used by `Server` |
| `ConcurrentPairingSystem` | the service: calls, producers, workers, collectors, `Start`/`Stop`/`ResetStats` | `service_*` |
| `PolicyQueue` | the queue with its lock and its unsynchronised counters | `queue_*` |
| `PolicyConsumer` | the consumer's loop, `Start` and `Stop`, on top of `PolicyQueue` | `queue_consumer` |
| `LFUPolicy` | abstract: a bounded LFU cache | implemented by `LFUCache` |
| `LFUCache` | the cache with its lists and running minimum | `cache_*` |
| `Models` | providers and policies, as functions on model values | |
| `Filters` | the filter chain and `ValidatePolicy`; what it is to qualify | `pairing_*`, `scoring_weights` |
| `Scoring` | the five scorers of the program, scorers of clients (external), `CalculateScore` and which providers it may fail for, the sort of `RankProviders` | `pairing_*`, `scoring_weights` |
| `CompositeScoring` | rankings while scorers fail, and the weights and the table of scorers change | `scoring_weights` |
| `ProviderStorage` | map and location index | `pairing_*` |
| `PairingProcessor` | `ProcessPolicy` and its parts with cache, statistics, configuration, on top of `ProviderStorage`, `Filters` and `Scoring` | `pairing_*` |
| `BatchProcessing` | the worker pools of the batch functions | `batch_calls` |
| `Server` | the goroutines of the server and `main`, on top of `RequestLedger` | `server_providers` |
| `MC_*` | the instances | |
| `DataLemmas` | lemmas about sequences, sums, counters and sorted lists, cited by the other proofs | TLAPS |
| `*_proofs` | proofs | TLAPS |

**ConcurrentPairingSystem.** A *request* is a pair of a call and a position in
its batch. Every goroutine has a program counter (`call`, `worker`,
`collector`, `ctl`), one action per step between two points where another
goroutine can interfere. Locks are not variables: each is held exactly in
certain positions (the module header lists them), and an action that needs a
lock has the negation of those positions as guard. `cps.mu` is held by one
control operation from beginning to end, hence one variable `ctl`. Two queues
are sequences, `queue` and `results`, with their capacities. A select with
several ready cases is several enabled actions: a worker with a result to send
has `WorkerSend`, `WorkerAbandon` (its context is done) and `WorkerSendPanic`
(the channel is closed). `Start` after `Stop` is allowed, as in the code, and
takes nothing back that `Stop` did to the context or the channel. History
variables `delivered`, `discarded` and `abandoned` record where a result left
the system. The lock of the policy queue is not contended here (nothing in the
service closes that queue), which is why the queue is a plain channel in this
module and has a module of its own.

**PolicyQueue, PolicyConsumer.** One call of the queue per element of `Calls`,
of the kind `Kind[c]`. The RWMutex is modelled with Go's writer preference: a
closer at "pending" keeps new readers out. `enqueued++` under the *read* lock
is a load and a store. The consumer's fetches are calls of the queue, made in
turn (`Fetches`); its own RWMutex, with the same preference, is read-held at
three positions of its loop, the wait for a policy included, and `Start` and
`Stop` are its writers. `Stop` cancels the context of all fetches, past and to
come, because the code makes the context once.

**LFUCache.** One action per operation; `SetCapacity`'s loop is one action per
turn, because the loop need not end. Only the order of timestamps counts, so
they are a relation `before`. `minFrequency` is moved exactly as the code moves
it: by one, if the list just left is empty, and never by looking for the next
item.

**ProviderStorage, PairingProcessor.** A call of
`GetPairingListWithDetails` read-holds `d.mu` from `Begin` to "done"; inside,
each access to cache, storage and statistics is a step of its own, as in the
code. `FilterProviders`, `RankProviders` and `GetScoringStats` are calls too
(`BeginPart`): each enters the same steps in the middle, with the list that its
client gives it or with what is stored, leaves them early, and raises the
counter it passes; that one counter moves without the others is what the code
does. Operations that write-lock `d.mu` need that no call is active; nobody
goes round `d.mu` by asking for the `Processor` (`GetProcessor`).
`generateKey` is modelled by what `%v` does to a list of features: it joins
them with spaces, so that the key has their words and has lost which words
belong to one feature. Scorers are the default ones, which never fail. Answers
are sets: any ranking that the sort may produce gives its first `topN`; the
order is the subject of `CompositeScoring`. The cache is a map with a capacity
that gives up some key; which one is the subject of `LFUCache`.

**Filters, Scoring, CompositeScoring.** Scores are exact fractions of the
weights' sum, in parts of `One` (140 parts make every constant of the code an
integer); a denominator of zero is an infinity, and 0/0 not a number, with the
comparison of floating point. The logarithm of a stake is a table, of which only
that it increases is assumed (rounding is left out). `AddScorer` takes whatever
implements the interface, so a scorer may be one that a client wrote
(`CustomKinds`): its scores are a table, and `Faulty` names the providers and
policies for which it may return an error. As `CalculateScore` walks a Go map,
in any order, and returns at the first error, a provider for which one scorer
fails has no score at all, and `RankProviders` goes on without it
(`SkipProvider`). Each score
is a step of its own, as `css.mu` is taken for one provider at a time; an
update through `DefaultPairingSystem` holds `d.mu` over its three steps, and a
change through the `Processor` comes at any time.

**BatchProcessing.** One call of either batch function, chosen by `withContext`
in `Init`. A policy and its result are the position in the batch. The
goroutines are the feeder (the caller itself without a context), the workers,
the one that closes `resultChannel` (`CloseResults`), and the collecting
caller; cancellation is an action of the environment. A cancelled call returns
while its goroutines go on.

**Server.** The goroutines that submit policies, add providers and show
results, and `main` from the signal to `Stop`. The service they use is
`RequestLedger`, which the detailed service is shown to implement. A feature
list is the number of its features; a random draw of one that is in use already
changes nothing, so that only the useful draws are steps.

**Operators named "Variant of X with a bug"** (in comments above them) are no
part of the specification. They state how X would look with a plausible
mistake; replacing X by the variant makes the property that `PROJECT.json`
names with it fail, which shows that the property can tell the difference.

## 3. Runs, bounds and what they show

All bounds are constants: `MaxStarts` (successful Starts), `MaxResets`,
`MaxAdds` (calls of AddProvider), `MaxFreq` (uses of one cached key),
`MaxUpdates` (of the weights), `MaxTunings` (changes through the Processor),
and the length of `Fetches` (turns of the consumer's loop that get as far as the
queue). The calls of the service, of the queue, of the scoring and of the
pairing system are finite sets, each call made at most once at any time.

| Run | Instance | What it shows |
|---|---|---|
| `service_safety` | two calls, one of them rejected by `ProcessPolicy`, one worker per Start, both channels of one place, two Starts, Stop at any time | `TypeOK`, `Positions`, `ExactlyOnce`, `Accounting` |
| `service_batch` | a batch of three, one worker, one Start, one ResetStats | `ExactlyOnce`; that the service implements `RequestLedger`; and liveness: accepted policies reach the buffer unless Stop comes, control operations return, stopped workers and collectors exit, calls return |
| `service_shutdown` | two calls, two workers, one Start | **violated**: Stop can bring the process down |
| `queue_consumer` | a consumer with three fetches, Start, Stop, both enqueues and Close, capacity 1 | `CountersLag`, `ClosedIsFrozen`, `OncePerPolicy`, `TakesWhileActive`; and `CallsReturn`, `StopEndsLoop` |
| `queue_nonblocking` | Enqueue, Dequeue, Close | **violated**: Enqueue can block for ever |
| `cache_lfu` | four keys, capacities 1 to 3, frequencies to 3 | the indexes are exact, the cache is bounded, and it implements `LFUPolicy` |
| `cache_setcapacity` | three keys | **violated**: SetCapacity can loop for ever |
| `pairing_calls` | two calls whose policies differ and share a cache key, a call of `FilterProviders`, one of `RankProviders`; three providers, two of one address; cache of one place; one ResetStats | `TypeOK`, `IndexExact`, `ClearedForGood`, `EmptyIsFresh`, `StatsExact`, `AnswersSuitKey`, `TopNHonoured` |
| `pairing_keys` | the two calls alone | **violated**: a cached answer need not suit the policy |
| `scoring_weights` | three rankings (one filtered, one not, one of an invalid policy), an update of the weights, a change of the scorers, which may bring in a client's scorer that fails for one provider; a provider without stake and one at each side of the cap | `TypeOK`, `OneTable`, `OnlyFaultyMissing`, `BestFirst`, `HalfUpdate` |
| `batch_calls` | four policies, three workers, with and without a context | `Conserved`, `OneResultEach`, `SendsAtOnce`, `AllEnd` |
| `server_providers` | one policy, rounds of five providers, 24 features as in the code | **violated**: the feature loop need not end |

Why the bounds are enough to be interesting. Capacities of one make every
channel and the cache full after one element, so every "full" branch is taken,
and with a batch of three and one worker all stages are full at once (one
policy queued, one result in the worker's hand, one in `resultsChan`) - the
situation in which Stop and the collector compete for `cps.mu`. Two Starts
bring two workers and two collectors together, a cancelled one next to one that
works, and everything a restart can find left over; with a batch, a reset or
liveness as well, that is more than TLC does in the time a run may take, which
is why the service has two runs, and resets after a restart are left to the
theorems. Three fetches
for two policies leave the consumer one that finds nothing, so that it waits
with its lock held while Stop and Close come. Four keys and three capacities
are the smallest with which a list by frequency can hold two items while
another is empty and the cache is full; three frequencies leave a gap between
the first and the last. Two providers that share an address make the index of
the storage and its map disagree. Two calls whose policies share a key race for
one cache entry and meet each other's answers; the calls of
`FilterProviders` and `RankProviders` raise one of the two sums each without the
other. (`GetScoringStats`, which reads the storage and then goes on like
`FilterProviders`, would be the fifth call, and more than TLC does in time;
`StatsExactCorrect` covers it.) One set of weights
suffices, as no property of this run depends on the order of a ranking. With
one key nothing is evicted: that the cache keeps to its capacity whatever it
evicts is left to `TypeCorrect`, and what it evicts to `cache_lfu`. One client's scorer that
fails for one provider out of three leaves a ranking with both kinds. Weights of
zero and below make sums that vanish, change the sign of a ranking and meet the
infinite score of a provider without stake. A batch of four and three workers
make the workers compete for policies while some have results to send, and
leave one worker without a policy in the end. The sizes of feature lists in
`server_providers` are ends of the code's ranges and the sizes at which the
rest of the 24 features just suffices or does not.

The consumer's run has no other client that dequeues: with one, its liveness
properties take more than the time allowed for a run. What is proved of the
consumer's safety (section 5) does not need this.

`CHECK_DEADLOCK FALSE` is in every configuration but that of the cache,
because these systems come to rest when all calls are made (or the process has
panicked or ended). The cache never stops.

The properties in a few words (each is commented at its definition):

- `ExactlyOnce`: an accepted policy is in exactly one of queue, worker,
  `resultsChan`, collector, buffer, or one of the histories - over restarts,
  resets, partial batches and every choice of a select.
- `LedgerSpec`: each step of the service moves requests as `RequestLedger`
  allows; in particular a policy is abandoned only after Stop has begun, and
  delivered results are never delivered or discarded again.
- `Accounting`: `total_processed`, `total_errors` and the sums of the worker
  counters are what the places of the results say, although results are
  buffered under one lock and counted under another.
- `Positions`: hands are full exactly in the positions where they should be;
  nothing is closed before the context is cancelled, and a restart opens
  nothing again.
- `CountersLag`: racing increments can lose counts, never invent them, and the
  counter is not zero after a success.
- `ClosedIsFrozen`: once `Close` has returned nothing is put into the queue, and
  nothing taken, although `closed` is looked at several steps before.
- `OncePerPolicy`: whatever the order of Stop, Close and the fetches, no policy
  that the queue has accepted is lost or processed twice by the consumer.
- `TakesWhileActive`: Stop is a barrier. `StopEndsLoop`: after it the loop ends,
  provided that no dequeue waits for ever, holding the lock Stop needs. (Without
  this proviso not even Stop returns: see section 6.)
- `Bounded`: until SetCapacity lowers the capacity, the cache never exceeds it,
  *and* there is always a victim when it is full - the running minimum may
  point at an empty list only when the cache is not full.
- `ImplementsLFU`: what is evicted is least frequent, then least recent.
- `IndexExact`: the index by location misses no stored provider; it lists
  something else only under an address that was added while it was stored.
- `ClearedForGood`: no call that read the storage before a reset puts its
  answer into the cache after it.
- `EmptyIsFresh`: if a call returns nothing, there was a time during the call
  when no provider passed.
- `StatsExact`: each of the five counters, for itself, is an exact count of what
  the calls begun since the last reset have got to: hits, misses, policies
  processed, and the sums of the providers that have passed filters and of those
  that have been ranked - over whole calls and calls of a part.
- `AnswersSuitKey`: who is in an answer, cached or not, has what *some* policy
  with the cache key of the call's policy asks for. That it suits the policy of
  the call itself is `AnswersQualify`, which is violated.
- `TopNHonoured`: an answer that is computed is never longer than `topN`.
- `OneTable`: all scores of a list come from one table of scorers, unless the
  Processor's scorers are changed behind `d.mu`.
- `BestFirst`: a ranking has nobody in front of a better one, if no score can
  fail to be a number.
- `OnlyFaultyMissing`: a provider that is missing from a ranking is one for which
  a scorer fails; the others keep their place. `TypeOK` says that nobody is
  ranked twice and nobody else is lost.
- `HalfUpdate`: an update that fails has set the weights in front of the first
  missing scorer and no other.
- `Conserved`, `OneResultEach`: nothing is lost between feeder, workers and
  caller, and an uncancelled call returns exactly one result per policy.
- `SendsAtOnce`: no worker ever waits to send or finds the channel closed, even
  after a cancelled caller has left, which is why no goroutine leaks (`AllEnd`).

## 4. Fairness

Safety is checked without fairness. Liveness assumes that the Go scheduler runs
every goroutine that can run, and that nothing makes a client call anything.

- Service: weak fairness for each worker and for the control operation: once one
  of their steps is possible it stays possible (a worker waiting for a policy
  competes with no one for its exit; the lock of a worker is only held for a
  step). Strong fairness for client calls and collectors, as they wait for
  mutexes (`qm.mu`, `cps.mu`) that others take again and again; Go's mutexes
  hand the lock to a waiter after a millisecond of starvation.
- Queue: weak fairness for each call that has begun. For timed operations this
  says that the timer fires. `Begin` and `Cancel` are never forced.
  `CallsReturn` is conditional: it assumes that an untimed dequeue does not wait
  for ever, which is the cause of `queue_nonblocking`.
- Consumer: weak fairness for its loop, once started (so `processFn` returns),
  for `Start` and `Stop` once called, and for each step of the queue. Weak is
  enough, as a waiting writer keeps the loop from taking the lock again.
- Cache: the loop of `SetCapacity`, once entered, keeps running.
- Batch: weak fairness for feeder, workers, closer and collector; no step of one
  can be disabled by another except a worker's receive, and then the worker
  waits for the next policy or the end.
- Server: the ticker ticks and providers are added; and random draws do not
  miss the unused features for ever (a draw that hits one is taken at last, if
  there is one). Nothing makes the signal come.

## 5. Proofs

TLAPS checks the following for every value of the constants that satisfies the
named assumptions of the modules (`CPSAssumption`, `PolicyQueueAssumption`,
`ConsumerAssumption`, `LFUCacheAssumption`, `ModelsAssumption`,
`StorageAssumption`, `ProcessorAssumption`, `CompositeAssumption`,
`BatchAssumption`): any number of calls, workers, restarts, providers and keys,
any capacities and weights.

| Theorem | Argument |
|---|---|
| `ConcurrentPairingSystem_proofs!TypeCorrect`, `PositionsCorrect` | `TypeOK /\ Positions` is inductive. Neither is alone useful: that a send does not exceed the capacity needs only its guard, but that a worker's hand holds a request when it sends it needs its position. |
| `…!ExactlyOnceCorrect` | `ExactlyOnce` is inductive relative to the above. Each action that moves a request takes it out of one place and puts it in another; `HandTake` and `HandDrop` say so for the workers' hands, `DataLemmas` for sequences, `PlacesFrame` covers the steps that move none. |
| `…!ImplementsLedger` | step simulation: `StatusNamesPlace` turns the CASE of the refinement mapping into membership of a place, and `MoveIntro` and `StayIntro` turn a change of places into a step of the ledger or a stutter. `Abandon` needs `StopPositions`: only cancelled workers drop results, and there are some only after Stop has begun. |
| `…!AccountingCorrect` | `AccountInv`: until the first `ResetStats` the totals count what collectors have counted (`TotalsExact`), and the sums of the workers' counters what workers have finished (`CountersExact`). Each needs to know that the request it counts was not there yet, which is `ExactlyOnce`, and that no collector counts what another one holds (`CountingInv`). A step adds one request to a set (`SendStep`, `PickedStep`; `CountIn` and `CountOut` of `DataLemmas`) and one to a counter (`CounterUp`, `SumChange`), or changes neither. |
| `…!PanicAfterStopCorrect` | nothing takes back `ctxDone` or `resultsClosed`, and every panic is on a closed channel; that the context is done by then is `StopPositions`. So what `service_shutdown` refutes fails only because of `Stop`. (No run repeats it.) |
| `PolicyQueue_proofs!SafeSelectCorrect` | that `closed` is still false at the channel operation. Needs `Exclusion` (no reader while Close holds the lock) to be inductive: Close sets `closed` when nobody is between the check and the channel operation. |
| `…!ClosedIsFrozenCorrect` | an action property, from `SafeSelect`: the only steps that change the queue are at "select". |
| `…!CountersLagCorrect` | each load is not above the counter and each counter not above the number of successes; a success adds one to the number and at most one to the counter. |
| `PolicyConsumer_proofs!UsesQueue` | every step of the consumer is a step of the queue or a stutter, given that the loop begins a fetch only when there is another one (`FetchAhead`). So everything proved of the queue holds under the consumer; `QueueUnderConsumer` says it for the two properties its run checks. |
| `…!ConsumerTypeCorrect`, `TakesWhileActiveCorrect` | inductive with `FetchAhead`; that `active` holds while the loop reads follows from the lock: Stop needs that it does not. |
| `…!OncePerPolicyCorrect` | each step moves the one policy it is about between the places and leaves the others alone; that a receiver's hand is empty before it receives comes from the type invariant. |
| `LFUCache_proofs!TypeCorrect`, `BucketsCorrect`, `MinCorrect` | `Indexes == TypeOK /\ BucketsExact /\ MinBelowAll` is inductive; no conjunct is without the others. That `minFrequency` stays a frequency at all depends on moving only off a list that an item has just left. |
| `…!BoundedCorrect` | `Bounded` is inductive relative to `Indexes`. Its second conjunct (a full cache has a victim) is the strengthening that makes the first one inductive. |
| `…!ImplementsLFUCorrect` | step simulation from `Indexes` and `Bounded`; `VictimLeastUsed` shows that what `evict` finds is least used among all items, not only in its list. |
| `PairingProcessor_proofs!FiltersCorrect` | the chain of filters against `Qualifies`: each filter is the set it should be even where it is skipped, and stopping early loses nothing because filters of nobody let nobody through. |
| `…!IndexCorrect` | `IndexInv` says of each list of the index what `IndexExact` says of its set: positions instead of elements, so that taking one entry out and closing the gap (`WithoutFacts`) can be followed. An address that was never added while stored has one entry at most. |
| `…!TypeCorrect` | the capacity of the cache: `PutFacts` counts what a Put lets go and what it brings. |
| `…!ClearedForGoodCorrect`, `EmptyIsFreshCorrect` | both from `CallInv`. Between the read of the storage and the write of the cache no reset can come, as `ResetStats` needs that no call is active; what is cached is never empty, so an empty answer was filtered from a storage read during the call. |
| `…!AnswersCorrect` | states `AnswersSuitKey`, with nothing assumed of the keys. `QualifyInv` adds what is filtered and what is cached to what is answered: an entry holds providers that qualify for some policy with its key (`EntryFacts`, `SuitsFacts`). `FiltersCorrect` begins it, `TopFacts` carries it through the ranking. |
| `…!TopNHonouredCorrect` | from `TopFacts` (the first *n* of a ranking are *n* at most), and that SetTopN waits for the calls. |
| `…!StatsExactCorrect` | `PathInv` ties a call's path to where it is: it takes one path, and one that is active began after the last reset. With it each call enters each of the counted sets once, at the step that raises the counter (`OneCall`). The last two counters add up numbers of providers: `CountInv` states them as sums of `FilteredBy` and `RankedBy` over the calls counted; a step changes the share of the one call that takes it (`PartStep`), a step of another call or of the configuration none (`PartStays`), and a call that begins has none yet (`PartBegins`). |
| `CompositeScoring_proofs!OneTableCorrect` | `LockInv`: while an update runs nobody ranks, and what a call has scored is by the table as it is. |
| `…!HalfUpdateCorrect` | `UpdateInv`: after *k* steps the first *k* scorers were found and set, and no other; `SetOneMore` is the step from *k* to *k* + 1. |
| `CompositeScoring_proofs!TypeCorrect` | `TypeInv`: the table stays finite, and so every sum over it is an integer (`SumType`); that a score of minus infinity is kept out of the sum (`Below`) makes each term one (`ComponentType`). A call that is done has ranked, once each, those of its list that it has not skipped: `ListsAll`. |
| `…!BestFirstCorrect` | the sort leaves no neighbours the wrong way round, which is weaker than sorted unless "not better" is transitive. It is (`NotBetterTransitive`), because by `OneTable` all scores of a list have one denominator or are one infinity (`ScoreCases`); `SortedPairs` goes from neighbours to all pairs. |
| `…!OnlyFaultyMissingCorrect` | `SkipInv`: who is skipped is one for whom a scorer of the table as it is fails; `LockInv` keeps the update of weights out, and weights do not change which scorers there are. |
| `…!FiltersLevel` | who passed the filters has one score for its location and one for its features (`FeatureLevel`, from `FiltersPass`: the cap cuts off the bonus). What section 6 says of the bonus rests on it. |
| `…!ScoreNormalised` | about `CalculateScore` itself, for any table whose scorers of clients keep to scores from 0 to 1: every component is at most 1 (`ComponentRange`), and a sum of terms that are at most their weight is at most the sum of the weights (`SumOrder`). |
| `BatchProcessing_proofs!TypeCorrect`, `ConservedCorrect`, `OneResultEachCorrect`, `SendsAtOnceCorrect` | one inductive invariant `Inv`. `Conserved` alone is not inductive, as a dropped result could be one dropped before; `Waiting` (the policies that wait are the last ones sent, in order) and `Held` (those taken are different and came earlier) exclude that. `Ends` says what the end of each goroutine tells about the others, from which `OneResultEach` follows by reading `Places` and `Tally` at the end; `SendsAtOnce` follows from `Tally`, since a busy worker leaves room for its own result. |

Every invariant and every action property that a passing run checks is the
statement of a theorem. Only model-checked are the liveness properties
(`AcceptedIsAnswered`, `ControlReturns`, `StoppedWorkersExit`, `CollectorsExit`,
both `CallsReturn`, `StopEndsLoop`, `AllEnd`), which need fairness and so are out
of the prover's reach.

Sums and lists of any length need an induction, and the library's induction
theorems take a predicate as a parameter, which the provers cannot instantiate.
`DataLemmas` takes the other way: a set of natural numbers that is not empty has
a least element (`LeastNumber`), a family of finite sets a smallest member
(`LeastSubset`), both from the well-foundedness theorems of the library; applied
to the set of counterexamples they give each induction that is needed - for
`SumFunctionOnSet`, down to the existence of the table by which the community
modules define it (`SumTable`), and for `SortedPairs`.

`MaxStarts`, `MaxResets`, `MaxFreq`, `MaxAdds`, `MaxUpdates` and `MaxTunings`
bound the models, and so the theorems speak of behaviours up to those bounds,
but for every value of them.

## 6. Findings

Disagreements that a run shows:

- `service_shutdown`: `Stop` cancels the workers and closes `resultsChan`
  without waiting for them; a worker that has just finished a policy may choose
  the send on the closed channel, which panics
  (`queue/concurrent_processing.go:250`; `src/README.md:405`).
- `queue_nonblocking`: `Enqueue` is documented as non-blocking, but blocks on
  the lock behind a waiting `Close`, itself behind a waiting `Dequeue`
  (`queue/queue_system.go:34`).
- `cache_setcapacity`: `SetCapacity` calls `evict` until enough is gone, but
  `evict` does nothing once `minFrequency` points at an empty list
  (`cache/lfu_cache.go:299`).
- `pairing_keys`: `generateKey` joins features with spaces, so that the policies
  for `"grpc HTTP"` and for `"grpc"` and `"HTTP"` share a key, and one gets the
  answer to the other (`cache/lfu_cache.go:46`).
- `server_providers`: the loop that gives a provider extra features looks for
  ones it does not have, and never ends if too few are left
  (`cmd/server/main.go:190`; `main.go:154` says that providers are added
  continuously).

Seen while modelling, without a run:

- The queue's counters are updated under a read lock
  (`queue/queue_system.go:45`): increments can be lost, and what the statistics
  call pending, their difference, can be wrong in either direction.
- A cache hit returns the list as it was cached, whatever `SetTopN` has been set
  to since (`services/processor.go:145`).
- `PolicyConsumer.Stop` takes the lock before it cancels the context, and so
  waits for a fetch that waits for a policy holding that lock, which only the
  cancellation would end (`queue/queue_system.go:308`): on an empty queue that
  nobody fills it does not return. `StopEndsLoop` is conditional for this reason.
- `PolicyConsumer.Start` after `Stop` makes no new context: the loop ends, or
  takes one more policy if its select happens to choose so.
- A stake of zero passes a minimum of zero and scores minus infinity
  (`services/scorers.go:25`); with a weight of zero or below the total can be
  not a number, which no sort puts anywhere in particular. `BestFirst` excludes
  it.
- The bonus for extra features never counts for what `ProcessPolicy` ranks
  (`FiltersLevel`): the cap (`services/scorers.go:115`) cuts it off for whoever
  has passed the filters, although `scorers.go:108` says "Bonus for having extra
  features" and `src/README.md:152` "Percentage-based matching with bonus for
  extra features". Location is level as well, so that only the stake tells
  providers apart, which `scorers.go:24` wants kept from dominating and
  `DefaultPairingSystem.go:52` names as one of three. (With a policy that
  requires no features all have one half.)
- `GetScoringStats` is a getter by its name, and raises `totalFiltered`
  (`services/processor.go:386`), so that reading the statistics changes them.
- `UpdateScoringWeights` leaves the first weights set when it fails
  (`services/processor.go:476`).
- `GetPairingList` ignores the providers it is given and reads the storage.
- The server's goroutines share an unsynchronised random source
  (`cmd/server/main.go:126`, `:166`); "Add more features" (`:180`) replaces a
  provider's features; `main` sleeps for two seconds instead of waiting for its
  goroutines, and only counts the final results (`:97`); the statistics it
  shows are those of another `DefaultPairingSystem` than the one that works.
- `src/README.md:272` promises "TTL Support: Automatic cache expiration"; the cache has no
  expiry.
- `src/README.md:404` says that bounded caches prevent leaks: after
  `SetCapacity` has lowered the capacity a later `Put` may find no victim, and
  the cache stays above its capacity (the `lowered` exception in `Bounded` and
  `Overflow` in `LFUPolicy`).
- Every `EnqueuePolicy` call registers a producer that nothing ever removes
  (`queue/queue_system.go:405`); `Stop` and the statistics walk all of them.
- A second `Stop`, after a restart, closes the closed channel
  (`StopClosePanic`), and a restarted collector may exit at once.

## 7. What is not modelled

- The display of statistics, the random data itself, the printing of the
  server: read-only, or without a behaviour to check.
- `ValidateProvider`, `GetFilterStats` and the legacy scorers of `scoring.go`:
  nothing in the program calls them with an effect. As nothing validates
  providers, a negative stake could be stored; `ModelsAssumption` leaves it out.
- `SetStatsEnabled`, the average processing time, hit and miss counters of the
  cache, produced and error counters of the producers, and the getters: they
  change no state that another operation reads. (`GetScoringStats` does, and is
  modelled.)
- Nil policies (`ValidatePolicy` refuses them), and `AddScorer` of a value that
  is no scorer, which it refuses.
- `SetWeight` called on a scorer by the client that added it, past the table.
- Rounding of floating-point scores; only infinities and not-a-number are kept.
- The loop with which `GetPairingListConcurrently` validates a batch before it
  starts the pool.
- `ProcessPolic(y|ies)Directly` of the service: a check of `IsRunning` and a
  call of the pairing system.
- The order of a batch's results (completion order); each carries its policy.
- Keys that collide because a location or a feature imitates the format of the
  key itself (brackets, underscores). `AnswersSuitKey` speaks of the keys of the
  model, which collide only by spaces.
- Clients that change configuration or statistics through the `Processor` while
  calls are active; for the scorers, where it matters most, `CompositeScoring`
  models it.

## 8. Plan

Done, in this order: the service with its ledger; the queue; the cache with its
policy; storage and processor; the batch pools; the consumer on top of the
queue; filters and scoring, used by the processor; concurrent scoring; the
server on top of the ledger; the proofs of section 5.

Next:

1. The composition of the detailed service with the pairing system, in place of
   the constant `Rejected`: what is processed between Stop and the exit.
2. `PairingProcessor`: that nobody whom the ranking leaves out of an answer is
   better than somebody in it. The lemmas about scores are there, but in the
   proofs of `CompositeScoring`; and the run is near the time a run may take.
3. The server's rounds: its safety on top of `RequestLedger`, past the loop that
   need not end.
