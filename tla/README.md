# Verification of TrueNow

TLA+ models of the concurrent core of the TrueNow analytics platform, checked
with TLC on small instances and, where the argument is general, proved with
TLAPS for every value of the constants. Each definition that models code is
listed in `PROJECT.json` (`map`) with the lines it stands for.

Contents: [the system](#1-the-system) · [the models](#2-the-models) ·
[what is checked](#3-what-is-checked) · [what is proved](#4-what-is-proved) ·
[disagreements found](#5-disagreements-between-the-code-and-its-text) ·
[what is left out](#6-what-is-not-modelled-and-why) · [plan](#7-plan)

To repeat a run: `tlc -config MCIngestFaults.cfg MCIngestPipeline`. To repeat a
proof: `tlapm IngestPipelineProofs.tla` (minutes, not seconds, for most).

## 1. The system

Events arrive at the **gateway** over HTTP, are limited, validated and produced
to **Kafka**; **stream ingesters** consume the topic, drop duplicates and send
batches to **hot-tier** nodes, which aggregate them in ring buffers; the
**query API** fans queries out to those nodes. Around that path the
**rebalancer** moves virtual shards, the **autoscaler** starts and stops
processes, the **watermark service** tracks freshness and the **control plane**
keeps metadata.

| Part (`src/services/...`) | State | Operations | Hard behaviour | What makes it correct |
|---|---|---|---|---|
| stream-ingester | channel, a batch per worker, deduplication index, committed offset | consume, worker select loop, processBatch, cleanup, shutdown | workers share the index; offsets are committed before events are written; calls time out while the hot tier works on | nothing counted twice; what is lost is explained by a failure; commits do not overtake |
| hot-tier `aggregator` | deduplication index, three rings | ApplyBatch (concurrent gRPC handlers), Query, cleanup | handlers and queries share plain fields | an event is in the buffers once |
| hot-tier `ringbuffer` | head, tail, slots of maps | Write, ReadRange, copySlot | head moves before the slot is written, the tail after | finished slots hold exactly their write; readers see a window |
| gateway `circuit` | state, counters, timeout | AllowRequest, RecordSuccess/Failure, transitionTo | decisions on a state loaded earlier | no decision lost; legal transitions; recovery |
| gateway `ratelimit` | token buckets per tenant and one global | Allow, AllowWithLimit, refill loop | compare-and-swap loops, unlocked limit fields | rate never exceeded; buckets never overfull; limits restored |
| gateway `ingestion` | pool of event objects, memory of the request contexts | Handle, HandleWithBackpressure | pooled objects are returned on four ways out, validating goroutines outlive the wait for them | a request sends its own fields; what is accepted is in the log |
| gateway `backpressure` | request queue with a counter and three channels, two adaptive limits | Enqueue, workers, Shutdown, RecordLatency, adjust | the counter is changed on every way through the queue | the counter is exact; the limits keep their range |
| gateway `discovery`, `routing` | table of instances, watchers, circuit counts | sync, Watch, RouteWithRetry | a poll is applied piecemeal; two goroutines a watcher | the table is the registry's last answer; watchers in it are open |
| gateway `producer` | batches | SendBatch | retries; a failed batch that arrived | repeated messages are harmless |
| rebalancer `coordinator` | current epoch, assignments | plan and execute split or merge, transition | copy under a read lock, install later | every virtual shard in exactly one place; epochs build on one another |
| rebalancer `detector` | load history, averages, flags | UpdateMetrics, AnalyzeDistribution, alerts | readings taken at different moments | the report adds up |
| rebalancer `hasher` | ring of points, map of virtual shards, Maglev table | add or remove a node, rebalance, generate | coinciding hashes, rounding, full permutations | keys move little; everything has an owner |
| autoscaler: instances | registry of instances, managed instances, ports, cooldown | evaluate, scale, start, stop, monitor, clean up, shut down | five goroutines remove the same instance; processes crash | no port and no process lost; limits respected |
| autoscaler: rules, `backpressure` | cooldowns and delays, levels of a window | EvaluateAll, EvaluateCascades, updateLevel, ShouldAcceptRequest | decisions applied later to counts that have moved | rules are followed; a single peak sets no level |
| watermark-service | watermarks per service and table, violations, one read-write lock, streams | update, aggregate, expire, readiness, broadcast | late updates, stale services, nested read locks, streams that end | figures agree, minima do not regress, everybody gets the lock |
| query-api | two-level cache, one hot-tier client | look up, call, store, answer, shut down | late cache writes, timeouts | answers are of their query and not too old |
| control-plane | namespaces, tables, audit log in Postgres | create, audit | concurrent creation, lost connections, crashes | one creator per name; acknowledged writes are audited |
| monitor, tests | none shared | read-only | | |

Interactions: the gateway and the ingester share only the Kafka log (messages
may be repeated); the ingester calls `ApplyBatch` (calls may be lost, late or
answered after the deadline); the rebalancer's coordinator is a library object
shared by goroutines; the autoscaler shares the registry with the loops it runs
and the processes with the operating system.

## 2. The models

| Module | Models | Source |
|---|---|---|
| `IngestPipeline` | log → consumer → channel → workers → deduplication → ApplyBatch → buffers, with crash, restart, shutdown, faults and expiry; implements `EventLedger` | stream-ingester `cmd/main.go`, `internal/{consumer,processor,writer}`; hot-tier `aggregator.go`; gateway `producer/batch.go` |
| `EventLedger` | what the path of an event promises its sender (abstract): sent, owed, counted, excused | – |
| `SlidingWindow` | what a ring promises its readers (abstract) | – |
| `HotTierRing` | the ring, one action per shared access, with its writers and queries; implements `SlidingWindow` | hot-tier `ringbuffer/lockfree.go`, `aggregator.go` |
| `CircuitBreaker` | the breaker, one action per atomic operation, and how the handler calls it | gateway `circuit/breaker.go`, `ingestion/handler_backpressure.go` |
| `RateLimiter` | the buckets, one action per atomic operation, requests and the refill ticker | gateway `ratelimit/hierarchical.go` |
| `GatewayRequests` | handlers, from shedding to the answer, with the object pool and the parallel validation | gateway `ingestion/*.go`, `validator/simd.go`, `backpressure/shedding.go` |
| `RequestQueue` | the queue, its counter, workers and shutdown | gateway `backpressure/queue.go` |
| `AdaptiveLimits` | the window of latencies and successes and both limits | gateway `backpressure/adaptive.go` |
| `ServiceDiscovery` | table of instances, polling client, watchers, router | gateway `discovery`, `routing` |
| `ShardCoordinator` | plans, edited copies, validation and installation of epochs | rebalancer `coordinator/coordinator.go` |
| `LoadDetector` | load reports, averages, flags, the distribution and its readers | rebalancer `detector/detector.go`, `grpc/server.go` |
| `HashRing`, `VirtualShards`, `MaglevTable` | the three tables of the hasher | rebalancer `hasher/hasher.go` |
| `Sorting` | what a sort leaves, for the ring's keys and the detector's loads | `hasher.go`, `detector.go` |
| `Autoscaler` | one service's instances: scaling loop, controller, ports, registry, monitors, cleanups, shutdown, processes | autoscaler `pkg/{autoscaler,scaler,controller,registry}` |
| `ScalingPolicy` | rounds over all services: engine, cascade rules, cooldowns | autoscaler `pkg/scaler`, `pkg/autoscaler` |
| `Backpressure` | levels, smoothing, reports, the decision on a request | autoscaler `pkg/backpressure` |
| `WatermarkStore` | what services report, what that makes of tables, violations | watermark-service `internal/store/store.go` |
| `WatermarkService` | the loops, handlers and streams around the store, and its lock | watermark-service `internal/{store,aggregator,api,grpc}`, `cmd` |
| `QueryPath` | a query from the cache over the hot tier to its answer | query-api `cmd/main.go`, `internal/cache` |
| `ControlPlane` | creation of namespaces and tables and the audit trail | control-plane `cmd/main.go`, `internal/audit` |
| `Gateway` | `CircuitBreaker`, `RateLimiter`, `GatewayRequests`, `RequestQueue`, `AdaptiveLimits`, `ServiceDiscovery` side by side | |
| `Rebalancer` | `ShardCoordinator`, `LoadDetector`, `HashRing`, `VirtualShards`, `MaglevTable` side by side | |
| `Autoscaling` | `Autoscaler`, `ScalingPolicy`, `Backpressure` side by side | |
| `ReadSide` | `HotTierRing`, `WatermarkStore`, `WatermarkService`, `QueryPath`, `ControlPlane` side by side | |
| `*Proofs` | theorems about the module of that name and, of the four above, about its components | |
| `MC*` | values for the constants, symmetry sets and one state constraint (of a counterexample) | |

`Gateway`, `Rebalancer`, `Autoscaling` and `ReadSide` put components that share
nothing but constants beside one another. A behaviour is one of the component it
starts with, its `subject`; the others rest, with their variables empty or
initial. A property of a part is the conjunction of those of its components;
what each conjunct says is written at its definition in the component's module.
One component's `Init`, `Next` and properties are used through an
`INSTANCE ... WITH` that names its constants, and the assumptions on those
constants are `ASSUME`d there (`GatewayAssumptions`, `RebalancerAssumption`,
`AutoscalingAssumption`, `ReadSideAssumption`). So TLC checks the union of the
components' own state graphs, not their product, and a counterexample is one of
the component's own specification.

A module that is checked for mutants also contains, next to each definition, the
operator that changes it the way a plausible bug would; they are marked
`mutant:` and nothing uses them.

### How state and actions correspond to the code

**IngestPipeline.** `log`, `committed` are Kafka's; an event is identified by
its `EventID`, a message by its offset. `consumer.pc` follows `consume` between
FetchMessage, the channel send and CommitMessages; `marked` is what
CommitMessages recorded and `FlushCommit` the client library's one-second
commit (`CommitInterval`). `wpc[w]` follows `worker` and `processBatch`:
`isDuplicate` is a `LookUp` and a separate `StoreKey`, since it is a `Load`
followed by a `Store`. A call lives in `calls` on its own, so that it can
outlive the worker that waits for it: the handler ignores its context.
`applied[e]` counts additions to the buffers since the hot tier last indexed the
event. `excused` and `misjudged` are history variables no action reads.
`Start` follows `NewKafkaConsumer`: from the committed offset or, if there is
none, from the end of the log (`StartOffset: LastOffset`).

As an `EventLedger` the pipeline owes an event while a goroutine or a call holds
an offset of it (`InFlight`) or the consumer has not read one or will read it
again (`Ahead`: behind the committed offset while the process is down). Producing
is `Send`, `WriteBuffers` is `Count`; a skipped duplicate, in the worker or in
`ApplyBatch`, is a `Discard` if it was the last copy, and the ledger allows that
only for an event that is counted or excused. Crash, shutdown, lost call, restart
and expiry are `Fail`; a start without a committed offset is one too. All other
steps move an offset from one hand to the next, which the ledger does not see.

**HotTierRing.** A write is named by the position it claims, which stands for
its timestamp and value, and a group's sum is the set of writes in it. The head
is advanced first (`Claim`), the tail is loaded and moved in two steps
(`LoadTail`, `SwapTail`), then the slot's plain fields change one at a time. A
reader copies the timestamp and the groups in two steps. Positions are unsigned
words, subtraction is modulo `WordSize`.

**CircuitBreaker.** `pc[c]` is the next atomic operation of caller c, `seen[c]`
the state it loaded. `cooled` abstracts the clock to "more than the timeout
since the last failure". The counters are kept up to the value from which every
comparison has the same result (`Saturated`). The handler asks `GetState` first
and never calls the breaker while it is open: `Arrive`.

**RateLimiter.** `job[p]` is where thread p is in TryConsume, Return, refill or
AllowWithLimit; `Ticker` is the thread of `refillLoop`. `clock` is the system
clock in ticks, `Second` of them to a second; token arithmetic is the code's,
integer division included. `backpressure` is the flag the gateway is started
with, which decides whether a request asks `Allow` or `AllowWithLimit` and then
`Allow`. `granted` and `overlapped` are history variables.

**ShardCoordinator.** An operator is any goroutine that calls the exported
methods: it makes a plan, later executes it, and the plan may be stale by then.
The service as it is wired today only simulates these calls from its API
(`rebalancer/internal/api/handler.go`, `internal/grpc/server.go`) and its
`rebalanceWorker` only logs, so what is shown is about the coordinator's methods
as the comments offer them. An epoch has a number, the live shards, each one's
list of virtual shards and the map from virtual to physical shards. The history
variable `outdated` remembers whose plan, or whose copy of the epoch, was made
before another operator's installation.

**Autoscaler.** The controller's mutex covers its operations, which are single
steps but for StopInstance, which holds the mutex while it waits for the
process (`SignalStop`, then `ProcessStopped` or `KillFails`); `mu` says who is
inside. `MonitorTick` reads the process state before the mutex is taken,
`MonitorRemoves` acts after. `LastHealthCheck` is abstracted to what `RegistryCleanup` may find stale:
every record but those just updated, and certainly those never updated. Metrics may
have any reading, so `ScaleOut` and `ScaleIn` are enabled by the counts only.
`GetByService` returns a map's elements in any order: `ApplyDecisions` chooses
any victims. A process is alive before it is serving, because the port is bound
by the service itself some time after it was allocated.

**ScalingPolicy.** `live` and `dead` count a service's records, those that run
and those that are stopped, failed or stale. A round is `EvaluateAll` (one
decision per service outside its cooldown, each from a free reading),
`EvaluateCascades` (from the sizes at that moment) and the application of the
decisions one by one; between any two of these instances die, come back or fail
to start. `resting` are services in their cooldown, `delayed` rules in theirs.

**Backpressure.** `levelHistory` is the smoothing window. The evaluation and the
setting of the level are one step, as no one else writes them; the callback is a
goroutine of its own in `callbacks`. A request asks for the current level again
for each of its decisions.

**GatewayRequests.** `step[r]` follows the handler of request r, `batch` the
objects it holds, `content[o]` whose fields object o has, `reading` the objects
validating goroutines still look at after the wait for them was over, and
`buffer` whose bytes a request context holds. The body's objects are taken
at once and go back on each of the four ways out.

**RequestQueue.** Every channel operation and every change of the counter is a
step. A request's context ends by time-out or, as in the code, by the deferred
cancel of `Enqueue`: `over` is both, `expired` only the first.

**AdaptiveLimits.** A slot holds the last latency and a count, written by two
calls of a handler, read by the ticker. Rates are tenths, so that the integer
conversions of the code are kept.

**ServiceDiscovery.** `polling` is the client between its answer from the
registry and the last change of the table; `sender` and `cleaner` are the two
goroutines of a watch. A second close or a send on a closed channel sets
`panicked`, after which nothing happens.

**LoadDetector.** A report is a step under the detector's lock, an analysis one
under its read lock; the alert of a stream reads the load again in a later step.

**HashRing, VirtualShards, MaglevTable.** Every method of the first two is a
step; the hashes of a shard's points are free, so that points may coincide. The
sort is given by the place each element comes to (`Sorting`), the search by the
bisection of `sort.Search`. A plan's shares are what the loop over the sorted
shards leaves after each of them (`Left`), and `Targets` gives out the rest round
after round. The order of a Go map is any of `Orders`. `Remainder` is the only
thing the shuffle takes from its hash.
A step of `MaglevTable` is one try of a slot by the backend whose turn it is.

**WatermarkStore.** Every operation is one step under the lock. Time is reduced
to whether a service's last update is older than the cleanup's age.
`outdated` is a history variable: tables an operation leaves for the next
update, because the code rebuilds only the table named in a report.

**WatermarkService.** `announced` and `holds` are Go's `RWMutex`: a writer
announces itself, which stops new readers, then waits for those inside. `version` stands for the store's
content. A thread of the service is where `pc` says; a stream's channel is
`queue`, its registration `streamClients`.

**QueryPath.** Everything that ages carries its age: a cached answer in `cache`,
the answer in hand, the time a call has taken. Time does not pass a timeout
that is due.

**ControlPlane.** A statement is one transaction; it may fail, be refused by a
unique constraint, or be committed although its handler sees an error. A crash
loses the handlers and keeps `rows` and `audits`.

## 3. What is checked

Bounds are named constants; counters of faults, crashes, expiries and starts are
capped in the guards. Deadlock checking is off, because every bounded run really
ends (everything sent, requests answered, coordinators out of epochs, autoscaler
exited); what must not stop is a liveness property or, for the store's lock,
`LocksRight`.

| Run | Asks | Properties |
|---|---|---|
| `MCIngestFaults` | 2 workers, 3 messages of 2 events, one fault, one shutdown with restart | `TypeOK`, `NoDoubleCount`, `LossExplained`, `CommitFollowsHandOver`, `LedgerSpec` |
| `MCIngestLive` | 2 messages, one fault, one shutdown, one entry of either index forgotten: does every event arrive or have an excuse? | `EventuallyApplied` |
| `MCReadSide` | the ring with one writer, six writes into two slots and a query; the store with two services and two tables; the service's lock with two callers and two streams; two queries of two requests; three creations in two namespaces | `AllTypes`, `SlotsRight`, `ReadsRight`, `WindowSpec`, `WatermarksAgree`, `NeverBack`, `LocksRight`, `AnswersRight`, `WritesRecorded` |
| `MCGateway` | three requests race through the breaker; two requests and the ticker at the limiter, with and without backpressure; two handlers with three pooled objects; three requests in the queue; the adaptive window; two instances with a watcher and a router | `AllTypes`, `NothingOverdue`, `LegalTransitions`, `BucketsSound`, `LimitsRestored`, `SendsItsOwn`, `QueueCounted`, `DiscoveryFollows` |
| `MCRebalancer` | two operators, stale plans and copies, splits in two and three; five reports of three shards; three shards with two points on four hashes; three virtual shards on two; three backends on five slots | `AllTypes`, `EpochValid`, `KeepsAssigned`, `AtomicTransitions`, `SharesRight`, `TablesServe`, `MinimalMove` |
| `MCAutoscaling` | three starts, a crash, three ports, every goroutine, shutdown; rounds of two services with a rule; levels of a window of three | `AllTypes`, `NothingLeaks`, `NoPanic`, `OutNeverStops`, `LevelSmoothed` |
| `MCScalerLive` | two starts, two ports, a crash: is a dead process noticed? Three services and the two rules of the default chain: are they followed? | `DeadForgotten`, `CascadesSettle` |

The other five runs are the counterexamples of
[section 5](#5-disagreements-between-the-code-and-its-text).

Several properties say exactly how far a promise of the code goes.
`LegalTransitions` blames every unintended change of the circuit on a caller
that was overtaken, `KeepsAssigned` and `AtomicTransitions` every lost virtual
shard on an outdated plan or copy, `LimitsRestored` every wrong limit on two
overlapping requests, `NoPanic` every second close of a channel on a crashed
process, `LocksRight` every lock nobody gets on a readiness check between its
two read locks, `WatermarksAgree` every old figure on a service that reports for
two tables or a new objective, `WritesRecorded` every missing audit entry on a
failure of that entry's own statement. Whoever repairs one of these can drop the
exception and check again.

*Why the bounds are enough to be interesting.* Three messages of two events give
a duplicate in every position relative to another event; two workers give every
race on the index; `BatchCap` 2 has both full and ticker-flushed batches; one
fault is enough for each of crash, loss, timeout and restart, and a crash is
followed by redelivery. Six writes on two slots go round three times, so that a
slot is reused after having been reused; a reader can be interrupted in every
step. Four failures are the smallest threshold for which the closing threshold
`maxRequests/2` is positive, and three callers are needed for two probes and a
late success. Two ticks to the second make elapsed times that are worth less
than a token of the global bucket; the temporary limit 3 is above the tenant's
2, so that a limit left behind pays out too much. Three pooled objects for two
requests mean that one is always reused. Three requests of four priorities fill
every channel (capacity 1) and reach the counter's maximum of 2. Five virtual
shards in two shards leave a remainder when split in two or three, and four
epochs allow a merge, a split of the merged shard and a transition that is late.
Three shards with two points each on four hashes must collide. Five slots are a
prime larger than the number of backends; every offset and skip is tried. Three
starts with a maximum of two exhaust the records and leave a port too many, so
that the maximum is not kept by the allocator. `MCAutoscaling` counts up to two
dead records of two services, which is where decisions go wrong; `MCScalerLive`
needs the whole chain of three services and has none. In a window of three
levels a majority, a tie and a peak differ. Two event times on both sides of the
processing time have a service that is behind and one that is ahead of it.
The time to live of a cached answer is two, of a call one, so that an entry
outlives a call and expires during another.

*Fairness.* `IngestPipeline`: weak fairness of the consumer, of each worker, of
the hot tier's handlers and of closing the consumer once the workers are done
(goroutines run; the ticker of a worker fires every 100 ms, and Go's `select`
chooses fairly); none for producing, starting, stopping, faults, expiry or the
commit timer. `CircuitBreaker`: callers keep coming and finish, the mutex is
handed over (Go's mutex is starvation-free, hence strong fairness of
`ResetCounters`), time passes. `Autoscaler`: StopInstance ends because a
process is killed when its time is over; monitors tick, and the mutex and the
30-second cleanup come round (strong fairness: the mutex is free again and
again, not for ever). Load, crashes and shutdown are never assumed.
`ScalingPolicy`: the ticker's rounds begin and end, every decision is applied
and delays pass (weak fairness); that nothing else changes is the antecedent of
`CascadesSettle`, not an assumption. `WatermarkService`: collections and loops
end, an announced writer writes when the readers are gone (weak), and Go's
`RWMutex` lets everybody in who keeps asking (strong fairness of announcing and
of reading). In `FairAutoscalingSpec` the fairness of a component that rests
asks for nothing, since none of its actions can be taken. Liveness is checked
without symmetry reduction.

## 4. What is proved

By TLAPS, for every value of the constants that satisfies the named assumptions.
A theorem about a component is one about the component's own specification. A
theorem about `Gateway`, `Rebalancer`, `Autoscaling` or `ReadSide` states the
property that a run of its `MC` module checks. Every safety property of every
passing run, invariant or action property, is a theorem, and so are both
refinements; only the three liveness properties are not.

| Theorem | States | Argument |
|---|---|---|
| `IngestPipelineProofs!TypeCorrect` | `TypeOK` | by groups of actions (consumer, worker, hot tier, faults, bounds), each with its frame lemma |
| `CountedOnce` | `NoDoubleCount` | `AppliedOnce`: a call about to write an event is the only one that is, has it in the index, and finds it not yet in the buffers. That is what `LoadOrStore` gives and a `Load` with a later `Store` would not |
| `CommittedBehind` | `CommitFollowsHandOver` | `OffsetsBehind`: the marked offset, not only the committed one, is behind the hand-over, and both are reset with the process |
| `LossesExplained` | `LossExplained` | `Accounted`: every event the consumer has read is in the channel, a batch, a call or the buffers, or will be read again, or a failure accounts for it; and what each of the two indexes has of it agrees with where it is |
| `PipelineImplementsLedger` | `LedgerSpec` | the refinement action by action, on `Accounted`: which offset a step lets go of (`SameOwed`, `LessOwed`), and that its event, if that was the last copy, is settled (`DropStep`); a failure excuses what it loses (`FailStep`) |
| `HotTierRingProofs!TypeCorrect`, `CountedOnce` | `TypeOK`, `QueryCountsOnce`, any number of writers | `InPlace`: whatever is in a slot or a copy of it was written by positions that belong there, and the positions a query reads are in different slots |
| `SlotsCorrect` | `SlotsRight`, one writer | `RingInOrder`: where the tail is and what the slot being written holds at every step of `Write` (`TailFollows`, `SlotFollows`) |
| `RingImplementsWindow` | `WindowSpec`, one writer | the refinement step by step: finishing a write is `Publish`, moving the tail is `Evict`, all else is a stutter |
| `ReadsCorrect` | `ReadsRight`, one writer | `Recent` on top of `InPlace`: which data of a slot a query may copy, however long it takes between its two copies |
| `CircuitBreakerProofs!TypeCorrect` | `TypeOK` | inductive as it stands |
| `NoDecisionLost` | `NothingOverdue` | `NothingOverdue` says nothing while somebody is recording. `DecisionPending` does: whoever's `Add` reached the threshold is on its way to `transitionTo`, and leaves only by resetting that counter |
| `TransitionsLegal`, `GatewayBreaks` | `LegalTransitions` | `TargetFollows`: the state a caller is about to store goes with the state it loaded |
| `RateLimiterProofs!TypeCorrect` | `TypeOK`: no bucket is overdrawn | with a bound on what each thread is about to store |
| `BucketsAlwaysSound`, `GatewayKeepsRates` | `BucketsSound` | `Balanced`, the account kept at every step: tokens in the bucket, those taken by requests under way, those a refill has earned and not put in, and those paid for the requests let through |
| `LimitsAlwaysRestored`, `GatewayRestoresLimits` | `LimitsRestored` | `OneCustom`: unless two have overlapped, the limit is another than the tenant's only while its one caller is on its way |
| `GatewayProofs!DiscoveryFollowed`, `GatewayFollows` | `DiscoveryFollows` | `Removed`: a watcher whose channel is about to be closed is out of the table for good; `SyncedSoFar`: what the poll has dealt with is as the registry answered |
| `RequestsSendTheirOwn`, `GatewaySendsTheirOwn` | `SendsItsOwn` | `ObjectsOwned`: an object is in the pool or one request's, and those in the pool are empty |
| `CounterExact`, `GatewayCountsExactly` | `QueueCounted` | `InLine`, `Placed`, `Exact`: a request is in one place only, and the counter is the number of those that are in any |
| `GatewayTyped` | `AllTypes` | each part's types on their own: handlers with `ObjectsOwned`, the queue with `InLine`, limits because a step up stops at the maximum and a step down at the minimum |
| `RebalancerProofs!EpochsValid`, `RebalancerEpochs` | `EpochValid` | `Validated`: an epoch somebody is about to install has passed `validateEpoch` and no step changes it in between; the start-up epoch passes too |
| `TypeCorrect` | `TypeOK` of the coordinator | plans and edited copies as records of their kind |
| `TransitionsAtomic`, `AssignmentsKept`, `Rebalancer...` | `AtomicTransitions`, `KeepsAssigned` | `FreshInv`: the plan and the copy of an operator that is not outdated are of the current epoch; `PiecesCover`: the pieces of a split are what is split |
| `RingOwned`, `RingMoves`, `RebalancerMovesLittle` | `OwnersAreMembers`, `MinimalMove` | `RingInv`: the searched list is sorted (`SortedRight`) and holds just the points of the map. `Bisection`: the search finds the first index that qualifies. So the owner is that of the first point round the ring (`Lookup`), a matter of the set of points alone |
| `TableFills`, `RebalancerServes` | `FillsInTime`, `TablesServe` | `Walked`: a backend has looked at one slot a turn, and what it has looked at is taken. `PrimeSteps`, `AllReached`: modulo a prime the multiples of a skip are all slots |
| `DistributionsRight` | `DistributionRight` | the loads in ascending order (`SortingOrder`), added one by one: the next largest adds its gaps to all before it (`GapsToLargest`, `GapsAddUp`), which is the code's weighted sum; and the least load is not above the mean (`MeanBetween`), so that not all shards are hot |
| `PlansRight`, `RebalancerShares` | `SharesFollowLoad`, `SharesRight` | what is given out and what is left is the whole (`ServedSum`); a less loaded shard comes earlier, asks for no less and gets no less of the rest. The table laid out from the targets has each shard as often as it should (`LaidRight`), and every swap of the shuffle keeps that (`SwapKeeps`, `ShuffleKeeps`) |
| `RebalancerTyped` | `AllTypes` | the invariants above and `DetectorInv`: the shards an alert's reader has seen as hot have reported |
| `AutoscalingProofs!TypeCorrect`, `AutoscalingTyped` | `TypeOK` of the scaler, `AllTypes` | inductive, in groups of goroutines |
| `NothingLeaksEver`, `AutoscalingLeaksNothing` | `NothingLeaks` | `Tracked`: a process that exists is a managed instance's, and one that a monitor saw dead (`LockedAreDead`) stays dead until the monitor removes it without looking again |
| `NoDoubleClose` | `NoPanic` | `ClosedOnceIn`: of an instance still in the table only who is inside StopInstance has closed the channel |
| `ScalingOutAdds`, `AutoscalingNeverStops` | `OutNeverStops` | `DecisionsSound`: a decision not yet applied is within the limits and, if to scale out, above the number of the service's records, running or dead, which no death and no revival changes |
| `LevelAlwaysSmoothed`, `AutoscalingSmooths` | `LevelSmoothed` | `Levelled`: the level is a most frequent one of the window as it is |
| `ReadSideProofs!WatermarksAlwaysAgree`, `ReadSideAgrees` | `WatermarksAgree` | `MinimumBehind` and what the sorted list of a table's services has at its ends (`FirstIsSmallest`) |
| `OrderStatistics` | a lemma about `KthSmallest` | for any finite set of services the figure is one of theirs, with at most k below it and more than k up to it, and the only such one |
| `ReadSideTyped` | `AllTypes` | the ring's, the store's (every figure of a table is one of its services', by `OrderStatistics`), the lock's, the query's and the control plane's types |
| `MinimaNeverBack`, `ReadSideNeverBack` | `NeverBack` | the least of a set does not sink when no element does |
| `LocksAlwaysRight`, `ReadSideLocks` | `LocksRight` | `LocksHeld`: who holds the lock, by where its thread is; `EntriesOpen`: a registered stream's channel is open |
| `AnswersAlwaysRight`, `ReadSideAnswers` | `AnswersRight` | `OwnQuery`; `AgesBounded`: an entry that ages has less to live |
| `WritesAlwaysRecorded`, `ReadSideRecords` | `WritesRecorded` | `RowsRight`: a row is its request's, and a name has one; `AnswersTold`: 201 is told only with a row, after the entry was tried |

The theorems about `Gateway` and its like use that a behaviour never changes its
`subject`, and that a part which is not the subject takes no step.

*Assumptions.* Those of the modules, on constants, which TLC evaluates in the
runs: capacities, limits and thresholds are natural numbers and positive where
the code divides by them or needs one (`MaxFailures >= 4`, so that the half of
it is positive; configured minima do not exceed maxima); the sets of requests or
callers whose members are counted are finite; a Maglev table's size is a prime,
which `nextPrime` provides; the start-up assignment gives every virtual shard to
one shard. "One writer" is a hypothesis of three theorems about the ring and the
words of the code's comment ("single writer"); with more the conclusion of
`SlotsCorrect` fails, which is the run `MCRingConcurrentWriters`. Hypotheses
that the code does not keep are not assumptions but parts of the property
(section 3: overlapping requests, outdated plans, crashed processes).

`NoDoubleCount` is a statement about one hot-tier node while it remembers the
event; a restart of the node or the expiry of the entry resets `applied`.

*Method.* The provers have no induction over data, and many of these arguments
are inductions: the bisection, the multiples of a skip, sums over a set, a sort,
a shuffle of any length. They are made from a least counterexample, which exists
because the order of the natural numbers is well-founded (`LeastOfNaturals`): the
first prefix of a list, or a smallest subset, for which a claim fails. `SumOf` is
the sum as the community module defines it, a `CHOOSE` of a function that solves
an equation on subsets; `SomeSolution` shows that there is one, `OneSolution`
that there is one only, and `SumWith`, `SumWithout` that the order of adding does
not matter. `Repetition` does the same for a recursive function over `0..n`,
which is what the shuffle and the layout of the table are.

*Only model-checked.* `EventuallyApplied`, `DeadForgotten` and `CascadesSettle`:
liveness under fairness and ENABLED are out of the prover's reach. So are the
counterexamples of section 5.

## 5. Disagreements between the code and its text

Five are runs that end with a counterexample; `findings` in `PROJECT.json`
quotes the lines.

| Run | Property | Behaviour |
|---|---|---|
| `MCIngestMisjudged` | `DuplicatesWereSeen` | after a failed write later copies of an event are dropped as duplicates of nothing |
| `MCRingConcurrentWriters` | `SlotsNotMixed` | a "single writer" ring is written by concurrent handlers; a slot mixes two laps. The run only looks at writers less than a lap apart |
| `MCBreakerStuckOpen` | `OpenRecovers` | an open circuit stays open: the handler never asks it again |
| `MCScalerPorts` | `PortsDistinct` | a port released twice is given to two instances |
| `MCWatermarkDeadlock` | `ReadyAnswered` | a readiness check takes a read lock inside a read lock; with a writer between the two nobody gets the lock again |

The modules state further promises of the code and its comments that the models
do not keep. They are not part of a run. To see a counterexample, put the
property in the place of those of the configuration; where it belongs to an
instance (`Store!...`), define beside `AllTypes` that it holds when its
component is the `subject`.

| Property | Configuration | Behaviour |
|---|---|---|
| `HotTierRing!CopiesAreSnapshots` | `MCReadSide` | `copySlot` "creates a snapshot copy" (lockfree.go:292), which can have one write's timestamp and another's sum; `CopiesAreRecent` bounds how far they are apart |
| `HotTierRing!NoMapConflict` | `MCReadSide` | a map is ranged over while a key is inserted (lockfree.go:131, 300) |
| `WatermarkStore!ViolationsHaveServices` | `MCReadSide` | a table whose services have gone keeps its violation (store.go:198) |
| `WatermarkStore!WorstServiceCounts` | `MCReadSide`, `ProcessingTimes` {4} | of two services the worse never counts in the 99th percentile (store.go:481) |
| `WatermarkService!OpenAreRegistered` | `MCReadSide` | two streams of one nanosecond share an entry (server.go:132) |
| `QueryPath!WatermarkCovered` | `MCReadSide` | an answer is said to be newer than what it was computed from (aggregator.go:212) |
| `QueryPath!CacheMovesOn` | the module alone, constants of `MCReadSide` | a slow request replaces a cached answer by an older one (main.go:130) |
| `QueryPath!NothingCut` | `MCReadSide` | a shutdown cuts off requests that may still take their timeouts |
| `ControlPlane!ErrorsChangeNothing`, `RowsAudited` | `MCReadSide` | a row whose statement reported an error is there, and has no audit entry |
| `CircuitBreaker!ReopenedStaysOpen` | `MCGateway` | a probe's success closes what another's failure has opened (breaker.go:108, 132) |
| `CircuitBreaker!ProbesBounded` | `MCGateway` | more probes than `maxRequests` (breaker.go:22, 83) |
| `RateLimiter!AlwaysRestored` | `MCGateway` | overlapping requests restore a temporary limit (hierarchical.go:264) |
| `GatewayRequests!RefusedNotPublished` | `MCGateway` | a request answered 503 by the producer is in the log |
| `GatewayRequests!NoMapConflict` | `MCGateway` | objects are emptied while a validating goroutine reads their maps (simd.go:106) |
| `GatewayRequests!OneBucket` | the module alone, three requests | the key of a tenant's bucket is overwritten, and the tenant gets a second one (hierarchical.go:137) |
| `GatewayRequests!ShedsAboveTarget` | `MCGateway` | a load in percent is compared with a fraction (shedding.go:145) |
| `RequestQueue!SizeRespected` | `MCGateway` | the counter is read before it is increased (queue.go:75, 86) |
| `RequestQueue!WaitersProcessed` | `MCGateway` | `Enqueue` cancels the context of what it has just queued (queue.go:83) |
| `RequestQueue!CriticalQueued` | `MCGateway` | a critical request matches no case and is refused (queue.go:150) |
| `RequestQueue!DrainedAnswered` | `MCGateway` | a request may enter after the shutdown has drained the channels |
| `AdaptiveLimits!FailuresNoticed`, `ShrinksForCause` | the module alone, constants of `MCGateway` | a count is taken for a rate (adaptive.go:109); shed requests count as failures (handler_backpressure.go:97) |
| `ServiceDiscovery!NoPanic` | `MCGateway` | two goroutines and `Close` close one channel (discovery.go:233) |
| `ServiceDiscovery!CircuitCloses` | the module alone, with strong fairness of the router's actions | an instance's circuit never closes again (router.go:57) |
| `ShardCoordinator!AllAssigned` | `MCRebalancer` | two plans with the same new shard numbers lose virtual shards that `validateEpoch` means to check (coordinator.go:469) |
| `LoadDetector!SteadyIsSustained` | `MCRebalancer` | "consistently hot" needs a dip (detector.go:373) |
| `LoadDetector!AlertAboveThreshold` | `MCRebalancer` | an alert's load is read after its distribution (server.go:122) |
| `HashRing!MembersHavePoints` | `MCRebalancer` | a removed shard takes a shared point with it (hasher.go:317) |
| `VirtualShards!ShuffleFinishes` | four virtual shards, `Remainder` <<0, 0, -2>>, which is what the code's hash gives | the hash as an `int` is negative, and so is the index (hasher.go:266) |
| `MaglevTable!Balanced` | `MCRebalancer` | a backend that finds a slot taken loses its turn (hasher.go:444) |
| `Autoscaler!MaxRespected` | `MCAutoscaling` | instances whose records have gone stale are replaced past the maximum (controller.go:269) |
| `Autoscaler!AtMaxIsReal` | `MCAutoscaling` | records of stopped instances count against the maximum (memory.go:313, engine.go:176) |
| `Autoscaler!TerminalIsFinal` | `MCAutoscaling` | the start-up timer revives a stopped or failed record (controller.go:143) |
| `Autoscaler!ClosedOnce` | `MCAutoscaling` | after a crash a failed stop leads to a second close of a channel (controller.go:169) |
| `Autoscaler!StopsNewest` | `MCAutoscaling` | "newest first" is any order (controller.go:295) |
| `ScalingPolicy!ScaleInStops`, `MaxHeld` | `MCAutoscaling` | a target is computed from the records of the dead too (engine.go:160) |
| `ScalingPolicy!CooldownHeld` | `MCAutoscaling` | cascade rules do not ask for the cooldown |
| `ScalingPolicy!CascadesGrow` | `MCAutoscaling` | a rule stops instances its target's load wants (autoscaler.go:82) |
| `Backpressure!ReportsInOrder` | `MCAutoscaling` | each report has a goroutine, and the last may be an old one (coordinator.go:226) |
| `Backpressure!GatewayNoticed` | the module alone, three services, maximum 4 | a gateway at its maximum makes no level (coordinator.go:249) |

## 6. What is not modelled and why

- **Generated code**: fifteen thousand lines made by `protoc` (`*.pb.go`), two
  fifths of the repository's Go: getters and descriptors without behaviour of this
  program's own.
- **Data**: event contents, aggregation arithmetic, sketches (Write creates them
  and never adds to them), the checks of bytes in the validator, parsing, query
  planning: functions of their input, no interaction.
- **Snapshots** of the hot tier: `createSnapshot` writes no data yet; a restart
  is a restart from empty.
- **Gateway watermark tracker**: called from nowhere in the program, and its
  figures are those of `WatermarkStore`. Routing, discovery, the request queue
  and the rebalancer's hasher have no caller in a service either (the queue is
  entered only when a hundred requests are in it); they are
  modelled as the methods a caller would find.
- **Autoscaler**: `LoadConfig` reads neither the option for cascading nor that
  for backpressure, so both stay off in the service as it is; they are modelled
  as if switched on. The collectors are I/O whose readings are free, the
  health checker is never started. The 30-second limit of `Stop` is modelled as
  the end "aborted", which `NoOrphans` excludes.
- **Several hot-tier nodes**: the ingester sends batches to its nodes in turn
  and each node has its own index; the model has the one node of the default
  configuration, and so has `QueryPath`.
- **Rebalancer**: key migration only counts progress, salts of hot keys are kept
  and never used.
- **Control plane**: reads are single queries; its cache and its optimized pool
  have no caller.
- **Metrics, monitor, load test**: counters and read-only tools.
- In `RateLimiter`, token products are unbounded integers; the code's `int64`
  product overflows only after hours without a refill.

## 7. Plan

The path of an event, the gateway, the control loops and the reading side are
modelled, and what the runs check of their safety is proved. What is left:

1. Abstract specifications still to state: a token budget, implemented by
   `RateLimiter`; a set of rows with their log, implemented by `ControlPlane`.
2. Several hot-tier nodes, each with an index of its own, behind one ingester.
