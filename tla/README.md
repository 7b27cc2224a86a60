# A TLA+ verification of hier-kv-gateway

hier-kv-gateway is a routing gateway in front of LLM inference backends. It
keeps an index of which backend holds which KV-cache blocks, ranks backends per
request, forwards behind circuit breakers, shares the work of identical
requests, and exchanges membership and a compact form of the KV index (cuckoo
filters) with the gateways of other Regions. This directory models the parts of
it whose correctness depends on concurrency, failure and ordering, checks them
with TLC on small instances, and proves the main safety results with TLAPS for
every value of the constants.

`PROJECT.json` maps each definition to the source lines it stands for, and
lists the runs, the properties, the hazards they are for, the mutants that show
each property can fail, the findings and the theorems. In this file `crates/`
stands for `src/crates/` and the common prefix `hier-kv-gateway-` is left out.

## 1. The system

| Part | State | Operations | Interacts with | Hard behaviour | What makes it correct |
|---|---|---|---|---|---|
| Request pipeline (`api/handlers.rs`) | locals of each handler | receive, route, gate, back off, forward, stream, reply, emit a decision event | routing engine, breakers, connectors, coalescer | handlers run concurrently and are dropped when the client leaves | each request walks its ranking in order, reports one truthful event, replies what happened, and comes to a reply or a stream |
| Circuit breakers (`connector/resilience.rs`) | a state machine per backend | allow, on_success, on_failure, reset | pipeline | late outcomes of concurrent requests; thresholds of zero | counters match outcomes; transitions are earned; an open circuit can be probed again |
| Request coalescing (`api/coalescer.rs`) | map key → shared future, statistics | coalesce, delayed clean-up | pipeline | leader dropped, clean-up racing a new leader, map at capacity | one flight per key, nobody's entry removed by another, waiters answered |
| CKF producer (`metadata/ckf_producer.rs`, `cuckoo_filter.rs`) | buckets, refcounts, owner sets, dirty set | Stored, Removed, Clear, Reset, snapshot, delta | relay | eviction chains and roll-back, shared fingerprints | tables agree; fingerprints match owners; every change is marked dirty |
| CKF relay (`cluster/ckf_relay.rs`) and bridge (`cluster_bridge.rs`) | producers, sequence numbers, pending counter; receiver's lane | apply_event, flush, publish_barrier, timer; install, apply | gossip broadcast | flushes race events; messages lost and reordered | no change is stranded; an aligned lane equals its source |
| CKF consumer (`metadata/ckf_consumer.rs`) | lanes of atomics, status, binding | assign, retire, snapshot, delta, estimate_overlap | bridge, routing | lock-free reads while buckets are stored | an answer counts only what the lane held meanwhile |
| Gossip membership (`cluster/gossip.rs`, `member.rs`, `tcp_transport.rs`) | member list per instance | start, stop, meet, ping, pong, probe | transport, bridge | loss, reordering, crash and restart, probe racing a heartbeat | suspicion is earned; failures are detected; pingers are revived |
| Routing engine (`routing/engine.rs`, `prefix_history.rs`, `degradation.rs`) | prefix history, round-robin cursor; affinity in the store | route, route_candidates | strategies, metadata store | affinity read, awaited over, written back while backends come and go | ranking without repeats, only of backends that were registered; errors only when no other backend offers what is asked |
| Routing strategies (`routing/*.rs`) and KV size estimates (`kv-estimate`) | none | evaluate, estimate_kv, has_capacity | metadata store | two kinds of infinity, stale metrics, plugins that fail | every candidate gets a score; exclusions exclude |
| Metadata store (`metadata/store.rs`, `model_registry.rs`, `load_stats.rs`, `topology_graph.rs`) | backends, by_region, by_domain, models, sessions, loads, latencies | register, unregister, update, session_set, evict | routing, discovery, bridge | four maps updated one by one | reverse indices agree with the backends |
| Local KV index (`metadata/kv_index.rs`, `local_ckf.rs`, `radix_tree.rs`) | lanes of atomics, a tree owned by a worker task | kv_apply_event, kv_remove_backend, queries | routing | lane captured before an await; lanes given back map by map; the worker stops | no lane serves two backends; a lane loses no block of the tree |
| Tenant scheduler (`routing/tenant_scheduler.rs`) | token buckets, in-flight counts, capacity view | check_admission, record start and end, update_capacity | not wired in | clock read before the lock, check then act | the rate limit holds over every window |
| Adaptive weights (`routing/adaptive.rs`) | averages, current weights | record, effective_weights | routing, pipeline | several callers compute and publish at once | weights sum to one, stay above the floor and within the adjustment |
| Shared state (`cluster/shared_state.rs`) | instances, sessions, locks with expiry; local maps or Redis | get, set, heartbeat, try_lock, unlock | not wired in | expiry racing refresh, stalled calls, lost answers, times cut to seconds | a lock has one holder |
| Metadata sync (`cluster_bridge.rs`, `gossip.rs`) | version counters; the store | broadcasts, sync request and response | gossip, metadata store | messages lost, repeated, reordered | metrics of one Region never end up under another |
| Connectors (`connector/*.rs`) and discovery (`main.rs`) | registry of connectors, per-stream parser state | from_configs, discover, collect_metrics, forward, poll | pipeline, metadata store | bytes and characters cut anywhere, connections that break or end early | decoded text handed on once and in order; streams end |
| Telemetry, configuration, HTTP routes, Python client | – | – | – | formatting and I/O | – |

The hazards of each part, at their lines, are under `hazards` in
`PROJECT.json`.

## 2. The modules

**CircuitBreaker.tla** – one variable holds each backend's `BreakerState`.
`Allow`, `OnSuccess`, `OnFailure` and `Reset` each hold the breaker's mutex once
in the code and are one step. Time is `Tick`; the elapsed time saturates at the
cooldown, since it is only compared with it. The history variable `streak`
counts the failures since the last success.

**Forwarding.tla** *(composes CircuitBreaker)* – the handlers as concurrent
processes that share the breakers. A step ends where the code awaits or takes a
breaker's lock. `GateSkips`/`GateAdmits` are `forward_with_retries`' question
to the breaker, `BackoffEnds` the sleep, `ConnectorMissing`, `ForwardSucceeds`
and `ForwardFails` the attempt, `Exhausted` the end of the ranking.
`Disconnect` drops the handler at any await. Routing may return any ranking of
distinct backends: this covers the feedback of affinity and adaptive weights.
A slot of `Requests` serves one request after another, so the breakers see an
unbounded history.

**SingleFlight.tla, Coalescer.tla** – the first is the contract of coalescing
(join or start the key's flight, a flight lands once, answers come from the
flight one holds a ticket for). The second is the code: the capacity check and
the entry lookup are two map operations, hence two steps; a flight progresses
only while a live request polls a clone of it; `Disconnect` drops a handler with
the clean-up it would have scheduled. `Contract` instantiates the first with the
refinement mapping, and `ImplementsSingleFlight` says that every behaviour of
the code is one of the contract.

**CuckooFilter.tla, CkfProducer.tla** – the filter and the producer's methods as
operators on a record, then the producer as a state machine. Buckets are
multisets: the slot position of a fingerprint is never observed. The slot that
an eviction picks comes from a pseudo-random generator and is a choice, so an
insertion has a set of results. The hash functions are constants with the
properties the code gives them (the alternate of the alternate is the bucket
itself).

**CkfRelay.tla** *(composes CuckooFilter's producers)* – ingestion tasks and the
background task share the counter `pending_count`; each atomic operation and
each map-entry lock is a step. Broadcasts run in tasks of their own: messages
form a set from which any is delivered or lost. The receiving gateway's lane
is part of the module. History: the image at each publication, and the run of
unbroken sequence numbers the lane has followed, and `fenced`: the pools that were
reset since their last barrier. `ChangesGetPublished` compares a pool's buckets
with what was published last, and excepts those of `fenced`: a reset is never
published by a flush.

**CkfConsumer.tla** – one writer storing a snapshot or delta bucket by bucket,
in any order (the stores of a snapshot are relaxed), and a reader probing one
hash at a time.

**Gossip.tla** – any number of instances with their member lists. The probe
loop decides on a clone of the list (`ProbeScan`) and marks later, one member
at a time (`ProbeMark`), with messages handled in between. `Stop` is an orderly
stop and a crash alike: the list is lost. The transport opens a connection per
message, so the network is a bag with loss and no order; a message to an
instance that is down is not sent. Ages are relative to each instance's own
clock and saturate above the larger timeout. Metadata digests are left out:
nothing reads them.

**MetadataStore.tla, KvEstimate.tla, Strategies.tla, Routing.tla** – the first
is the store's state and its operations. Registration and its undoing write one
map per step, because each map has a lock of its own. The second and third are
pure: the size formulas and the catalogue's lookup, and each strategy as a
function from candidates to scores. Scores are fixed-point numbers (`One` is
1.0); `f64::MAX` and `f64::INFINITY` stay apart (`FMax`, `Inf`) because the
ensemble's normalisation treats them differently. The last composes the three:
`Lookup`, `Pin`, `Collect`, `Decide` and `Remember` are the stretches of
`route_candidates` between its awaits, for any number of requests at once.
Softmax sampling may give any order. `seen` is history: what was registered, or
in the middle of a registration call, when the candidates were collected, and
which backends offered what the request asks for from then until the scoring.
`ErrorsAreExplained` is about these: an error means that there were none, but for
the session's own. What a backend offers (`Fits`: an instance of the model with room
for the prompt and the tools) is stated without the strategies, which have to
come to the same result.
`RankingContract` is the assumption *Forwarding* makes of a ranking.

**LocalIndex.tla** *(uses CuckooFilter)* – lane assignment, `kv_apply_event` as
"take a lane, await the tree, write the lane taken", and the two forms of
`kv_remove_backend`, whose store variant drops a clone of the tree's handle and
so stops the worker. The tree is the set of paths each backend owns. `gaps`
is history: the backends whose lane has lost track of the tree, with the reason
at each place where one is added. `LaneMisses` is the query's probe, of the primary
bucket alone. `MissesAreDisplaced` says what that leaves: what a query misses
although the tree has it was displaced to its alternate bucket. It does happen,
also in the instance that is checked.

**TenantScheduler.tla** – `check_admission` as the steps between its locks.
Tokens are counted in units. `taken` is history: the refill instants at which
tokens were taken.

**SharedState.tla** – the local store and Redis behind one set of operations. The
clock runs in fractions of a second (`Sec` of them), and what the code cuts down to
whole seconds is cut (`AsSecs`): the time to live in both, the clock in the local
store.
The local `get` removes what it saw expired in a second step; a Redis heartbeat
is three commands; `try_lock` reads the clock before it looks at the lock; the
answer of a Redis command may be lost. `holds` is what each client believes,
counted from the instant it asked and for all the time it asked for.
`LockExclusive` promises it that time less the two fractions of a second that were
cut off (`Truncated`): the code promises no more.

**AdaptiveWeights.tla** – the signals, `compute`, the repeated normalisation with
a floor, and callers of `effective_weights` that compute without a lock. Weights
are kept as exact proportions, so that "sums to one" is exact.

**MetaSync.tla** – the handlers of metrics and topology broadcasts, sync requests
and responses, with version counters. Nothing in the repository sends requests or
broadcasts, so these come from outside; responses stay in the mail and may be
handled again.

**Connectors.tla** – the registry with later configurations replacing earlier
ones, discovery with the registration of aliases, metrics pages, the request
body of each engine, and the three stream parsers with the handler that consumes
them. A line's bytes arrive in three parts, so a stream can end inside a
line, before its newline, or between lines. Texts are sequences of bytes, and the
network's chunks may end inside any of their characters: `Lossy` is what
`String::from_utf8_lossy` on each chunk makes of a text, and `Received` all the ways
an answer may come out. So the lengths by which the `/generate` parser finds the
new part of a text are those of the damaged text, and a slice that splits a
character is a panic (`SplitsCharacter`). `ConnectorContract` says that the text
handed on is at every moment what the lines read say as they were decoded, once
and in order (for `/generate`, as long as its decoded lines still repeat each other:
`Tellable`), that aggregation passes on all of it, that a reply that ends with `Done`
left no complete line out unless the backend had said it was over, and that
bodies, registry and figures are what was asked and reported. Figures that do
not fit on the page itself are collected as they are; `sample.fits` remembers it.

The `MC*` modules give the constants values; the `*_proofs` modules hold the
theorems (the breakers' are with the pipeline's, the producer's and the
consumer's in `CkfLane_proofs`, those of the parts that share no state with the
pipeline in `Services_proofs`). `MCServices` puts side by side the components that share no state
with the pipeline: each behaviour is one of one component.

## 3. The runs

| Run | Instance | Distinct states | What it shows |
|---|---|---|---|
| `forwarding` | 2 request slots, 2 backends, 1 retry, thresholds 2 and 2, cooldown 1 | 442,734 | attempts follow the ranking, one truthful event, matching reply, breaker counters and transitions right; every request is answered or streamed to; open circuits can be probed |
| `coalescer` | 3 requests of one key, 1 of another, capacity 1 | 136,000 | single flight, removals are own, saved forwards are real, awaiters answered, the contract is implemented |
| `ckf_relay` | 2 pools, 2 ingesters and the timer, 2 events, 2 barriers | 278,292 | nothing is stranded, changes other than resets get published, an aligned lane equals what its source published |
| `routing` | 3 backends (1 of them moving) in 2 Regions, 2 requests of a session, 9 configurations, 1 registration call and 1 report | 1,523,331 | rankings and errors are what the pipeline relies on while the store changes under the router; reverse indices agree |
| `services` | ten scenarios, below | 904,595 | the properties of the producer, local index, CKF consumer, tenant scheduler, shared state, adaptive weights, metadata sync and connectors |
| `gossip` | 2 instances, 1 Region, both timeouts 0 | 125,777 | accusations follow silence, addresses are kept, failures detected, pingers revived |
| `leader_dropped` | as `coalescer`, unbounded map | violation | a landed flight whose leader was dropped stays for good |
| `delivery_gap` | 1 pool, threshold 1, 4 events | violation | a lane stays active across a lost delta |
| `alternate_bucket` | a lane of 2 one-slot buckets, 3 images | violation | a block in its alternate bucket is not found |
| `stream_ends` | one connector of each kind | violation | a streamed reply repeats its finish event for ever |
| `head_lost` | as `routing` | violation | a session's backend that offers what is asked is given up when the others are turned down |
| `undialable` | as `gossip` | violation | a joiner holds its seed alive without an address |

The scenarios of `services`, with the states each has alone: *producer* (78,299;
4 one-slot buckets, 4 hashes, 2 workers, 2 kicks), *index* (322,875; 2 backends,
1 lane, a chain of two colliding blocks), *tenants* (293,800; 3 requests, a limited Premium tenant and one without
an entry, 2 ticks), *locks* (31,841; 2 clients, 1 lock, times to live of half a second and of one
and a half, both implementations), *entries* (2,550; the same clients' entries), *weights* (28,152; 2 routers), *sync* (65,640;
2 instances in 2 Regions, and a sender that is not a member), *consumer* (60,964; 1
lane of 4 buckets, 2 images, 2 queries), *connectors* (20,372; 5 connectors, every
answer cut in every way), *metrics* (102; the same connectors, 5 kinds of pages).

Why the bounds are enough to be interesting. *Forwarding*: two handlers suffice
for one to change a circuit between another's gate and its forward; thresholds
of two give each counter a middle value; two candidates make a failover and a
ranking shorter than the attempts allowed. *Coalescer*: leader, waiter, later
leader of the same key, and a bypass at capacity. *Producer*: h1 and h2 share a
fingerprint and buckets, h4 has the same buckets and h3 one of them, so insertions use the
alternate bucket, evict in a chain, and fail. *Relay*: two ingesters and the
timer let three flushes overlap; two pools make a flush take several steps; the
environment's events and barriers are bounded (`MaxEvents`, `MaxBarriers`).
*Consumer*: a second image lets the reader straddle installation, delta and
unassignment, bucket by bucket. *Gossip*: every pairwise interaction happens,
self-addressed seeds included; `MaxCopies` bounds equal messages under way at
one. Timeouts of zero ticks still tell "at the timeout" from "beyond it", which
is all the probe loop asks of a clock. Nothing in the
engine's decisions on a member reads any other member, apart from the fan-out
(at least three in the code, so never short with two instances). The proofs
lift these bounds for the safety properties. *Routing*: one configuration per
strategy and limit that the engine tells apart, one backend per kind of model
match; one registration call that can be interrupted at every map, and one
report, are what a router can meet between two awaits (`MaxCalls`,
`MaxReports`); `MaxClock` is beyond the staleness thresholds and the session's
time to live. *Index*: with one lane for two backends, lanes run out, change
hands and come back while an event still holds one; the two blocks of the chain
share fingerprint and buckets, so that one copy too few loses the other block, and
one of the removals names a block twice. *Tenants*: three callers can
read the clock in one order and take the lock in another, around a refill.
*Shared*: a second has two fractions (`Sec`), so that half a second is cut to none
by the local store and raised to one by Redis, one and a half is cut to one, and a
lock taken at a half second loses another half; `MaxClock` is two seconds, in which
a lock expires under a stalled call. Entries and locks share no variable but the clock
and the clients, so they are explored one without the other. *Weights*: `Base` has a
dimension that the second pass of the normalisation pushes to the floor. *Sync*:
one response under way that may be handled again (`MaxMail`), counters up to one
(`MaxVersion`). *Connectors*: every kind of line, each cut at every part, characters
of one, two and three bytes, and an answer of `/generate` whose decoded lines, once its
first character is cut, no longer repeat each other, or are split inside a character.

Deadlock checking is off for the coalescer and routing (requests end), for the
relay (events run out) and for the services (clocks and requests end), and on
elsewhere.

### Fairness

*Forwarding, Coalescer*: weak fairness of each handler and of a flight's end,
because tokio polls a woken task and every connector call has a timeout
(`connector/openai_compat.rs:63`, `connector/sglang.rs:83`, the NATS request
timeout of `dynamo.rs`); of the clock; and of a spawned removal. No fairness of
disconnects, of routing's choice, or of success, and none of the end of a streamed
reply (`StreamEnds`), which `stream_ends` shows need not come.
*Relay*: weak fairness of each flush under way and of the interval of the
background task. Nothing is assumed of delivery.
*Gossip*: weak fairness of an instance's clock and of its two loops, which are
interval timers; strong fairness of handling Pings of a pair, that is, a sender
who pings without end is heard without end, the usual assumption on a lossy
link. Nothing is assumed of Pong or Meet.
*Connectors* (`stream_ends`): weak fairness of polling the reply, which the
server does as long as the client reads; of the arrival of the bytes sent; and of
a backend that has said everything closing its connection. No fairness of clients
leaving. The counterexample needs none of the faults: it polls for ever.

## 4. What is proved

Every theorem holds for all values of the constants under the assumptions
declared next to them (sizes and thresholds are natural numbers, zero included
where the configuration allows it; the sets of hashes and workers are finite).

* `Forwarding_proofs`, the breakers: **BreakerCountsMatch** and
  **BreakerTransitions**. `BreakerInv` is inductive: the counter of a closed
  circuit is the streak of failures and stays below the threshold.
* `Forwarding_proofs`, the pipeline: **ForwardingUsesBreakers** – each step of the
  pipeline is a step of `BreakerSpec` or leaves the breakers alone, so the
  breakers' theorems carry over; **PipelineCorrect** – types, tracing, events and
  replies, of which **ForwardingTyped** and **RepliesMatch** single out
  `TypeOK` and `ReplyMatchesAttempts`. The inductive invariant `AllSound` says of
  each request alone what its program counter, ranking, loop variables, events
  and reply have to do with each other; the properties are not inductive without
  it, because the event is written from the loop variables and the reply after
  the event. The argument is about one iteration of the loop (`SkipTrace`,
  `FailTrace`, `SucceedTrace`) and then lifted, since a step changes one
  request's state.
* `Coalescer_proofs`: **CoalescingIsSingleFlight**, **CoalescerTyped** and
  **RemovalsStayOwn**, from `CoalescerInv`, which adds that only a request that
  flies its own flight has one; **SavedForwardsCounted** – the statistics are
  cardinalities of sets of requests, and each step moves one request from one
  set to another; **CoalescerRefinesContract**, step by step from the invariant.
* `CuckooFilter_proofs` (lemmas only): what the filter's operations do, for every
  geometry and any number of kicks. An insertion adds one copy of a fingerprint
  to the pair of buckets of its hash or changes nothing, a deletion takes one
  out, no bucket overflows, the item counter is the number of fingerprints, and
  what changed is dirty. The eviction walk is a recursion; its invariant
  `GoodWalk` says that the lane with the displaced fingerprint put back holds
  what it held before plus the new one. This module also has the inductions and
  the facts on finite sums that the others use.
* `CkfLane_proofs`, the producer: **OwnershipCorrect** – refcounts, owner sets and
  per-worker sets agree; **FingerprintsFollowOwners** – no false negatives and no
  leaks; **DeltasLoseNothing**; **ProducerTyped**. Every event is a fold of
  insertions or deletions, so the invariant `GoodProducer` is stated of a
  producer's record and shown of each of its methods.
* `CkfLane_proofs`, the consumer: **AnswersHaveWitnesses** and **ConsumerTyped**. Of
  a query under way, each hash it counted was in an image of its lane that it
  witnessed, the one it stopped at was missing from one, and the lane's present
  image is among those witnessed.
* `CkfRelay_proofs`: **RelayStrandsNothing** and **RelayTyped** – the order "apply,
  then count" and "reset the counter, then visit" leaves no dirty pool without
  either a positive counter or a task that will still visit it;
  **InOrderIsExact** – a message under way carries what its source published
  under its sequence number, so a lane that takes them in order follows the
  images one by one. What matters is that a delta has at least the buckets that
  differ from the publication before, which the producer's lemmas provide.
* `Gossip_proofs`: **MembershipIsEarned** (with **GossipTyped** and
  **OwnEntryStays** as its parts) and **AddressesStay**. The inductive invariant
  adds `VerdictsJustified` (a mark still to be made was earned when the list was
  cloned) and `AddressesRight` (an address is the member's own).
* `Routing_proofs`: **IndicesStayAgreed** – `CallInv` says what the four maps have to
  do with each other at each point of a registration call, and a call touches
  its own backend's entries only. **RankingsAreRight** and **ErrorsHaveReasons** –
  `RequestInv` says what the router knows at each of its awaits; the
  candidates it collects are registered or in a call because of `CallInv`, and a
  ranking is drawn from them whatever the strategy, since each scores every
  candidate (`ScoresCover`). For the errors it says that a backend that offers what is
asked for is among the candidates or the head, and the hybrid's filter keeps it.
Nothing the store does between two awaits is in that
  invariant, which is why it survives. **RoutingTyped** includes the bound of the
  dispatch history. The theorems start from an empty store; the run starts after
  start-up, in states an empty store leads to.
* `Services_proofs`: **LocksExclude** – `LockInv` says that a hold that still lasts is
  in the store for at least as long, less what was cut off, because the client
  counts from before it asked; a lock that is taken over had expired by an instant
  already past, or was the caller's own. **RatesAreLimited** – the tokens left plus those taken since
  an instant never exceed a burst and what the rate has added since; a clock
  reading older than the bucket's adds nothing. **SyncMixesNoRegions** – responses
  are applied unchecked, so the invariant is that what travels in the mail is
  already free of crosstalk.
* `Services_proofs`, the local index: **LaneMapsAgree** – the lane a backend holds, or
  is giving up, is bound to it, and one it gives up it no longer holds.
  **LanesLoseNothing** – "every owned block has its fingerprint in the lane" is not
  inductive, because a removal deletes one copy and another block may share it.
  `TreeInv` therefore counts: for each fingerprint and pair of buckets the lane
  has at least as many copies as the backend owns blocks that map there (`Copied`).
  While an event is projected, the blocks it stores and the lane has not got yet
  do not count, and the blocks it removes and the lane still has do (`Due`); what
  is left of a removal names no block twice and none the tree still has
  (`EventFits`). The events of other backends cannot disturb the lane, by
  `LaneMapsAgree`'s invariant, except where `gaps` records it.
* `Services_proofs`, the adaptive weights: **WeightsStayBounded**. A caller computes
  without a lock and publishes later, so `AdaptiveInv` says that every set of
  weights, published or still held by a caller, is `Bounded`. That `compute` gives
  bounded weights takes three facts: the boosts lie between none and
  `max_adjustment` (the load spread is defined at all because the squares of the loads
  sum to enough, the Cauchy–Schwarz inequality); a pass of the normalisation that clamps
  nothing new leaves every dimension at or above the floor; and four passes reach
  such a point, because each pass before it clamps a further one of the four
  dimensions and the floor is at most a quarter.
* `Services_proofs`, the connectors: **ConnectorsKeepTheirContract**, for answers of any
  length whose characters the network cuts in any way. `ConnectorInv` relates the
  parser's position to what was handed on: the text is what the decoded lines before
  that position say (`SaidRight`), a parser that has finished has read them all or
  was told that it is over (`DoneRight`), the bytes already emitted of a `/generate`
  stream are the last text line's (`GenerateRight`), and nothing but junk follows a
  NATS terminal (`NatsRight`). A registered id is one its connector reports, which an
  alias preserves because discovery registers exactly the reported ids. Of the
  backends only this is assumed (`BackendAssumption`): their answers are sequences
  of lines, and a Dynamo worker sends nothing after its terminal chunk. Nothing is
  assumed of figures.

Data in these modules is built by recursive functions and by the folds of the
community modules. What they compute is proved by induction over the set of the
values for which a property holds (`BoundedInduction`, `SubsetInduction`), from
the well-foundedness of the naturals and of the subsets of a finite set. For this
`Alt` is a function of functions and `Without` a recursive function.

Only model-checked: the liveness properties (`GateReopens`, `RequestsResolve`,
`AwaitersAnswered`, `ChangesGetPublished`, `FailuresDetected`, `PingersRevive`),
which need fairness and `ENABLED` and are out of this prover's reach. Every safety
property of a passing run is proved.

## 5. What was found

Six runs show the code disagreeing with its own comments or documents; the
quotations are under `findings`.

1. `leader_dropped`: only the leader's handler schedules the removal of its
   flight. If its client leaves, a waiter still drives the flight to its result,
   and the result then answers every later request of that key.
2. `delivery_gap`: a delta is applied whatever its predecessor, and the lane
   stays active; the architecture document asks for the lane to be retired.
3. `alternate_bucket`: a query probes the primary bucket only, while the
   producer stores and evicts into the alternate one.
4. `undialable`: a member first heard of through a Ping or Pong gets the empty
   address, is never answered and never pinged; the joiner and its seed then
   bury each other.
5. `stream_ends`: when an OpenAI-compatible backend has closed its stream, the
   parser answers every poll with a final chunk and never ends, and the handler
   passes every one on; `[DONE]` is never sent.
6. `head_lost`: with the session's backend found, the other candidates are scored
   for failover; when the strategies turn all of these down, their error is returned
   and the session's backend is not used (`engine.rs:275`, 286, 297).

Other places where modelling showed comment and code to differ, which the
modules follow as coded and no run is about:

* Half-open circuits admit every request (`resilience.rs:154`), where line 77
  speaks of a probe; a success that arrives late closes an open circuit (182);
  the gate is not asked again after the backoff (`handlers.rs:733`); a dropped
  handler emits no event (`handlers.rs:149`). A routing failure is a 502 when
  coalesced and a 503 otherwise.
* `reset_internal` clears the dirty set, so the flush that follows a reset sees
  nothing to publish: the other side keeps the old blocks until a barrier is asked
  for (`ckf_producer.rs:176`). `ckf_relay.rs:5-9` has a flush fall back to a barrier
  when there is no delta, and `docs/en/01-architecture.md:278` publishes what changed
  since the last publication; the code does neither.
  `num_items` counts first owners only (130). Removing a hash whose insertion failed
  may delete the fingerprint of another (151).
* A delayed delta overwrites a newer barrier (`cluster_bridge.rs:395`), and all
  the pools of a Region are written to one lane (382). A dropped barrier is not
  "re-sent" (345). The lane's status is loaded once, so a query may see a torn
  snapshot (`ckf_consumer.rs:81`). `KvRelay` and `assign_lane` are not called
  from `main.rs` yet.
* A Ping of the gossip loop carries the Region of its target
  (`gossip.rs:563`; `messages.rs:82`). A mark made after a scan may take an
  Alive member straight to Dead (611; `docs/en/04-algorithms.md:500`). A failed
  Meet is not retried (`main.rs:472`), members are not propagated (`gossip.rs:316`),
  the suspect timeout runs from the last heartbeat, and two members that hold
  each other Dead stay apart until an operator intervenes.
* Routing: the model of a session's backend is not compared with the request's.
  The normalisation calls only infinite costs excluded, while the strategies
  exclude with `f64::MAX` too (`hybrid.rs:160`). In degraded mode other backends
  score 0.01 and a short history scales the match down (`degradation.rs:13`).
  Context length and tools may be those of two instances of a model.
  A request of no blocks is turned away by a full backend (`kv_capacity.rs:218`).
* Store: unregistering leaves sessions and the KV index behind; registering a
  backend again repeats it in the reverse indices or, under another Region, leaves
  it under the old one too (`store.rs:211`); removing a Region leaves its
  latencies (`topology_graph.rs:86`).
* Local index: the query of a lane probes the primary bucket only (`local_ckf.rs:221`),
  so that it misses blocks which were displaced, while `kv_index.rs:60` calls the query
  exact. Dropping any clone of the tree's handle stops the worker for
  everyone (`radix_tree.rs:282`; 281 says "if clones still hold a sender, the
  shutdown is ignored"). An event may write the lane of another backend when its
  own was given away during the await (`local_ckf.rs:150`); a backend that got a lane late misses its
  earlier blocks; `Removed` of an unknown block, or of one block twice in an event,
  may delete another's fingerprint.
  The batched query counts hits after a gap, the single one does not
  (`local_ckf.rs:261`). Two events of one backend ingested concurrently may reach
  tree and lane in different orders (`kv_index.rs:113`).
* Tenants: a token is spent before the concurrency limit is checked, and
  concurrent admissions overshoot that limit (`tenant_scheduler.rs:164`).
* Shared state: clock and times to live are cut to whole seconds (`shared_state.rs:141`,
  240), so the local store may let another client take a lock over almost two seconds
  early, and one taken for less than a second excludes nobody, though `try_lock` says
  true. A read of an expired session may remove one set meanwhile (204); a
  Redis heartbeat may bring a deregistered instance back.
* Adaptive weights: an older computation may overwrite a newer one
  (`adaptive.rs:157`). Sync responses are applied whatever their version.
* Connectors: each network chunk is decoded on its own (`openai_compat.rs:623`,
  `sglang.rs:431`), so a character cut between two becomes several U+FFFD. In
  `/generate` streams this makes the text longer than it is: the new part of the next
  line is then taken from the wrong place, which drops or repeats text, or the slice
  splits a character and panics (`sglang.rs:375`). A line that does not repeat the text
  before it is taken to be new only if it is shorter (374). `server_info` pages without
  totals show used blocks of none (462). A streamed chunk with text and a finish reason
  loses the text (`handlers.rs:911`); token-id and NATS bodies drop tools; two configurations of
  one host and port share an id whatever their scheme; a failed scrape looks like
  an idle backend; the Dynamo stub announces KV events (`dynamo.rs:465`) that it
  does not deliver.

## 6. Not modelled, and the plan

Modelled so far: everything the components above do to state, except what
`components` in `PROJECT.json` names under "partly". What is left, in order of
worth:

1. The embeddings handler, which repeats the shape of the chat handler without
   streaming, and starting and stopping the relay's background task.
2. Several pools feeding one lane, once the gateway assigns lanes at all.

Left out for good: the wire formats and JSON, TOML parsing, telemetry sinks, the
admin endpoints (read-only views), log wording, `VllmConnector` (never
constructed) and the Python client: they keep no state that another part reads, or
their difficulty is in text rather than in order. The exact values of
floating-point scores are left out too: where two are closer than the grid they
tie.
