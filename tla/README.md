# Kairyu in TLA+

Kairyu is an LLM serving system: an inference engine with a paged KV cache, an
orchestration layer that routes and composes requests, and a control plane that
starts, drains and scales the engines ("runners"). This directory holds TLA+
models of its concurrent and stateful parts, TLC configurations that check them
on small instances, and TLAPS proofs of what matters most for instances of any
size. All source paths below are relative to `src/kairyu/`.

## 1. The system and its parts

| part | source | what it does | here |
|---|---|---|---|
| page pool, radix prefix cache | `engine/core/pages.py`, `radix_kv.py` | hands out KV pages; a tree of computed prefixes shared by requests, locked while used, evicted least recently used | `RadixKV` |
| host page tier | `engine/core/kv_tier.py` | copies evicted pages to pinned host slots and back, asynchronously | `KvPageTier` |
| scheduler | `engine/core/scheduler.py` | chunked prefill, decode ahead of the device, preemption, admission, budgets | `Scheduler` |
| engine loop | `engine/engine_loop.py`, `engine/core/engine_core.py` | one step thread over the scheduler, producers in other threads, several steps in flight, failure and purge | `EngineLoop` |
| in-process backend | `engine/kairyu_backend.py` | pumps the loop from an executor thread, delivers updates to asyncio streams | `EngineLoop` (worker), `StepDelivery` (delivery) |
| leader election | `runners/leadership.py`, `postgres_leadership.py`, `leadership_runtime.py` | lease row with fencing tokens, elector, election thread, fenced controller | `RunnerLeadership` |
| tier policy | `engine/core/kv_tier_policy.py` | chooses what to offload from measured costs | - |
| device lanes and model runner | `engine/core/step_executor.py`, `model_runner.py`, `worker.py`, `sampler.py` | tensor computation, staging buffers | a device call is a result that arrives or an exception |
| prefill-decode disaggregation | `engine/core/pd*.py`, `handoff_stream.py`, `kv_transport.py` | hands KV from a prefill to a decode engine | planned |
| process backend | `engine/zmq_backend.py`, `engine/core/engine_service.py` | the engine behind a message socket | planned |
| KV event stream and index | `orchestration/kv_index.py` | which replica caches which block, from sequenced events over an unreliable feed | `KvEventIndex` |
| routing over the index | `orchestration/kv_routing.py`, `prefix_index.py` | quarantine of replicas under change, approximate fallback | planned |
| replica pool | `orchestration/replica.py`, `router.py`, `cluster.py`, `deploy/registry.py`, `deploy/prober.py` | health and generations of replicas | planned |
| orchestration | `orchestration/conductor.py`, `orchestrator.py`, `moa.py`, `budget.py` | multi-call strategies under a budget | planned (budget, waves) |
| asynchronous requests | `async_requests/` | leased claims on stored requests, heartbeats, cancellation, shutdown | `RequestContract`, `AsyncRequests` |
| batches | `batch/` | claims on files of requests, finalisation | planned |
| scaling and draining | `runners/scale_actuator.py`, `scaling*.py`, `drain.py`, `reconciler.py` | several fenced transactions per change | planned, on top of `RunnerLeadership` |
| start-up binding and admission | `runners/startup_*.py` | signed documents, quotas | planned last |
| artifact cache | `artifacts/`, `runners/prestage*.py`, `runners/cache_agent_*.py` | model files on a node, leases and eviction | planned |
| HTTP servers | `entrypoints/` | protocol translation, streaming | abort and shutdown paths planned |
| models, kernels, quantisation, DSL, router learning | `models/`, `kernels/`, `quant/`, `dsl/`, `orchestration/learning/` | numerical code, configuration | out of reach of a model checker |

How the modelled parts interact. A client registers a stream with the backend,
which submits the request to the engine loop's operation queue. The step thread
drains the queue into the scheduler, which admits requests by allocating their
pages from the radix cache. The cache evicts idle nodes to make room and may
move their pages to the host tier, or restore a prefix from it. The step thread
submits the planned step to the device, commits the oldest result, presents it,
and the event loop publishes it to the stream. The election decides which
control-plane process may change the set of runners; its fencing tokens reach
every sink of such a change. The cache announces what it stores and evicts
(`AnnouncedIsCached` in `RadixKV`); the publisher numbers those announcements
and the gateway's index follows them to score prompts. Requests that clients do
not wait for are rows of a PostgreSQL store, which the gateways' consumers claim,
dispatch to the engines and finish.

## 2. The modules

### RunnerLeadership

The lease row is `row`, the store's clock `now`; each contender has the
elector's cached `lease`, the runtime's `state`, `stop` flag and `snapshot`, the
place `op` of its election call and the place `mutation` of the one mutation it
may run. A step is what happens under one lock or in one transaction. A store
call may fail before it commits, or commit and lose its reply; a process may
restart between any two steps; the clock moves at any time. The PostgreSQL
store is modelled rather than the in-memory one used by tests: `release` ends
the term of the row and keeps its token.

### KvPageTier

Slots, published entries, in-flight and quarantined keys, page owners and the
handles (`phase`, `entry`, `old`, `page`) are the fields of `PinnedKVPageTier`
and `TierTransfer`. Every public method runs under the tier's lock and is one
action. The copy itself is a separate action, `Land`: it writes the
destination, at any time after it was submitted, also when its handle has been
cancelled or has failed. `host` and `device` record what each slot and page
really holds, so that "a resident key holds its KV" can be said at all.
`Versions` lets a recomputed page differ in its bits, which the checksum
comparison of `finalize` sees. `finalize` of an offload or a restore ends
"finalized", or "failed" when the bookkeeping after the commit raises
(`FinalizeOffload`, `FinalizeRestore`), or it fails before anything is
committed, when the checksums of an offload cannot be computed
(`FinalizeFails`). `Retire` is the caller dropping a handle that has ended, so
that another transfer can use its name. `Corrupt` is host memory that decays.

### RadixKV

The tree is a function from token paths to nodes; a split keeps the lower node
object and therefore its path. `Allocate` is the whole of `allocate`: match and
lock, restore from the host, evict, take pages, insert, with the unlock on
every failing path. `Prefilled`, `PublishRefused` (the event sink raises while
the prompt's pages are announced), `Grow`, `Decode`, `CommitAndRelease`,
`ReleasePreempted`, `Pin`, `Unpin` and `ReserveScratchPage` are the other
operations, in the order in which the scheduler calls them. The
host tier appears by what the cache relies on: the prefixes it holds, and
transfers that succeed, fail settled, end with unknown completion, or complete
and are then refused by the event sink, which costs the tier its copy. `rows`
records which token sequence the KV of a page belongs to. Hashes of pages are
represented by the prefixes they hash.

### Scheduler, EngineLoop, StepDelivery

`Scheduler` has no variables: it is a library of operators on a scheduler
record, one per function of `scheduler.py`, in the order of `schedule()`
(decodes, prefills, admission with priority victims, bypass of a blocked head).
Prompts share no page in it, so the cache is reduced to page counts: free
pages, the idle nodes in eviction order, and what each request owns. Sharing is
the subject of `RadixKV`.

`EngineLoop` adds the producers (`Submit`, `Leave`) and the step thread
(`DrainOps`, `PlanStep`, `StopPlanning`, `Commit`, `PresentOnly`,
`FinishOutput`, and the failure path `DrainFails`, `SubmitFails`, `CommitFails`,
`ReportFailure`, `DiscardStep`, `FilterOps`, `PurgeIds`, `PublishFailure`).
`DrainFails` is an add that the scheduler refuses, because its scheduling class
is unknown: the operations before it are done, those behind it go back to the
queue, and the step fails. `Refusable` are the requests that may be so.
`pc` is the place in `_step_once` or `purge` at which another thread can be
observed: the lock of the operation queue, the submission to the device, the
presentation lane. A device result is chosen when it is committed: any token,
an end-of-sequence token, or for speculative steps any number of accepted
drafts. Stop strings are found by the presentation of requests in `Stops`. The
estimate in `should_drain_before_admission` is a nondeterministic choice.

`StepDelivery` puts the event loop behind it: batches are posted by the output
lane and published later to the stream that is registered under the id then. An
id is submitted again only once its client has received the end of its stream
(`SubmitAgain`) or has left, which it may also do while that end is on its way
(`LeaveUndelivered`).

### RequestContract, AsyncRequests

The source calls `InMemoryRequestStore` the executable specification of its
protocol. `RequestContract` is the life cycle it gives one request: state,
fencing token, whether the lease is live, and the number of leases lost.
`AsyncRequests` is the PostgreSQL store together with the consumers of
`AsyncRequestWorker`, and is shown to implement it (`KeepsContract`, with
`lease[r] > 0` for `live`). A transaction is one step. `con[c]` is a consumer:
its claim, the place `pc` in `process`, the state `hb` of its heartbeat, the
ticks `left` until the heartbeat gives the lease up, and the events
`claim_lost` and `locally_cancelled`. A call may fail before its commit, or
commit and lose its reply, and is as old as `elapsed` when the reply arrives.
A dispatch returns, fails or is refused by the limiter. Gateways shut down in
order or crash at any time; a poll that a shutdown overtakes still completes,
and its claim is given back unexecuted (`RefuseProcess`). The code only compares times,
so a timestamp is the number of ticks until it passes.

### KvEventIndex

One replica, with its publisher (`epoch`, `mirror`, `log`, `queue`), the socket
`wire`, the index entry (`feed`, `retired`, `state`, `synchronized`), the
subscriber's thread `sub` and one scoring `route`. Each action is one critical
section: `_recover` is `Ask`, `Answer` or `GiveUp`, then `ReplayEvent` for each
event and `EndReplay`, or `ReplaceBySnapshot`, and anything may happen in
between. `route_overlaps` captures the feed, reads the set one block at a time
without the lock (`RouteScan`), and compares afterwards. `truth` records what
the cache held after each event and `known` the highest sequence that has been
heard of. A frame names its event by epoch and sequence; frames are lost on the
way, dropped by a full queue or a reconnection, or delayed, and never overtake
each other, as PUB/SUB over one connection guarantees. The state `stale` is a
live entry whose lease has run out, which is how the code shows it.

## 3. The runs

| run | instance | shows |
|---|---|---|
| `leadership` | 2 contenders, lease term 2, 3 clock ticks, tokens up to 2 | an unexpired cached lease is the stored one; an unexpired writer leads; tokens never go back; nothing happens after `close` |
| `page_tier` | 2 keys, 2 slots, 2 device pages, 2 handles, 2 bit patterns, 2 reservations of a slot, finalisations that fail before or after their commit | isolation of running copies, current handles, intact residents and restores, no leaked slot |
| `radix` | 3 pages of 2 tokens, 2 requests on prompts that share a page, 1 pinning session, host tier, evictions refused after 0, 1 or 3 victims, announcements refused | one owner per page, exact lock counts, cached rows are written, requests read their own rows, uncomputed nodes are private, announcements are exact |
| `engine_loop` | 3 requests over 3 pages of 2 tokens, in which one of them cannot end, any add may be refused, 3 steps in flight, stop strings, 1 failing device call, clients leaving at any time | in-flight tokens and pages are exact, planned rows have pages, nobody waits for a forgotten request, every waiting client gets an end |
| `engine_features` | priorities, 1 draft token, watermark 1, decode budget 2, 8 pages | in-flight tokens stay exact under preemption for a higher rank and short speculative commits, plans keep the budgets and limits, every request that fits is served |
| `engine_reuse` | 2 ids used twice, 3 steps in flight | no token crosses to a later request with the same id, stale aborts come first, every request is eventually forgotten |
| `async_requests` | 1 request, 2 consumers of 1 gateway, lease of 2 ticks, 2 lost leases, deadlines none, passed and 2, 1 refused dispatch or shutdown (`MaxReleases`, bounded in `MCAsyncRequests` only) | nobody else can hold a request while a heartbeat believes in its lease, claims are distinct, the store keeps `RequestContract`, a consumer leaves dead work, every submission ends |
| `kv_index` | 2 cache lifetimes of 2 events on 2 blocks, journal, queue and socket of 1, 1 removal of the replica | the index is true of the cache, a synchronized entry is caught up, returned scores are exact, no return to a left epoch, the entry becomes exact again |
| `purge_reuse`, `stuck_head`, `abort_failure`, `delivery_reuse` | see section 6 | what the code's comments and documents say is not what the code does |

Bounds and why they are enough. Three pages of two tokens hold a shared page,
a private page and a decode page, so that matching, splitting under a lock,
eviction and a failed allocation all occur. Two handles on two keys give every
overlap of an offload and a restore, and of a new transfer with the late copy of
one that ended. Three requests are the least with which one runs, one is blocked
at the head and one passes it; their prompts and lengths are chosen so that the
pool fits any one of them and no two at full length. Three steps in flight are
the least with which a request ends while two later steps still name it. Two
lives of an id suffice for confusion of an id with its predecessor. They are
checked without failing steps: a failure is published by id as well, so a client
that leaves and submits its id again while purge runs may be given the failure
of its predecessor, as in `delivery_reuse`. Pages hold two tokens in
`engine_loop`, so that a row may or may not need a new page, and one elsewhere,
where every row does. Lease
tokens up to 2 and three ticks give an expired, a taken-over and a lost lease.
Two consumers of one gateway share its table of cancellation events, which is
where a reclaim in the same process bites; the same model with two requests,
and so with claims that expire and abandon other rows, was checked once and is
too slow to keep as a run. A journal of one event makes a recovery choose
between replay and snapshot, a queue of one drops live events, and a second
cache lifetime gives every race of a rotation with a recovery. The passing runs
together take every action.

Deadlock is checked for the election, whose processes may always restart, for
the asynchronous requests, whose consumers poll for ever, and for the event
index, whose heartbeats never stop. The other models end when the bounded
number of requests, handles or lives is used up, so it is off there.

Fairness of the step thread. It is run by
an executor that the pump keeps busy while `has_work()` holds, and a device
call returns or raises, so weak fairness of the step thread is what the code
guarantees. No fairness is assumed of clients or of failures. `FairSpec` states
it without `ENABLED`: infinitely often the thread has nothing to do, or it
takes infinitely many steps (each of which changes `pc` or `pending`).
`EveryRequestEnds` is checked without failing steps: with one, an aborted id
may stay reserved (section 6).

Fairness of the asynchronous requests. Time passes; a consumer task and its
heartbeat task are scheduled by asyncio and neither is blocked by the other; a
gateway that shut down is started again by its supervisor. Each is weak
fairness. Nothing is assumed of clients, of replies, or of the inference itself,
which may never return. `EverySubmissionEnds` has two premises: inference
returns, and from some time on no dispatch is refused and no gateway is shut
down in order. Each of those hands a claim back without counting against the
request, so a request that met them for ever would never end; crashes, which do
count, need no premise.

Fairness of the event index. The sender thread and the subscriber keep running
(weak fairness), and of the heartbeats, reads and recovery answers that are
possible again and again not all are lost (strong fairness): heartbeats are
sent every `heartbeat_s`, the gateway drains its socket periodically, and a
recovery that timed out is tried again at the next heartbeat. Strong fairness is
needed because a full socket or a reconnection may disable each of them for a
while. `Converges` leaves out two cases: a removed replica, and a current epoch
that is retired (section 6).

## 4. What is proved

The proofs hold for every value of the constants that satisfies the named
assumptions of the modules.

* `RunnerLeadershipProofs`, from `LeadershipAssumption`. The inductive
  invariant `LeadershipInv` adds to the types: a cached lease, and the
  authority of a running mutation, is the stored tenure with an expiry no later
  than the row's, or an older tenure that has run out (`HeldInv`); the tokens
  mutations ran under are bounded by the row's (`TokenInv`); a stopped runtime
  is quiet (`StoppedIsQuiet`). The first part is needed because "unexpired
  implies current" alone is not preserved by a renewal whose reply is lost.
  From it: `TypeCorrect`, `StoppedElectionIsQuiet`, `CachedLeadershipIsCurrent`,
  `WriterIsLeader` and `AuthorityIsOrdered`, which also says that the
  controller's own fence check never refuses what the store has validated.
* `KvPageTierProofs`, from `TierAssumption`. `TierInv` says key by key what an
  active handle owns and where its data is, before and after its copy has landed (`ActiveKey`), that the slots and pages of a handle
  that ended with its copy running are in quarantine (`StrayKey`), that active
  handles share no key, and that quarantine, ownership and publication exclude
  each other (`RetentionInv`). One lemma per action preserves it. From it:
  `TypeCorrect`, `ResidentsAreIntact`, `RunningCopiesAreIsolated`,
  `ActiveHandlesAreCurrent`, `RestoredPagesAreIntact`. `SlotsNeverLeak` is
  inductive relative to `TierInv`: a slot that loses its publication or its
  handle is freed, published under its key or quarantined in the same step
  (`StillHeld` covers the slots a step does not touch).
* `RadixKVTree`, `RadixKVAllocate`, `RadixKVRequests`, `RadixKVProofs`, from
  `RadixAssumption`, for any page size, any number of pages, requests and
  sessions, and any prompts. `RadixInv` has a part about the cache, `CacheOK`
  (the tree, the LRU stamps, the lock counts, the ownership of pages, the nodes
  being prefilled, the announcements and the written rows), and a part about
  each allocation, `AllocOK` (where its path ends, which pages of its table are
  the tree's and which its own, and what its own pages hold). `CacheOK` takes
  the locks, pages and prefills of the requests as parameters, because one call
  of `allocate` or `commit_and_release` changes the cache in several steps and
  the allocation only at its end: each step (match and split, lock, restore,
  evict, take pages, insert, unlock) has a lemma from `CacheOK` to `CacheOK`,
  and an action composes them. The tree is reasoned about prefix by prefix: a
  prefix has at most one holder, the node whose segment it ends in; a split
  changes no holder's page (`SameView`), an insertion adds prefixes, an eviction
  removes those of a leaf. What the other requests rely on across a call is
  `Keeps` and `Steady`: their path keeps its pages, their node its state, their
  own pages their rows. No induction over the tree is needed: the victims of an
  eviction are a set closed under children, and the longest match is the
  greatest of a bounded set of numbers. `LibraryFacts` names the facts about
  finite sets and least numbers that the lemmas use; `Library` in
  `RadixKVProofs` derives them from the library's theorems. From `RadixInv`:
  `TypeCorrect`, `PagesHaveOneOwner`, `LockCountsExact`, `CacheHoldsItsPrefixes`,
  `DecodesReadOwnRows`, `PrefillsArePrivate`, `EventsMatchTree`, which are all
  the invariants of the `radix` run. `RadixKVTree` has the lemmas about the tree
  and the short operations (pin, unpin, grow, the scratch page, losses of the
  host tier), `RadixKVAllocate` the steps of `allocate`, `RadixKVRequests` those
  of decoding, the end of a prefill, `commit_and_release` and preemption, and
  `RadixKVProofs` the induction and the theorems.
* `AsyncRequestsProofs`, from `AsyncAssumption`. The invariant is about the rows
  (a lease never outlasts the deadline, so that a renewal never shortens it;
  audit rows count lost leases), about the consumers (who calls the store has a
  request) and about both: claims are distinct, and a lease a heartbeat still
  believes in is no longer than the stored one (`FenceInv`). Every transaction
  moves fences forward and leaves unexpired leases alone (`Forward`,
  `Survives`), which preserves the last part for all consumers at once. From it:
  `Exclusive`, `Fenced`, and `Implements`: each step of `AsyncRequests` is a step
  of `RequestContract`, also when `claim_next` expires and abandons any number
  of rows on the way to the one it grants.
* `KvEventIndexProofs`, from the assumptions of `KvEventIndex`. The entry is
  true because every way to change it starts from something true: an event of
  the log at the next sequence, a snapshot of the mirror, the empty set of a new
  epoch. The invariant keeps those sources true while they are in flight:
  `LogInv` (history and log agree), `FramesInv` (a frame names something
  published), `SubInv` (an answer is true of its epoch and not older than the
  entry), `KnownInv` (a trusted entry has all that was heard of). `RouteInv`
  carries the torn read: the counted blocks are right whenever the entry is
  still where it was captured, because it never comes back to a point it left
  (`Moves`). From it: `IndexTrue`, `CaughtUp`, `RoutesExact`, `ForwardOnly`, for
  any number of cache lifetimes, events and removals.

Only model-checked: everything about `Scheduler`, `EngineLoop` and
`StepDelivery`, and all liveness. Liveness and `ENABLED` are out of the prover's
reach. `Schedule`, `Commit` and `Present` are folds of operators over queues,
plans and sets of requests; what such a fold computes needs induction with an
operator as a parameter, which the installed provers cannot instantiate.

## 5. What the models leave out

* Data: token values beyond "ends or does not end", detokenisation, log
  probabilities, traces, metrics, error texts, validation of configurations.
* `Scheduler`: priority aging (a function of wall-clock time), the
  deferred-handoff limits and `resume_with_kv` of prefill-decode
  disaggregation, empty prompts.
* `RadixKV`: `free` and a commit without output, which the engine does not use;
  the second attempt of a commit whose sink raised, since the first one undoes
  itself; the flags `publishing`, `_publishing`, `_releasing` and `evicting`,
  which only refuse a sink that calls back into the cache.
* `EngineLoop`: `scheduler.abort` raising while the queue is drained (the
  release of its pages would have to raise), and `made_control_progress` and
  carried tokens, which only the prefill-decode adapters use.
* `KvPageTier`: tensor layouts, copy kernels, process-wide memory accounting.
* `AsyncRequests`: idempotency keys and the capacity of an owner (both refuse a
  submission and change nothing), the age limit of audit rows, schema
  migration, and the content of responses.
* `KvEventIndex`: the legacy two-frame feed, several replicas in one score
  vector (each is compared by itself), closing the publisher, and the test that
  the set is still the same object, without which `RoutesExact` holds too.
* `RunnerLeadership`: schema set-up, status counters, connection handling other
  than a lost reply.

## 6. Where code and documents disagree

* `purge_reuse`. `EngineLoop.purge` settles the pending steps before it takes
  the lock of the operation queue, and settling may forget a request. Its id can
  then be submitted again, and the new add is filtered out with the old id. The
  comment at `engine/engine_loop.py:831` says that purge cannot lose an
  unrelated add.
* `stuck_head`. A running request that cannot get a further page leaves the
  plan empty; `reject_waiting_head` then ends the waiting head, although
  `engine/core/scheduler.py:1045` says that nothing is running at that point.
* `abort_failure`. A step that drains an abort and then fails leaves the id
  reserved while `has_work()` is false, so the id cannot be reused until an
  unrelated request makes a step run.
* `delivery_reuse`. A client leaves before the last update of its stream is
  published and submits the same id again, which the engine loop has already
  freed. The update then goes to the new stream, because `_publish_step` looks
  the stream up by id when the callback runs.

One more behaviour was met and has no run. The entry refuses epochs it has
followed and left, and no others. Suppose the subscriber recovers from a frame of
epoch 1 while the cache is replaced twice: the answer is a snapshot of epoch 3,
and a frame of epoch 2 still in the socket is then new to the entry, which
follows it and retires epoch 3, the current one. From then on the replica is
never exact again, until its cache is replaced once more. The comment at
`orchestration/kv_index.py:743` says that frames of an old epoch "are rejected
by the subscriber tombstone". This needs three cache lifetimes; with two, and
without removals, TLC finds the current epoch never retired. A removal retires
the current epoch by design, since adding the replica back is meant to come with
a new cache.

## 7. Not modelled, and the plan

The models cover a small share of the source, most of which is numerical code,
protocol translation, validation of documents and configuration. What remains
and has states worth checking, in the order in which it would be added:

1. `FencedScaling`: the scale actuator and the drain protocol over
   `RunnerLeadership`, with a change of leader between two transactions.
2. Batches, whose claims work like those of `AsyncRequests` and whose output
   files are published in the transaction that makes the row final.
3. `RadixKV` composed with `KvEventIndex`, so that the announced events are
   those of the cache; the lifecycle revisions of `kv_routing.py` on top.
4. An abstract `Pipeline` specification of `EngineLoop` (reservations against
   tokens that will arrive), proved with TLAPS; `EngineLoop` shown to refine it.
5. An abstract `PrefixCache` (a finite map from prefixes to rows with users),
   refined by `RadixKV`; `RadixKV` composed with `KvPageTier` for the liveness
   of eviction over quarantined keys.
6. The process backend with generations and credits; the prefill-decode
   hand-off; the replica registry and prober; budget reservation.
