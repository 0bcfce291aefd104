# A TLA+ model of CascadeRPC

CascadeRPC is a JSON-RPC load balancer: it forwards each request to one of several
metered upstream nodes, in tiers, and has to keep its own account of what it has
spent on each of them. The logic that is hard to test is in the interleavings: many
requests share lock-free node state, a reload replaces the nodes under requests in
flight, a ranking task reorders them, a flusher turns billing periods and writes the
usage file, an operator edits price lists and signals, and a process may stop anywhere. This directory models that logic in
TLA+, checks it with TLC on small instances, and proves its safety properties with TLAPS for
instances of any size.

Paths below are relative to the repository.

## Inventory

| Component | Source | State | Operations | Modelled in |
|---|---|---|---|---|
| Node health | `src/core/node.rs` | `ema_us`, `until_s`, two relaxed atomics | `observe_answer`, `penalize`, `is_penalized` | `Health`, `NodeHealth` |
| Node limits | `src/core/node.rs` | semaphore, token bucket | `try_admit`, `check_rate` | `Router` |
| Request routing | `src/core/router.rs` | locals of `route`: `tried`, the round's snapshot, shortest wait, first saturated node, `ignore_penalties` | `send`, `dispatch`, `route`, `admit`, `admit_waiting`, `book`, `attempt_on` | `Router`, `Service`, `Balancer` |
| Classification | `src/core/upstream.rs` | none | `attempt`, `classify_response` | `Classify` |
| Topology, slots | `src/core/topology.rs`, `src/core/rpc.rs` | published lists `all` and `ranked`, `topology_lock`, node slots | `assign_ids`, `rank`, `reload` | `Topology` |
| Ranking loop | `src/core/ranking.rs` | none of its own | `rerank` | `Topology`, as a choice in `Router` |
| Hot reload | `src/core/reload.rs` | the pending signal | `watch_sighup`, `reload_once` | `Pricing`, `Topology`, `Balancer` |
| Quota counters | `src/quotas/state.rs` | 64 `u64` counters by slot | `add`, `get`, `set` | `Topology`, `Balancer`, `Router`, `Billing` |
| Billing periods | `src/quotas/period.rs` | `PeriodMap` | `period_start`, `rollover_if_new_period` | `Calendar`, `Billing` |
| Persistence | `src/quotas/persistence.rs` | `quotas.json` | `snapshot`, `flush`, `restore` | `Billing` |
| Lifecycle | `src/main.rs`, `src/server.rs` | none | start-up, flusher, drain, last flush | `Billing` |
| Registry | `src/protocol/registry.rs`, `methods.rs` | interned names, in order of their ids | `register`, `lookup`, `resolve`, `table_size` | `Pricing` |
| Cost tables | `src/protocol/cost_table.rs` | prices by id, one table per node | `new`, `cost` | `Pricing`; a constant of `Router` |
| Config, price lists | `src/provider/` | the files | `Settings::load`, `build_nodes`, `parse_file`, `load_from_path` | `Pricing` |
| Request bodies | `router.rs`, `rpc_payload.rs` | none | `extract_method`, `scan_leading_method` | `Pricing` |
| Metrics | `src/metrics.rs` | counters, one gauge with guards | `record_request`, `record_attempt`, `record_skip`, `GaugeGuard` | `Metrics` |
| Mock node | `src/bin/` | | | not modelled |

How they interact. A request loads the published topology once per round and then
works on `Arc`s of its nodes, so it goes on using nodes a reload has replaced. Node
state and quota counters are shared by all requests without locks. Reload and ranking
loop exclude each other with `topology_lock`; requests take no lock. The flusher reads
the topology and the counters beside the requests, and takes a mutex only for the
period map. The reload task reads the config and then one price list after another,
registers the names it finds in a table that requests resolve against at the same time,
and publishes at the end. A request resolves its method once and uses the id on every
table it meets later.

What makes each part correct:

* a node is held out as long as promised, and not longer; its latency means something;
* a request is sent to a node at most once, is always answered, and is failed only when
  nothing is left to ask; a permit or a queue place is never leaked;
* quota is overspent by a bounded amount;
* slots are never shared, and a name keeps its slot and its spend;
* a ranking round does not undo a reload;
* a node charges what its price list says, through any sequence of reloads, and a request
  is charged for its own method; a whole configuration is served, in the end the last one;
* the exported numbers agree with what happened;
* spend is credited to the period it belongs to, over reloads, crashes and clock steps.

`PROJECT.json` lists the hazards behind these with their lines.

## Modules

| Module | What it is |
|---|---|
| `Health` | the arithmetic of penalties and of the latency average, as operators |
| `NodeHealth` | threads running `observe_answer` and `penalize` on one node; a step is one atomic operation |
| `Classify` | `classify_response`, as operators |
| `Router` | concurrent requests over a fixed node set |
| `Service` | what the request path promises, abstractly |
| `Topology` | node sets, slots, reload and ranking, with traffic as the environment |
| `Balancer` | `Topology` with requests that hold snapshots across reloads in the place of its traffic |
| `Calendar` | `period_start` against an observer who watches every day |
| `Billing` | counters, period markers and the file, over the life of the process |
| `Pricing` | registry, price lists, config and cost tables over edits, reloads and restarts, with requests that hold an id |
| `Metrics` | `Router` with the counters and the gauge its steps move |
| `*_proofs` | the theorems of the module of that name |

`MC*.tla` give the constants for TLC. Operators introduced by a comment "Mutant:" are
wrong variants of the definition that follows them. Nothing uses them; `PROJECT.json`
pairs each with the property that must fail when it takes the definition's place.

### NodeHealth

`emaUs` and `untilS` are the two atomics. Each thread has a register for the value it
has loaded or computed and will store later, so lost updates and late stores happen.
`imposedAt` is a history variable: the real time of the failure behind the standing
penalty. The clock counts ticks, several to a second, because the code truncates to
seconds both where it imposes a penalty and where it reads one.

### Router

One action per atomic step of `route` and what it calls. `pc[r]` says where a request
is: `round` (about to load the topology), `walk` (in the `for` over the ranked nodes),
`rate`, `book`, `add` (holding a permit: before the token, before the read of the
counter, before the addition), `attempt`, `sleep`, `parked` (in the queue of a
semaphore), `granted` (handed a permit and not polled yet), `done`. `round[r]` has the
locals of one round and `req[r]` those that outlive it. `via` tells the two callers of
the same admission steps apart: the walk and `admit_waiting`.

The semaphore is tokio's: a released permit goes to the first waiter if there is one.
The rate limiter is governor's: `debt` is how far the next free cell lies ahead, in
ticks. A future is dropped only where it awaits (`attempt`, `sleep`, `parked`), or in
`granted` when the client disconnects; tokio polls a future before its timeout, so a
request that was handed a permit is not timed out first. What an attempt says of its node
and the release of its permit are one step: no await lies between them.

Ranking is free within a tier: any order `Topology::rank` could produce may be published
at any time. A tick is half a second in the scale of the code's timeouts
(`AttemptTimeout` 1, `GlobalTimeout` 2), and code between two awaits takes no time. The
bound `MaxClock` stops arrivals a budget before the end, so every request that arrived
can run out its time.

`Service` is the promise: one node at a time, none twice, failure only when every node
has had the request or ruled itself out (`Promise`, `KeepsPromise`).

### Topology and Balancer

A reload builds new objects for every name, so a node is a pair of generation and name.
`ReloadAssign` is `assign_ids` under the lock and `ReloadPublish` the store;
`RerankLoad` and `RerankPublish` likewise. `own` is a history variable: what the present
owner of a slot booked itself. The sort of `rerank` reads latencies that requests change
under it (`RacingKeys`).

Node sets are sequences over `Name`; the sets TLC tries include a reordering, a removal,
an arrival, a duplicate name (rejected) and one node too many (rejected).

`Balancer` puts requests in the place of the traffic. Admission is a choice there
(`Decline`, `Refuse`, `Send`), and `tried` is a set of slots as in the code. A request books
on, measures and penalizes the object it holds, published or replaced, which is what
`Topology` allows its traffic: every object that was ever published. `Balancer` is checked to
implement `Topology`, so what holds of `Topology` holds with requests in flight.

### Calendar and Billing

`Calendar` walks day by day through three years and remembers, for one reset day, the
last date that was a reset day (or the last day of a month too short for it).
`period_start` must agree with it on every date.

`Billing` has dates as small numbers and `PeriodStart` as a constant, assumed to be
monotonic and never ahead of its date. `tick` and `exit` are the flusher and the last
flush of `main`, each with the set it loaded and the snapshot it holds. `Crash` loses the
memory at any step; the rename is atomic, and a write may fail before it or after it.

Two history variables follow the spend and not the code's idea of it. `credit[s]` is the set of
periods whose marker the node of slot `s` had when something in its counter was booked; what is
booked before a node's first rollover is booked under no marker. A counter that is zeroed loses
its credit, a snapshot writes it into the file beside the usage, and a start takes it from
there, so a file that paired a counter with the wrong period would be noticed. `torn` marks the
slots whose spend was parted from its marker because a reload fell between the flusher's load of
the node set and its use of it; the file keeps that mark too. `CountersOfOnePeriod` says that
the credit of a slot that is not torn is the marker of its node and nothing else;
`SpentMonthKept` that spend is dropped, by a rollover or by a boot, only on a date past every
period it was booked under. Both exceptions are needed: without either, TLC finds a reload
inside a round of the flusher that moves a name to another's counter.

### Pricing

`disk` is what the operator may edit: the config, a sequence of nodes, and a price list
per path. `task` is `main` at start-up and the reload task later: the config it loaded and
the nodes it has built. One step reads one price list and builds one node, so an edit or a
request may come between any two. `Register` appends the new names in any order, because
a `HashMap` yields them in any order. A node carries its compiled `table`; `spec`, the price
list it was compiled from, is a history variable, as is `signalled`, the number of edits when
the last SIGHUP was sent. Files are abstracted to what the code tests: `$VAR` in a url by the
four ways `resolve_env` can end (a `${VAR}` is refused, though the doc comment at
`load_config.rs:173` says it is passed through), a price list by its sections and the range
of its `spillover_percent`. The hash of a name is a constant and need not be injective.

A failed reload leaves alone what is published, but the names it has registered so far stay
registered (`Abandon`) and change what later requests resolve to.

A body is the list of its members in the order of the text, with their depth, and whether it
is JSON to the end. It may name a member twice. `ScanLeadingMethod` looks at the first member
only and takes such a body; `FullParse` looks at the whole of it and refuses it, as serde does a
duplicate field. The method a body asks for (`Asked`) is the first one it names at the top level,
which is the one that is charged. Which node of a set a request consults is a choice; the order is `Router`'s.

### Metrics

`Metrics` extends `Router`: each of its actions is one of `Router`'s with what the code
records on that path. The counters of a node are kept apart by request, so that a property can
say how often one request moved them; the exported value is their sum. `attempts[r][n][o]` is
`rpc_upstream_attempts` by outcome label, and `Ended` records every attempt that ends, those
that settle their request included. `fate` is a history variable: was the request sent to the
node, and was it cancelled there. Skips are forgotten when the request ends. `sleepQueue` moves
only by a guard that is made or dropped, and a cancelled future drops the guard it holds.

## Runs

| Run | Instance | Shows |
|---|---|---|
| `nodehealth` | 2 threads, samples 1 and 9, `Retry-After` 0 and 5, seconds of 2 ticks | penalties and average are right in every interleaving |
| `routing` | 2 nodes of one tier, 2 requests that arrive at either of two times, 4 kinds of response, fairness | implements `Service`, answers every request, no node twice, what a 502 means |
| `crowd` | 2 nodes, 3 requests, 2 methods, one without a price on one node, with `Metrics` | permits, queues, overspend, what a 502 means, and that the gauge and the counters follow what happened |
| `balancer` | 3 names over 2 slots, 6 configs, 3 reloads, with a request in flight | slots, names, spend and publication; attempts are bounded; implements `Topology` |
| `calendar` | 31 reset days, 2023 to 2025 | `period_start` |
| `billing` | 2 names that trade one slot, 3 dates, fairness of the flusher | periods, file and counters |
| `pricing` | 2 nodes, 1 built-in and 2 colliding custom methods, 4 price lists, 5 configs, 7 bodies, 1 request, 2 edits | prices, ids, publication and that the last edit is served |

Bounds. Two threads are enough for a lost update or a late store, two ticks a second for
both roundings. Three requests on a node of one permit make a queue of two, so a
cancelled waiter can be first or last in it. The first node of `crowd` has two permits and a
bucket of three, so two requests stand between `book`'s read and its addition at once and
overshoot by both their charges. The second has one of each, so a request that waited for its permit finds no token. `crowd` has one kind of response beside the failures of
transport and of the body, which makes three outcome labels of the seven; the proof has them all.
Budget two ticks, attempt one: a request has
two attempts in time, and a third is cut off. Three names over two slots means that every
replacement recycles a slot. The two nodes of `billing` turn on different dates, so a
marker can belong to a node whose slot was given away; a counter goes up to one there, and a
single run with two (1.8 million states) found nothing else. With one slot a stale snapshot
never has another name's credit in it; that case was tried once with two slots, and is in the
proof. Two edits of `pricing` change both
lists, or a list and the config, in either order and between any two reads of a reload;
signals and restarts are not bounded. Its four lists are one with a fallback, a typo and a
built-in name under `[custom]`, one without `[limits]`, one that declares two names at once,
and one whose percentage is refused; its configs have both orders, a duplicate name, a node
that fails to load and one that fails to build. An unreadable file takes the same branches as
those. One request is enough, because requests share nothing in that module.

Fairness. `Router`: the runtime polls every ready task and fires its timers
(`WF` of each request's own steps) and time passes (`WF` of `Tick`); nothing is assumed of
clients or upstreams - an attempt that never ends is ended by its deadline. `Billing`: the
interval timer keeps firing (`WF` of the flusher). `Pricing`: the runtime polls the reload
task and file reads end (`WF` of the task). None of them assumes that a disconnect, a
response, a reload or a shutdown ever comes.

`calendar` ends at its last year; no other run has terminal states, except by the explicit step `Horizon` of `Router` at the clock's bound.

### Where the code and its comments disagree

Five runs check a sentence of the repository that the code does not keep.

* `no_strangers_spend` - a request admitted on a replaced node books on a slot that was
  zeroed for its next owner (`topology.rs:121`).
* `stalled_node_penalized` - after a first attempt that used up its 500 ms, a second one
  is cut off by the 1 s budget no later than by its own deadline, and the node that
  stalled is not penalized (`router.rs:33`).
* `exit_keeps_spend` - the flush at shutdown does not roll over first, so a node a reload
  added since the last tick has no period and is left out of the file
  (`persistence.rs:77`).
* `fallback_price` - a cost table is as long as the registry was when it was built, so a
  node before the one that declares a custom method has no price for it, its
  `unknown_method_cost` notwithstanding, and is skipped (`README.md:136` and `173`). It
  takes one start with two nodes. A second reload of the same files changes the answer, and
  a reload that fails half-way takes the method from running nodes.
* `gauge_counts_rate_limited` - `admit_waiting` holds the guard of `rpc_sleep_queue_size` while
  it waits for a permit (`router.rs:357`), so the gauge counts requests that wait for
  concurrency too. `README.md:203` and `metrics.rs:186`, `291` and `387` say it counts those
  that wait for a rate limit. What does hold is that the guards never drift (`GaugeNeverDrifts`).

The first three are narrow windows with bounded consequences; the fourth lasts until the
next reload.

Behaviours that are known and not checked by a run of their own:

* `tried` is by slot, so a request that goes on to a new round after a reload may pass over a
  new node in a recycled slot; and an attempt in flight across a reload penalizes the old object
  only.
* An attempt that is cancelled, by the global timeout or because the client left, is recorded
  under no outcome. `metrics.rs:236` and `upstream.rs:80` say every path out of an attempt
  records one; a dropped future takes none of them. `AttemptsPartitioned` makes that exception
  and no other.
* A node that a reload added books until the next tick under no period, and the tick's period
  adopts that spend (`period.rs:133`), so the counter may hold a minute's worth from before the
  boundary; `README.md:200` calls it the credits spent this period.
* A body that names `method` twice, the first time as its first member, is routed and charged
  for the first, where the parse would have refused it. The comment at `router.rs:426` admits a
  broken tail as the one difference between the two; the test at `router.rs:480` asks that a
  body the scan accepts is one serde accepts, and has no such body in its list.
* A plain failure that ends after a 429 replaces the longer `Retry-After` by `PENALTY_SECS`.

## Proofs

Every safety invariant, every action property and both refinements that a passing run
checks are proved with TLAPS, for every value of the constants under the assumptions the modules
name. A proof module extends its component; `IInv` (`SInv`, `MInv`, `BInv`) is its
inductive invariant, which holds on the run's instance under TLC as well, and the theorems come
from three facts: it holds initially, every step preserves it, it implies the property.

| Module | Theorems | Property |
|---|---|---|
| `NodeHealth_proofs` | `TypeCorrect`, `FullPenalty`, `PenaltyIsBounded`, `EmaBounded`, `NeverUnmeasured` | `TypeOK`, `PenaltyServedInFull`, `PenaltyEnds`, `EmaWithinSamples`, `MeasuredForGood` |
| `Router_proofs` | `TypeCorrect`, `WaitersAreQueued`, `AttemptedOnce`, `PermitsAreConserved`, `OverspendIsBounded`, `FailedAfterAll`, `PromiseKept` | `TypeOK`, `WaitersQueued`, `OneAttemptPerNode`, `PermitsConserved`, `OverspendBounded`, `FailedMeansExhausted`, `KeepsPromise` |
| `Metrics_proofs` | `MetricsOnlyWatch`, `GaugeIsExact`, `AttemptsAreCounted`, `SkipsAreCounted` | `MetricsSpec => Spec`, `GaugeNeverDrifts`, `AttemptsPartitioned`, `SkipsCounted` |
| `Topology_proofs` | `TypeCorrect`, `SlotsAreDistinct`, `PublishedAccepted`, `SpendSurvives`, `NamesKeep`, `NeverRunDry` | `TypeOK`, `SlotsDistinct`, `PublishedIsAccepted`, `SpendSurvivesReload`, `NamesKeepSlots`, `SlotsNeverRunDry` |
| `Balancer_proofs` | `RequestsAreTraffic`, `SetsHoldUnderLoad`, `AttemptsAreBounded` | `ImplementsTopology`, three of `Topology`'s under load, `AttemptsBounded` |
| `Calendar_proofs` | `PeriodsAreRight` | `PeriodIsSinceLastReset` |
| `Billing_proofs` | `TypeCorrect`, `OnePeriodPerCounter`, `SpendOutlivesClock` | `TypeOK`, `CountersOfOnePeriod`, `SpentMonthKept` |
| `Pricing_proofs` | `TypeCorrect`, `ListsAreFollowed`, `ChargedRight`, `WholeOrNothing` | `TypeOK`, `PricesFollowLists`, `ChargedForOwnMethod`, `PublishedIsWhole` |

### NodeHealth

For every set of threads, every clock resolution, every penalty and ceiling, and every
range of samples below the sentinel. Assumptions: a second has at least one tick,
`PENALTY_SECS` does not exceed the ceiling, samples lie below the sentinel.

None of the properties is inductive, since a thread may store a value it computed long
ago. `IInv` adds what is true of values in flight: a register
about to be stored into `ema_us` is within the samples (`RegistersOK`), and a deadline,
in a register or in `until_s`, is one `penalize` may compute from the second it was
computed at (`DeadlineFor`): between `PENALTY_SECS` and the ceiling after that second,
rounded up. From it `FullPenalty` and `PenaltyIsBounded` follow by
two facts about truncated seconds (`SecondsWithin`, `SecondsAfter`), and `EmaBounded` by
`NextEmaBetween`: the shifted average lies between the old average and the sample.

### Router

For every finite set of nodes and requests, every tiering, every number of permits,
bucket, threshold, price and set of responses, and every clock bound. Assumptions: there
is a method (the catch-all has an id), a bucket has a cell and refills, an attempt's
timeout is below the global one (the compile-time assertion of `router.rs:37`), a
`Retry-After` is a natural number.

That a request is sent to a node once rests on where the
node came from: the walk takes it after looking at `tried`, but `admit_waiting` takes
`saturated`, which was looked at earlier in the round, with other attempts in between.
`IInv` therefore has, besides the types,

* `Places`: a request on a node has not tried it until the attempt is sent; on the walk
  the node is the one at `pos`, and the remembered saturated node lies at an earlier
  position of the walk and is untried (`SaturatedOK`) - it stays untried because an order
  lists no node twice (`OrderIsWalk`), so the attempts made after it are on other nodes;
* `Attempts`: a node that is not tried was not attempted;
* `Queues`: `WaitersQueued` element by element, the shape in which a waiter who joins, is
  handed a permit or leaves from the middle of the queue can be followed by its index.

A release moves a second request, so the three are preserved together (`Kept`), by one
lemma per group of actions. `QueuesKept`, `QueuesReleased`, `QueuesJoined` and
`QueuesLeft` are the four things that happen to a queue.

`SInv` adds what the second group of theorems needs:

* `PermitsConserved` itself, which is inductive on top of `IInv`: a permit is taken, put back,
  or handed from a holder to the first waiter, who was not one
  (`PermitTaken`, `PermitReturned`, `PermitHandedOn`);
* `Budget`: the counter plus what the requests between the two steps of `book` will still
  add is within the bound. Each of them holds a permit, so there are at most
  `max_concurrent`, and each was let in at a counter not above the threshold; `Booked` says
  they were priced;
* `Passed`: each node the walk has passed was tried or left a reason not to give up (a wait, a
  busy node, a penalty that can still be ignored). When nothing is left to wait for, every
  passed node was tried, and a finished walk has passed all: an order is one-to-one on as
  many places as there are nodes, hence onto (`OrderIsComplete`).

`PromiseKept` is the step simulation. `MovesImplement` shows that each step of a request
is one of `Service`'s or unseen by it; the other requests stay as they are but for a waiter
that is handed a permit, which the service does not see (`OthersQuiet`).

### Metrics

A step with its metrics is one of `Router`'s (`MetricsOnlyWatch`), so `IInv` carries over.
`MInv` adds that the gauge is the number of requests at a guarded await - a
hand-over moves a waiter from one guarded await to another, a cancelled
future leaves with its guard (`GaugeFollows`) - and, per request: it has no answer before it
ends (so none is counted twice), an untried node was not refused, an untried node has no
fate, one in flight or cancelled has no label, and one whose attempt ended has exactly one
(`FateOK`, `LabelsOK`). `SettledOK` ties the labels to the answer: as long as a request
has none, all its labels are of attempts to be retried, so the one that settles it is the first
and the last. That a walk counts a node as rate-limited once needs
`LimitedOK`: every such node lies behind `pos`, and has left a shortest wait,
so that the walk will not park; hence a request that parks has counted none in the round and
may count the node it parked on.

### Topology and Balancer

For any finite set of names, any configs, any number of slots and reloads. Between the two
steps of a reload, and of a ranking round, there is a list that only a later step publishes,
so `IInv` says of the staged and the loaded list what the properties say of the published
one: of one generation, without a repeated name, on distinct slots (`Sets`); a name on both
sides of a reload has one slot (`Handover`); and the lock tells who is in between
(`Locking`). `NeverRunDry` is a pigeonhole argument (`EnoughFree`): the slots not taken by
survivors are at least as many as the newcomers. That the lowest free slot exists is proved
from the least-element principle for naturals (`LeastElement`, from `WellFoundedInduction`).

`RequestsAreTraffic` shows the refinement: a request walks objects that were published
once (`Snapshots`), and those keep their slot through every later reload (`PublishedStays`),
so what it does is traffic `Topology` allows. `AttemptsAreBounded`: each attempt put a slot of
its own in `tried` (`Counted`).

### Calendar and Billing

`Calendar_proofs` needs no bound on years: one day is the induction step
(`NextDayCases`), and over the end of a month the old month's reset is behind, whatever its
length, because `clamp_to_month` never exceeds it (`Clamped`).

`Billing_proofs` holds for any names, slots and configs and any `PeriodStart` that is
monotonic and never ahead of its date. `CountersOfOnePeriod` is not inductive, since the credit
of a counter comes back from the file. `IInv` adds that two nodes never have one slot
(`OwnSlots`: a rollover zeroes the counters of the nodes it turns and of nobody else, unless the
set it loaded is stale), that a process that is down holds nothing (`DownIsEmpty`), and the same
property of every entry that is in the file or on its way to it, in the snapshot of the flusher
or of the last flush: its credit is its own period, or it is torn (`FilesOfOnePeriod`).
`SpendOutlivesClock` then needs no more: a rollover drops the spend of a node whose period is
past its marker, and the marker is every period the spend was booked under.

### Pricing

For any methods, hashes (colliding or not), price lists, configs and bodies. Assumptions
about the inputs, as serde and the toml types enforce them: a price is one of a set of
naturals that has the one for "no price", an entry of the config has its fields
(`ConfigNode`), and the first member of an object is its own and not a nested one. Bodies may
name a member twice: `ExtractsAsked` shows that scan and parse, whichever of them accepts the
body, both return the first method it names. The argument is that the registry
never holds a name twice (`NoRepeat`) and only grows while the process lives (`Extends`). So
a table compiled over its first names means the same for good (`Compiled`), and an id in hand
is the fallback's or still that of the request's method (`OwnId`). The same is said of the
nodes of an unfinished build (`BuildsInOrder`), which become the published ones.

### Only model-checked

The liveness properties `EveryRequestAnswered`, `TurnNoticed` and `LastEditServed`: TLAPS
does not reason about fairness or `ENABLED`. `PeriodStart` of `Billing` is a parameter; that
the code's `period_start` satisfies its assumption is not derived from `Calendar`. The five runs
that expect a violation are counterexamples and have no proof.

## Not modelled

* TOML and JSON as text (the `config` crate, serde): a body that is an array of one string,
  which serde also reads as a call, and a key that is spelled with escapes.
* Which method an upstream runs when a body names two.
* Of the metrics: durations, registration, export, and the gauges of penalty, latency and
  quota, which copy state for the scrape.
* Logging, the health endpoint, sockets and connection pooling, the mock node.
* `load_from_dir`, which only tests call, and `parse_incoming`, which nothing calls.
* Keys that change between two comparisons of one sort, and the panic of the standard sort that
  may follow: the model gives each node one key per sort, any it may have had meanwhile.
* The instant between the read and the store in the rollover, in which an increment is lost.
* 64-bit overflow of the quota counters, which no run of the program can reach.

## Plan

1. Discharge `Billing`'s assumption on `PeriodStart` in `Calendar_proofs`: a period starts at
   or before its date, and a later date has no earlier period.
2. Operator facts worth stating of `Classify` (which verdicts penalize, which settle a
   request) and of `ScanLeadingMethod` against `FullParse` in `Pricing`.
3. The safety half of the liveness arguments: what a waiting request always has in front of it
   (a timer that is set, or a holder of the permit it waits for).
