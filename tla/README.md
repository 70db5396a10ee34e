# Overlaat: a TLA+ verification project

Overlaat is a queueing proxy in front of an LLM gateway on one GPU host. It
admits requests against a cost budget, forwards and streams them, and records
one event per request. This directory holds TLA+ models of its parts, the TLC
configurations that check them on small instances, and proofs that TLAPS checks
for every value of the constants.

All paths below are relative to the repository (`overlaat/...`, `docs/...`).
Definitions are translated from the code; `PROJECT.json` maps each to its lines.

## 1. Inventory

| Part | Source | State it keeps | Operations |
|---|---|---|---|
| Scheduler | `overlaat/scheduler.py` | list of waiters, committed budget per pool, runs per model, reservation per pool, the marks of each waiter | `enqueue`, `withdraw`, `release`, each followed by `pump` |
| Circuit breaker | `overlaat/breaker.py` | per model: state, consecutive failures, when it opened, the probe and its start | `allow`, `record` |
| Request path | `overlaat/queue_proxy.py` `proxy`, `_admit_scheduler`, `_forward`, cancel endpoints | registry of queued requests with their cancel futures, in-flight and queue counters, release-once and emit-once flags of a run | size gate, breaker gate, queue, cancel, forward, stream, release, finish |
| Semaphore path | `queue_proxy.py` `get_semaphore`, `proxy` (scheduler off) | one semaphore per model, the task of each request that acquires it | acquire raced against cancel, give back, withdraw |
| Event writer | `queue_proxy.py` `emit_event`, `_event_writer*`, `lifespan` | bounded queue, connection, counters emitted/written/dropped | emit, batch, write, reconnect, stop |
| Ceiling refresher | `queue_proxy.py` `_key_ceiling_refresher` | cached ceiling per API key | swap the cache |
| Configuration | `queue_proxy.py` `load_*`, `resolve_pool_config`, `warn_if_self_protection_inert` | none after start | parse, resolve, warn |
| Host logger | `overlaat/host_logger.py` | per model of the swap server: last state, start of its load | poll, detect a load, write |
| Metrics views | `overlaat/metrics_db.py` | none | percentiles, time-weighted concurrency, tables |
| Usage API, database backends | `overlaat/usage_api.py`, `overlaat/db.py` | alias cache | read-only queries, connections, schema |

How they interact. Everything in the proxy runs on one event loop of one
process ("never `--workers N`"), without locks: a handler runs uninterrupted
from one `await` to the next. The request path calls the breaker's `allow`, then
`Scheduler.enqueue`, and awaits two futures: the waiter's, which `pump` resolves,
and the cancel future, which a cancel endpoint resolves. A run ends in
`_forward`, which calls `Scheduler.release` (and so `pump`) and the breaker's
`record`, and puts an event on the writer's queue. The refresher swaps the
ceilings the scheduler reads, from a background task and without a pump. The
host logger is a process of its own and meets the proxy only in the database.

What is hard, and what makes each part correct:

* Scheduler: handlers in any order; a waiter's rank changes with time and with
  the operator's ceilings while nobody pumps; reservations must survive
  displacement and withdrawal. It is correct if the ledger is exact, capacity is
  respected, nobody who fits is overlooked, no pool stalls, and a waiting head
  is neither overtaken nor starved.
* Breaker: outcomes come late, doubled or never. It is correct if it trips on
  consecutive failures only, sends a choking upstream one probe per cooldown,
  and always recovers.
* Request path: cancel, admission and disconnect race. It is correct if each
  slot is given back exactly once, each request has exactly one event, and a
  cancelled request never reaches the upstream.
* Semaphore path: a slot may be handed to a task that is cancelled before it
  runs. It is correct if slots are neither lost nor doubled, and nobody waits
  for ever.
* Event writer: bounded queue, failing database, shutdown. It is correct if
  every emitted event is queued, written, dropped or in hand, nothing is stored
  twice or out of order, and a shutdown ends.
* Host logger: polls may fail, models come and go between polls, and the logger
  restarts. It is correct if each load has at most one row, and the loads it saw
  have theirs.
* Views and configuration: pure functions with boundary cases. A view is correct
  if it says what its definition says of the rows, and views agree; a
  configuration that is accepted must be one the scheduler can serve.

The hazards, each at its line, are listed in `PROJECT.json`; a note says why a
hazard has no property, or how far its property goes.

## 2. Modules

| Module | What it is |
|---|---|
| `PoolAdmission` | abstract specification: what admission control promises, with no queue order, ledger or reservation; capacity is measured on the requests that really run |
| `Scheduler` | `scheduler.py` in detail; `ImplementsPoolAdmission` is the refinement |
| `SchedulerProofs` | theorems about `Scheduler` |
| `MCScheduler` | small instances: aging, and an exclusive pool beside a shared one |
| `Breaker` | `breaker.py`: state, `Allow`, `Record`, as operators for other modules |
| `BreakerClients` | composes `Breaker` with requests that enter, end, get lost, and with an upstream that heals |
| `BreakerProofs` | theorems about `BreakerClients` |
| `QueueProxy` | the request path: composes `Breaker` with admission counters, cancellation, forwarding, streaming and disconnects; `UsesPoolAdmission` is its refinement of `PoolAdmission` |
| `QueueProxyProofs` | theorems about `QueueProxy` |
| `MCQueueProxy` | a small instance: two models, one pool |
| `SemaphorePath` | the request path with the scheduler off; it too implements `PoolAdmission` |
| `SemaphorePathProofs` | theorems about `SemaphorePath` |
| `EventLog` | abstract specification: what the table of events promises, whatever is dropped |
| `EventWriter` | the queue, the writers of both backends, and the shutdown; `ImplementsEventLog` is the refinement |
| `EventWriterProofs` | theorems about `EventWriter` |
| `ModelLoads`, `MCModelLoads` | the tracker of cold loads against a swap server |
| `ModelLoadsProofs` | theorems about `ModelLoads` |
| `Configuration` | how the configuration is read and resolved, as functions, with reference definitions |
| `MetricsViews` | the timeline, models, consumers and workloads views as functions of the table, with reference definitions |
| `Sums` | sums and sorted orders without recursion, which these two are written with |
| `MCFunctions` | bounded inputs of these two |
| `FunctionsProofs` | theorems about these two, and about the run over bounded inputs |
| `CollectionFacts` | lemmas about lists, finite sets, counting and sums that the proofs share |

`PoolAdmission` is implemented three times: by the scheduler, by the request
path that uses it, and by the semaphores that stand in for it. `QueueProxy` and
`BreakerClients` compose the same `Breaker`.

### Scheduler

| Code | Model |
|---|---|
| `waiters`, `_used`, `in_flight`, `_reserved` | `waiters`, `used`, `inFlight`, `reserved` |
| `Waiter` (fields set once) | `req`; a request identity stands for one `Waiter` object at a time |
| `Waiter.waited`, `_was_reserved`, `_wait_cause`, `wait_reason` | `mark` |
| the future's state, as the caller sees it | `status` |
| a handler's call of `pump` | `pumping`: while it holds, only passes of `pump` are enabled |
| one iteration of pump's `while` | `PumpAdmit(i)`, or the last one: `PumpPark`, `PumpEmpty` |
| `list.sort` with the stable key | `Precedes(i, j)` on positions |
| `_pool_head`, reservation loop | `IsHead`, `BlockedHead`, `ToReserve` |
| `_fits` with the reserved budget | `Fits(r, h)` |
| `_key_ceiling_refresher` | `RefreshCeilings` |

A handler and the passes it starts are uninterruptible in the code, so splitting
them into steps hides no interleaving and adds none; properties of the moments
between two handlers are conditioned on `~pumping`.

Abstractions. Costs are whole units, `Unit` of them are 1.0: the code adds
floats and compares with `EPS` so that sums of 1/cap may fill a budget exactly,
and unit sums are exact (`CostAssumption`: a cap divides `Unit`). Weights are
whole multipliers. The clock counts ticks up to `MaxTime`; only aging and ties
read it. `snapshot` and `queue_depth` are read-only and left out.

### Breaker

Times are kept as ages that stop at the cooldown: `allow` compares an age with
the cooldown only. `Enter` is a request that `allow` lets through, `Finish` the
call of `record` in `_forward.finish`, `Vanish` a request that never reports
(cancelled in the queue, refused by the scheduler). A refused request changes
nothing and has no action. `streak` is a history variable: the failures really
recorded in a row since the breaker closed.

### Request path

| Code | Model |
|---|---|
| where a handler stands between two awaits | `call[r].phase`: `queued` (`asyncio.wait`), `sending` (`client.send`), `streaming`, `draining` (in `stream_body`), `done` |
| `Waiter.fut`, `cancel_fut` | `call[r].fut`, `call[r].cancelled` |
| `released`, `emitted` of `_forward` | fields of `call[r]` |
| `METRICS[m]["in_flight"]`, `["queue_depth"]` | `metrics` |
| `SCHED`'s counters | `sched`, clamped at zero as `release` does |
| rows put on the event queue, calls of `BREAKER.record` | `call[r].events`, `call[r].fed` (history) |
| the engine | `call[r].upstream` (history) |

A future is resolved in one turn of the event loop and its caller resumes in a
later one: `Admit` and `Cancel` against `Resume`. Here lies the race of an
admission with a cancellation. The order of admissions is left open (`Admit` is
any waiter for whom the counters leave room): `Scheduler` is shown to implement
`PoolAdmission`, and `UsesPoolAdmission` shows that the request path, with
counters that are only right if it releases exactly what it was charged, does so
too. `Cancel(S)` stands for both endpoints: `cancel-all` filters by model or key,
and any set of requests may share a key.

How a disconnect reaches `stream_body` is external: the server cancels the task
that iterates the generator. Suspended at its `yield`, the generator is closed
later and sees `GeneratorExit`; suspended in a read, it sees the cancellation
there, and by the rules of Python the upstream iterator `raw` through which the
exception passed is finished. The body is taken to be iterated at least once.

### Semaphore path

`call` is where the handler stands, `task` the task it created for
`sem.acquire()`, `sem` the semaphore. The semaphore is external; its value, its
queue and its wake-ups are modelled as `asyncio.Semaphore` has them (a release
hands the slot to the first waiter, whose task runs later), because the path's
own race lies there: `Resume` sees the slot, the cancellation, or both, and
`Withdraw` awaits a task that was cancelled, perhaps after it was given the
slot. One model is enough, as models share nothing on this path. The attempt
itself is `QueueProxy`'s; here it ends in one release.

### Event writer

| Code | Model |
|---|---|
| `EVENT_Q`, `EVENT_STATS` | `queue`, `stats`; a row is the number of its emission, the sentinel 0 |
| where the writer awaits | `writer.phase`: `idle` (`q.get`), `connecting`, `writing`; ended: `stopped`, `cancelled`; `cut` while a cut-off insert may still land |
| `batch`, `stop` | `writer.batch`, `writer.stop` |
| `request_events` | `table`, in the order of insertion |
| `lifespan` after its `yield` | `app`: `running`, `stopping` (at `EVENT_Q.put`), `awaiting` (at `wait_for`), `down` |

Both writers are one model with a `backend`: they differ in what a failed insert
may leave behind (`Kept`: with autocommit any part of the batch, with SQLite's
one transaction nothing) and in what a cut-off one may still do (`KeptWhenCut`).
`mark` is a history variable. How a database fails is external, and so is when
a server ends a session (`Disconnects`).

### Cold loads

A poll takes its time and asks the server (`Ask`); its answer, with the writes it
leads to, is a later step (`Poll`), so a row's times may be older than what the
answer says. The server moves before and after, through several states if it likes.
A time is abstracted to where it lies among the loads of the model, in the `n`-th
(`InLoad(n)`) or between two (`TimeOf`), since what a row can get wrong is which
load it spans. A failed poll and an empty answer change nothing in the code and are
no action of their own: another `Ask` follows. `lost`, `seen`,
`gone` are history variables. States other than `starting` and `ready` are left
out: the code's comment names these, and it only asks whether a state is `ready`.

### Functions

`Configuration` and `MetricsViews` hold no state: their operators are the
functions of the code. Costs are whole units and times whole ticks, so a mean is
kept as the sum over its span and a rate as a share of `Scale`; rounding for
display is left out, the rounding that selects a concurrency cell is not
(`RoundedMean`). SQL's NULL is 0 or "". The code's loops over lists are written
without recursion, so that the views can be reasoned about: a sum of natural
numbers is the number of its units (`TotalOf`), the place of an item in a sorted
list is the number of items that come no later (`Ranked`, `Place`; where the code
relies on a stable sort, ties go by position), a dictionary of lists is a
function to the rows behind each key (`Groups`), and a list made from another by
a condition keeps the row numbers of those that it takes (`Having`). Each reference definition at the end of
a module is written from the docstring, with quantifiers over ticks or
requests, and shares with the function it is held against at most the selection
of its rows.

## 3. Runs

| Run | Question | Result |
|---|---|---|
| `SchedulerAging` | one pool of 4 units, light (1) and clamped heavy (3) requests of two priorities; aging and a ceiling swapped between pumps | ledger exact, reservations and latches true, nobody missed, head protected, order of admissions kept |
| `SchedulerLive` | an exclusive `full_pool` pool of two members beside a shared pool with a model whose default cost never fits; equal priorities, endless arrivals | capacity respected, refinement of `PoolAdmission`, no stall, every waiter of the shared pool is served |
| `BreakerGate` | a model with a breaker (2 failures, cooldown 2) beside one without, 3 requests, an upstream that may heal | probes apart, trips on streaks, closes again once the upstream is healthy |
| `ProxySlots` | two models in one pool of 2 units, one with a breaker and a prompt ceiling, one whose engine does not abort; a cost that never fits; 3 requests, fair resumption | counters, events, slots exact; cancellation honoured and answered; refinement of `PoolAdmission` |
| `SemaphorePath` | four requests for two slots of a model | slots and counters exact, cancellation honoured, everyone answered, refinement of `PoolAdmission` |
| `EventWriter` | queue of 3, batches of 2, 6 rows, both backends | every row accounted for, table as counted, drained at a stop, refinement of `EventLog`, a shutdown ends |
| `ModelLoads` | two models with two loads each | one row per load, seen loads recorded, rows end after they begin, and begin in their load when others run meanwhile |
| `Functions` | the configurations of up to two entries and three shapes of pools; tier tables of up to three tiers; tables of up to three events | see the comments in `MCFunctions` |
| `Claim...` | one documented statement each, which TLC refutes | see section 6 |

Bounds. Three requests are enough for the cases that matter: one that runs, one
that is reserved and one that would overtake it, or two runs of one model with
different costs and a waiter; of the breaker: a request from before the trip, a
probe and a second probe. Identities are used again, so sequences of requests
are unbounded. In each configuration pools are small enough that caps, budgets,
the mutex and the clamp are all reached. `MaxTime = 2` lets aging overtake one
level of priority. Requests are symmetric (used only in runs without liveness).
The breaker of `ProxySlots` trips on one failure and cools down in one tick, so
that all its states occur among three requests; two requests of cost 1 fill the
pool or one of cost 2, and a third waits. `SemaphorePath` has four requests: two
that hold the slots, one that is given a slot while it is cancelled, and one
behind it. In `EventWriter` six rows overflow the queue of three while a batch
of two is in hand, with rows left to emit after the sentinel. Two loads of each
of two models are what it takes to mistake one load for another, with another
model running or not. In `Functions` the window is [2, 4] in buckets of 2, and
calls begin before it, at its ends, on the boundary and beyond; the third row is
a completed call that did not queue, from before or inside it, which is what the
curves and cells add up.

Deadlock is checked, except in two runs: an event writer whose application is
down and whose rows are all emitted has nothing left to do, and `Functions` ends
with its inputs.

Fairness. `SchedulerLive`: `WF(Pump)`, a started pump runs on (it has no
`await`); `SF(Release(r))` for each run: a run ends (the read timeout bounds it)
and its release is then a callback in the loop's queue. Other handlers may run
before it, with their passes, which disable it for a moment, hence strong
fairness. Nobody is required to withdraw or to arrive. `BreakerGate`: time
passes; each attempt ends; callers of a gated model keep coming (without a
caller `allow` never runs, and the breaker has no timer of its own). That is a
strong fairness, since the few identities of the model may be in use by the
other model whenever they could call; and of infinitely many chances
some probe completes, i.e. not every probe for ever is cancelled or abandoned.
`ProxySlots`: only `WF(Resume(r))`, the loop resumes a caller whose future is
done; admissions and the ends of streams need not come. `SemaphorePath`: each
task gets its turn, and attempts end. `EventWriter`: the writer takes what is
queued, a put for which there is room completes, and the timer of `wait_for`
fires; of the database nothing is assumed, it may never answer. `ShutdownEnds`
therefore excepts the one case in which the code hangs: a full queue and a
database that does not answer, since the put of the sentinel has no timeout.

## 4. Proofs

All theorems hold for every value of the constants that satisfies the named
ASSUMEs of the modules, which TLC evaluates in every run. Where a run checks the
same property, the run shows it on a small instance. A theorem of a
specification without fairness holds of the one with it.

| Module | Theorem | Statement |
|---|---|---|
| `SchedulerProofs` | `TypeCorrect` | `Spec => []TypeOK` |
| | `LedgerCorrect` | `[]LedgerExact`: the ledger is the sum over what runs |
| | `CapacityCorrect` | `[]CapacityRespected` |
| | `ReservationsHonest` | `[]ReservationSound`: a reservation is for a waiter that only the budget keeps out, and the latch tells the truth |
| | `FrozenBehindReservation`, `HeadFirst` | nobody is admitted past a reserved or budget-blocked head |
| | `NoDeadlock`, `AdmissionsComplete` | no stall, nobody overlooked |
| | `ModelOrder` | requests of one model are admitted in order |
| | `Implementation` | `Spec => ImplementsPoolAdmission` |
| `BreakerProofs` | `BreakerTypes` | `CSpec => []CTypeOK` |
| | `OneProbePerCooldown` | `[]ProbesApart` |
| | `TripNeedsStreak` | `TripsOnStreak` |
| `QueueProxyProofs` | `ProxyTyping` | `QSpec => []QTypeOK`, the gauges are the requests they count |
| | `SlotsNeverDrift` | `[]SlotsExact`: the scheduler's counters are the charges of those that hold a slot |
| | `ReportedOnce` | `[]OneEvent` |
| | `CancelledIsNeverSent` | `CancelHonoured` |
| | `ProxyUsesAdmission` | `UsesPoolAdmission` |
| | `ProxyWithinCapacity` | caps, budgets and the mutex, measured on the requests that hold a slot |
| `SemaphorePathProofs` | `SemaphoreTyping` | `SSpec => []STypeOK` |
| | `SlotsNeverLeak` | `[]SlotsExact`: free, handed on and held slots add up to the cap |
| | `CancelledNeverRuns` | `CancelHonoured` |
| | `PathImplementsAdmission` | `ImplementsPoolAdmission` |
| `EventWriterProofs` | `WriterTyping` | `WSpec => []WTypeOK` |
| | `RowsAccounted` | `[]Account`: no row disappears; what was emitted before the sentinel is drained |
| | `CountersTellTheTable` | `[]StoredAsCounted` |
| | `WriterIsEventLog` | `ImplementsEventLog` |
| `ModelLoadsProofs` | `LoadsTyping` | `MSpec => []MTypeOK` |
| | `LoadsRecordedOnce` | `[]RowsMatchLoads` |
| | `LoadsReArmed` | `[]ReArmsWhenOthersRun` |
| `FunctionsProofs` | `AcceptedIsServable`, `SlotsStayMutexes` | `AdmitsEveryPrompt`, `SlotKeepsMutex` of every readable configuration |
| | `WarnedNeverBinds`, `UnlistedFillsDefault` | `NeverBinds` of a pool the startup warning calls unbounded, unless a model without knobs is in it; its negation if one is |
| | `LeastTierCovers` | `LeastCoveringTier` of every tier table as it may be written |
| | `CurvesCount` | `CurvesCountCalls`: each bucket holds the sum, over its ticks, of the calls in flight |
| | `TokensAreConserved` | `TokensConserved` |
| | `StacksAdd` | `StacksAddUp`: top names and the rest add up to the total |
| | `TablesDoAgree` | `TablesAgree`: three tables and the curves tell the same story |
| | `ConcurrencyMeasured` | `ConcurrencyIsMeasured`: the sweep line gives what the direct sum gives |
| | `SummariesAreSound` | `SummariesSound`: percentiles split their calls, cells part them |
| | `AllPromptsAdmitted`, `WarningIsTrue`, `AllSlotsStayExclusive`, `CurvesAreExact`, `SummariesAreTrue`, `ViewsDoAgree` | the six invariants of the run `Functions`, of any configuration, tiers and table |
| | `RunIsSound` | `FSpec =>` these six, always: every state of the run meets the hypotheses |

**Scheduler.** `TypeShape` adds to the types what ties the variables together:
the list holds exactly the waiting requests, each once, and a request that
waits or runs has a `req` whose cost fits its pool. The ledger is a sum, stated
without recursion as the number of unit tokens that running requests hold
(`UnitsHeld`); `RunStarts` and `RunEnds` show that an admission adds exactly the
tokens that `used` is charged and a release removes those it refunds. `Capacity`
then follows from `Fits` by way of the exact ledger: `Fits` looks at counters,
capacity is about runs. The refinement needs the same: `AdmitHasRoom` shows that
a pass admits only where the abstract `Room` holds. `AdmissionsComplete` and
`NoDeadlock` rest on `ParkHasRun`: the pass that admits nobody leaves in each
pool with a waiter a run, because the head of an empty pool would fit
(its cost is at most the budget). `ModelOrder` adds `ArrivalOrder` (the list is
sorted by arrival), since aging never reverses two arrivals of one model.
`ReservationSound` says nothing of the middle of a pump, so it is not inductive:
a release makes room for the reserved head while its latch still stands.
`Reservations` says what a latch stands for in every state: for a reservation,
or, while `pump` runs, for the head of a pool that fits now (`ReadyHead`) and that
the passes still to come must admit before `pump` may return.

**Breaker.** The inductive invariant `IInv` ties the ages the breaker keeps to
those of the probes under way (`ProbeClock`: half open, the fresh probe is as old
as `probeAge`; open, it is at least as old as `openAge`), so that a fresh probe
keeps another from being armed (`NoArmBesideFresh`); and its counter to the
recorded streak (`StreakCounted`).

**Request path.** `QInv` says of each request alone what its life may look like
(`Lives`: who queues may be cancelled, who is sent was not; exactly the answered
ones are reported, once, and the breaker was told of an attempt and of nothing
else), and of the counters that each is the number of the requests, or of their
units, that it stands for (`Tallied`). A step changes one request, so the
counters move by that request's share. The clamp at zero of `release` would break
this; the proof shows it never bites. `Breakers` adds that a closed
breaker has not used up its failures, which keeps its counter in range. Capacity follows in two
steps: the counters fit (`CountersFit`, an invariant of `Admit`'s guard), and they
are exact.

**Semaphore path.** `Fits` pairs the states of a call with those its task may be
in, `AreWaiters` says that the list of the semaphore holds exactly the tasks that
wait, each once, and the slots add up. A wake-up hands slots on within that sum
(`WakeUp` takes the first waiters, by rank, so that their number is known). The
proof shows in passing that a withdrawn task never ends with the slot: under
asyncio the branch `if got: sem.release()` of the withdrawal
(`queue_proxy.py:1487`) is a safeguard that is not taken.

**Event writer.** `Protocol` ties the writer's phase and the application's to the
one sentinel; `Order` says that the rows of table, batch and queue, in this order,
are in the order of their emission, until the writer is cancelled and only the
table counts. That nothing from before the sentinel is left when the writer stops
rests on `Protocol` (behind the sentinel are only rows emitted after it), the
refinement on `Order`: there a step that writes
rows, or that leaves some behind when it fails, is one `StoreRows`
of `EventLog`.

**Cold loads.** A poll treats each model apart, so the invariant is a statement
about one model (`Tracked`, and `Timed` for the order of its times, in which the
poll under way lies last; the clock is not set back): an armed entry, and a load
under way, has no row yet; a load that was seen starting stays armed until its
row is there or lost; and an armed entry is younger than every load an answer
showed to be over.

**Configuration.** Which entry of a list is the last that declares a knob is a
greatest position (`ReadFromAnEntry`), so what is read is what some entry says.
`Readable` is what the loaders return; as everywhere in the model a cap divides
the unit. `AcceptedIsServable` then follows from the guard (the base cost fits)
and the clamp (`ChargeWithinBudget`); `SlotsStayMutexes` from the seed;
`WarnedNeverBinds` from a comparison of two sums model by model. Its one
hypothesis on the models that are asked for, that none without a knob is in the
pool, is needed: `UnlistedFillsDefault` lets such a model, which has no cap, run
once more often than the budget has units. For the tiers, places in the sorted
table are counts, and counting is shown to number the tiers from 1 on without
gaps, so the first tier that covers is the least one.

**Views.** An overlap of two spans is the number of ticks in both, so a curve's
bucket, a sum over calls of overlaps, is a set of pairs of a call and a tick, and
the reference counts the same pairs tick by tick. From there on sums are parted:
the buckets part the window (tokens), the groups part the rows (tables, cells,
stacks), the break points of the sweep line part the time before `x`, over each
part of which the count of calls does not change (the prefix integral,
`PrefixCounts`, an induction along the break points). The loop of
`_bucket_concurrency` stops at the first bucket that the call does not reach; the
proof shows that none behind it would be reached. A percentile's rank is that of
a call because the numbers of calls up to a value grow past every rank; how many
calls are slower or faster than it follows from the rank alone.

What these theorems assume of a table: `EventTable`, the times of a row are in
order (enqueued, acquired if at all, done), which `proxy` guarantees as long as
the clock is not set back between them; `Divisible`, of the tokens' theorem only,
that `Scale` is a multiple of the length of each call, which is what `Scale` is
for (the code divides floats); and `NoOther`, of the stacks' theorem only, that no
model and no alias is called `<other>`. This last is a condition on the operator:
the code writes the curve of the rest over one of that name
(`metrics_db.py:404`), and the chart loses it. There is no hypothesis on the
number of rows, models and keys, nor on the window and the buckets beyond
`since <= now`. `RunIsSound` closes the circle: every state that the run
enumerates satisfies what the theorems assume, so no hypothesis is empty.

**Only model-checked.** Every invariant and action property of a passing run, and
every refinement, is stated by a theorem. Left to TLC is liveness
(`SharedWaitersServed`, `Recovers`, `CancelAnswered`, `EveryoneAnswered`,
`ShutdownEnds`), which is out of this prover's reach, as is ENABLED; and the
four statements of section 6 that it refutes.

## 5. Mutants

Beside some definitions stands one marked `mutant`: the same definition with a
plausible bug. `PROJECT.json` names for each property one that breaks it.

## 6. Where the code and its documentation differ

* `EveryWaiterServed` in an exclusive pool: a head of the other model is never
  reserved for, and arrivals of the resident model pass it for ever
  (`docs/COST-SCHEDULER.md:336`, "no job starves").
* `ProbeDecides`: while a breaker is half open any counted outcome, also that of
  a request from before the trip, is taken for the probe's (`breaker.py:203`).
* `BreaksAreErrors`: a read-timeout in the middle of a stream is reported as
  `client_abandoned` and is neutral to the breaker (`breaker.py:14-16`, "all
  surface as upstream_error").
* `SlotTracksEngine`: a disconnect noticed while reading from an engine without
  abort releases the slot at once (`queue_proxy.py:1254-1256`). A drain that
  gives up on a failed or timed-out read is not counted against the claim: the
  comment allows it, and what the engine does then is left open (`"unread"`).

Four more have no run of their own.

The startup warning (`queue_proxy.py:579-584`, `docs/COST-SCHEDULER.md:253-255`)
names pools in which "the admit test can never fail", and says that an uncapped
model keeps the budget bindable. But it looks only at models that have a cap, a
cost or a pool (`queue_proxy.py:595`). A model without any of these is admitted
too: into the default pool, uncapped, at `OVERLAAT_DEFAULT_COST`
(`queue_proxy.py:1524-1526`). With `chat` capped at 2, flat weights, a budget of 1.0
and requests for an unlisted `bulk`, the warning names `default`, and its
budget binds. `WarningTrue` therefore states the exception, and that it is the only
one; `UnlistedFillsDefault` proves that it is real.

A heavy head that waits for budget
reserves the pool, so that the base-cost request of which
`docs/COST-SCHEDULER.md:239` says it "always fits" waits behind it (this is
`ToReserve` and `FrozenWhileReserved`).

`host_logger.py:598` says that the entry of an evicted model is dropped "so a
future reload re-arms cleanly". An answer in which nothing runs is discarded before
that (`host_logger.py:575`): a model that is armed, evicted and loaded again while
nothing else runs gets a row that begins in the load before. `ReArmsWhenOthersRun`
is about the other case.

And `metrics_db.py:251` says that the list
of recent requests shows rows in flight, but every row is emitted when its
request has ended (`OneEvent`).

## 7. Not modelled, and the plan

Not modelled:

* Usage API: read-only endpoints and a page; its only state is a cache of
  aliases with a time to live, which names rows.
* Database backends, and the host logger's samples of memory, processes and
  GPU: input and output with no protocol of their own. What others rely on
  (which backend, one transaction for a batch in SQLite) is in `EventWriter`.
* Of the request path: bodies and headers, the estimate of a prompt's tokens, the usage read from the tail of a
  stream, the counters served and errored, wait times, the status view.
* Of the views: host samples, first-token times, decode rates, cached tokens,
  the list of recent requests.
* Floats: costs and times are exact here, and the margins that absorb rounding
  are left out.

What is left to prove of the models, in this order:

1. `PoolAdmission`: that the abstract specification itself keeps the capacity,
   so that every implementation inherits it from its refinement alone.
2. `QueueProxy`: probes apart and trips on streaks, which `BreakerProofs` shows of
   the breaker's clients, of the request path that really calls it.
3. `Configuration` and `Scheduler`: that the scheduler never refuses, as too large
   for its pool, a request of a model that `AcceptedIsServable` speaks of.
