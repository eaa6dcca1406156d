# A verification project for Behemoth

Behemoth trades tick bars through JForex. A Python service (FastAPI, one event
loop) keeps market state, features, account-risk reservations and barrier
scans; a Java strategy inside the broker's platform feeds it ticks, asks it for
predictions, and turns the actions it returns into market orders. This
directory holds TLA+ models of that runtime, the TLC runs that check them and
TLAPS proofs about them.

Paths below are relative to the repository: `behemoth/` stands for
`src/behemoth/`, `jforex/` for `src/jforex/src/main/java/com/behemoth/jforex/`.

## 1. Inventory

### Components, their state and their operations

| Component | State | Operations | Hard because |
| --- | --- | --- | --- |
| Reservation store (`behemoth/runtime/state.py`, `reservation_store.py`, `behemoth/risk/reservation_*.py`) | rows, audit rows, lifecycle cache | create, promote, release, expire, transition | three copies of one state, written by statements that commit one by one |
| Trade ledger (`state.py`) | `active_trades` | open, touch, update | duplicate reports of one broker position |
| Barrier manager (`behemoth/runtime/barrier_manager.py`) | `barrier_scans` | register, evaluate a bar, link a position, reject legacy scans | two transactions per bar; counts down per evaluation, not per bar |
| Predict orchestrator (`behemoth/api/predict_orchestrator.py`, `order_submission.py`) | none of its own | seven steps: risk and expiry, barrier evaluation, releases, registration | moves reservations and scans that other handlers move too |
| Orphan cleanup (`behemoth/api/server.py`) | none | every 300 s releases pending reservations that no scan refers to | a second, different notion of "stale" |
| Tick ingest (`server.py`, `tick_aggregator.py`, `state.py`) | feed tracker, aggregator buffers, bars, row counters | tick, batch, backfill | duplicates, retries, partial failures, restart |
| Symbol worker (`jforex/worker/`) | queue, pending batch, sequence counter | enqueue, batch, flush and retry, trigger prediction | lost responses, sequence seeding from another thread |
| Order flow (`jforex/core/`, `JForexExecutionPort`, `BehemothJForexStrategy`) | labels of scans, pending fills | submit, fill, reject, close | worker thread against strategy thread, ten second timeout |
| Live readiness (`jforex/live/`) | state per symbol | warm-up, bridge, backfill, live tick, heartbeat, retry | must become READY again after a failure |
| Account risk (`behemoth/risk/account*.py`) | daily anchors, snapshots | decision, allocation | order of allocation, boundaries of the budget |
| Bar alignment (`behemoth/runtime/bar_alignment.py`) | none | pure | boundary arithmetic |
| Features (`behemoth/core/features.py`, `state.py`) | the bar table | the vector of a bar, cut-offs, warm-up check | nested windows, lags and fall-backs over a pruned table |
| Bar script (`scripts/build_global_tick_bars.py`) | rest of a month, tick index, last close | one file after the other, aggregation | bars that span two files |
| Straddle backtest (`scripts/boostlss_xs/meta_label_straddle.py`, `reversion_straddle.py`) | block times, month in memory, trades | candidate, tick, exit | two passes, a month cache, folds without embargo |
| Cross-sectional pipeline (`scripts/boostlss_xs/`) | pooled matrix | features, targets, folds, meta-labeler | alignment through filters and a sort, embargo in rows |
| Tick downloader (`scripts/download_tick_vault_data.py`, `parallel_download.py`) | monthly files, a lock file | find missing ranges, download, merge, write | kills and failures between download and write, a lock that is checked first and made later |
| Live runner (`scripts/run_jforex_live.py`) | two child processes | start, wait for health, watch, stop | signals at any moment, children that end or do not |

Schemas, dashboards, metrics, Java runners, state drivers and the other scripts have
no control state worth a model; section 14 and `PROJECT.json` say why.

### How they interact

The worker posts batches to `/ticks/batch`; the response says which bar sizes
completed; for those the worker calls `/predict`. The orchestrator expires stale
reservations (step 4), evaluates the barriers of the completed bars (step 6),
releases the reservations of expired scans and registers new scans (step 7).
The response's OPEN_MARKET and CLOSE_MARKET actions become orders; fills and
closes come back as messages on the strategy thread and are reported to
`/trades/open` and `/trades/update`, which promote and release reservations and
link scans to positions. In the background the orphan cleanup releases pending
reservations without a scan.

The Python handlers are `async def` functions without an `await` inside: each
runs to its end before another starts. What interleaves is the order of the
requests, the Java threads, and failures: an exception or a dying process
between two statements that commit separately.

### What makes each correct

* Reservations: one lifecycle edge at a time; audit first and never lost track
  of; nothing the caller named still holds capital after a release; a bound
  position stays bound.
* Scans: one OPEN_MARKET per scan, at most one CLOSE_MARKET, each for a scan
  that is in the state the action implies; a horizon counts bars.
* Entry pipeline: a reservation is freed only when its scan is over, and is
  freed once it is.
* Feed: every accepted tick is in exactly one bar, and every bar that completes
  is evaluated.
* Orders: no order without a record, every position closed or known open.
* Readiness: entries only when the feed is continuous; a transient failure does
  not pause a symbol for ever.
* Account risk: trading depends on the account alone, not on which of the
  reports of a symbol arrived, and losses of the day are not forgiven.
* Bars and features: research and runtime compute the same from the same ticks.
* Research: no row, label or model knows the future.
* Downloads: what a run was asked to load is there after it, or is found missing
  by the next.
* Live runner: neither child outlives the script or runs on without the other.

## 2. Plan

1. `ReservationStates`, `ReservationLedger` (abstract), `ReservationStore`,
   `ReservationStoreProofs` - done.
2. `ScanLifecycle` (abstract), `BarrierScans`, `BarrierScansProofs` - done.
3. `EntryPipeline`, `EntryPipelineProofs`: orchestrator steps 4, 6 and 7, orphan
   cleanup, trades and restarts over `ReservationLedger` and `ScanLifecycle` -
   done.
4. `TickFeed`, `TickFeedProofs`: worker batching and retries against the feed
   tracker, the aggregator and the bar table - done.
5. `OrderFlow`, `OrderFlowProofs`: worker thread, strategy thread, broker - done.
6. `Readiness`, `ReadinessProofs`: startup, bridge, hand-over and heartbeat -
   done.
7. `AccountRisk`, with `SessionAndResearchProofs` - done.
8. `BarBuilding`, with `MarketDataProofs`: the bars of the research script and of
   the runtime - done.
9. `FeatureWindow`, `StraddleBacktest`, `XsWalkForward`, with
   `SessionAndResearchProofs`: research against the runtime and against the
   future - done.
10. `TickDownload` (proved about in `MarketDataProofs`), `LiveRunner` (proved about
    in `SessionAndResearchProofs`): the two scripts whose state outlives a call - done.
11. Still worth doing: the composition of `Readiness` with the failures of
    `TickFeed`.

An OCO module was planned and dropped: nothing in production adds an OCO group
or calls its marks.

Each keeps its parameters as CONSTANTS with named assumptions, one action per
operation, and recursion as recursive functions or folds, so that invariants can
be proved as well as checked.

## 3. The reservation store

`ReservationStore.tla` models `StateManager`'s reservation methods and their
twin `ReservationStore` (the code is the same statement for statement). One
action is one SQL statement, so that an exception or a dying process can fall
between any two:

| Code | Action |
| --- | --- |
| `create_account_risk_reservation`: INSERT, audit INSERT, cache | `StartCreate`, `AuditCreation`, `CacheCreation` |
| `promote_...`: SELECT by id, or oldest of the candidate | `PromoteByReservation`, `PromoteByCandidate` |
| `release_...`, `expire_stale_...`: SELECT, then a loop | `StartRelease`, `StartExpire` |
| `transition_...`: validation, audit INSERT, UPDATE, cache | `WriteAudit` or `RefuseTransition`, `UpdateRow`, `UpdateCache` |
| an exception from a statement | `StatementFails` |
| the process dies and the next one opens the database | `Crash` |

`call` is the method in progress with the rows it still has to process. Calls do
not interleave, because the handlers never await inside one. The amounts of a
reservation are left out: no branch reads them. Symbol and family, two equality
columns that always appear together, are one `Book`.

`ReservationLedger` is what callers rely on: a reservation is created, moves
one edge at a time, and keeps the position its promotion bound. The store
implements it with `status` and `position` read from the row.

### The run `reservation_store`

Two reservations, positions and candidates, one book, two faults. Two
reservations are what the properties can tell apart: a loop needs a second row
to leave behind, `ORDER BY created_ts` a second candidate row. Two faults give a
failure inside a call and another inside the next call on the same row, or
a failure and a restart. `Reservation`, `Position` and `Candidate` are symmetric.
About two million states. Nothing is stopped for good (a fault can be the
last step the bound allows but the API calls remain enabled until every
reservation is in a terminal state; even then a refused transition is a
step), so deadlock is checked.

| Property | What it says |
| --- | --- |
| `TypeOK` | types of the tables and of the call |
| `AuditTrailSound` | trail = walk of the lifecycle, followed by the row with at most the last event ahead |
| `NoUnauditedMove` | the event of a move is written before the move |
| `CacheAgreesWithRow` | the second validation, in the cached object, cannot raise after the row changed |
| `SelectedRowsStayLegal` | the loops are never cut short by a refused row |
| `NoneLeftBehind` | a release or expiry that ends has left no matching row active |
| `ImplementsLedger` | refinement of `ReservationLedger` |

### What is proved

`ReservationStoreProofs.tla` proves `Spec => []IInv` for every set of
reservations, positions, candidates and books and any number of faults, from the
two assumptions on the constants (`Null` is none of the values, `MaxFaults` is a
natural number). `IInv` adds to the properties what they need to be inductive:

* `CallShape` ties the call in progress to the database: in front of the UPDATE
  the last event names exactly the coming move, the move is an edge, and the row
  in process is no longer among those to do. Without it neither the audit trail
  nor the cache property survives `UpdateRow`.
* `RowShape`: an absent row has no trail and no cached object, a pending one no
  position. Without it creation could start on an old trail.

Every checked property follows, among them `NoUnauditedMove` as an action
property and the refinement `Spec => ImplementsLedger`.

## 4. The barrier manager

`BarrierScans.tla` models `BarrierManager` over its table of scans, one action
per database transaction:

| Code | Action |
| --- | --- |
| `reject_legacy_active_scans`, called from the lifespan | `RejectLegacy` |
| `register_scan` | `RegisterScan` |
| `_process_scanning_scans` and its transaction | `EvaluateScanning`, over `TouchSide` and `Step` |
| `_process_holding_scans`, its transaction, and the return of the actions | `EvaluateHolding`, over `Counted` and `CountDown` |
| an exception in the second transaction | `HoldingFails` |
| `/trades/open`: `find_holding_scans`, first one without position, `set_broker_pos_id` | `LinkPosition` over `Linked` |
| the process dies, between any two transactions | `Restart` |

`store` tells a manager on a file from one in memory. `server.py` creates the
second (`BarrierManager()`), the first is what the constructor and
`reject_legacy_active_scans` are written for; a restart of the second loses
every scan (`LOST`). A file may hold rows written by a version without signal
closes: the initial states contain up to `MaxLegacy` of them, SCANNING or HOLDING.

Prices are abstracted to two sets per bar, the scans whose upper and whose lower
barrier it touches. They are chosen freely: barriers of two scans of a symbol
are unrelated. `told`, `mute`, `seen` and `filled` are histories: what was
returned to the caller for a scan, which scans lost the action of their first
phase, how many bars found a scan in each state, which scans had their order
filled. "Told" ends at the return of the method; what becomes of an action when
the process dies later, or another step of the request raises, belongs to the
caller.

A first transaction that raises is rolled back and nothing was returned, so it
is no step. A failing second transaction leaves the first committed: its scans
are HOLDING or EXPIRED and no order or release was ever returned for them. The
properties say exactly how far this reaches: such a scan is told nothing, or
later a CLOSE_MARKET without an OPEN_MARKET, which the client ignores because
it has no label for it (`OrderBookingService.closePositionByScanId`).

`ScanLifecycle` is what the orchestrator may assume: one step per bar, with all
of its actions, or an interrupted bar that tells nothing and lets no scan exit.
In the mapping, the scans of a committed first phase are still "watching" until
the second phase returns.

### The runs

`barrier_scans`: two scans, two symbols with one candidate each, horizons 1 and
2, one legacy row, one fault, under `FairSpec`. Two scans are needed for a sibling (one opened by the bar that counts the other down; two HOLDING
scans of a candidate waiting for a position) and two symbols for a bar that must
not touch the other one's scan. Horizon 1 expires or completes at the first
count, horizon 2 is the first with a bar in between. One fault interrupts the bar
that opens a scan or one that holds it; any number of them is a matter of the
proof.

Fairness: the lifespan runs `RejectLegacy` before the server accepts requests,
and a handler that started a bar ends it, `WF` of both. `SF` of
`Evaluate(sym)` says that bars of every symbol keep being evaluated; strong,
because the evaluation is disabled in the middle of a bar of another symbol.
That is an assumption about the feed, not something this component can give.

| Property | What it says |
| --- | --- |
| `OneEntryOneExit` | the complete list of what may ever be told about one scan |
| `ActionsFollowStates` | a committed state has had its action told, outside an interrupted bar |
| `HorizonsCountBars` | bars left plus bars seen is the horizon, in both phases |
| `PositionsLinkedOnce` | a position belongs to one scan, of the right candidate |
| `LegacyNeverTrades` | no order is ever returned for a legacy scan |
| `ImplementsLifecycle` | refinement of `ScanLifecycle` |
| `ScansEnd` | every active scan ends |

`PositionsLinkedOnce` stops at the candidate on purpose: `/trades/open` links
the newest HOLDING scan without position, so that with two scans of one
candidate the position may be linked to the sibling of the scan whose order was
filled. The close does not depend on it, the client finds the position by
`scan_id`.

### What is proved

`BarrierScansProofs.tla` proves `Spec => []IInv`, every safety property above,
the action property and the refinement, for every number of scans, symbols,
candidates and horizons and any number of faults, from `ScanConstants`.
`IInv` adds two parts to the properties:

* `RowShape`: what the status of a row says of its other fields and of the
  histories (a SCANNING scan was never held and never told anything; a LOST row
  was in a memory store; a legacy row that is still active means that the
  lifespan has not finished).
* `BarShape`: between the two transactions, the scans of the first phase are
  HOLDING or EXPIRED with nothing told yet, and outside a bar there are none.

The refinement proof has one lemma per action. `EvaluateScanning` maps to a
stutter, `EvaluateHolding` to `Bar`, `HoldingFails` to `Interrupted`, and
`RejectLegacy` to `Reject`. `Restart` is the one that splits: on a file in the
middle of a bar it is `Interrupted`, otherwise a stutter, and in memory it is
`Forget`.

`ScansEnd` stays with TLC.

## 5. From a prediction to a closed position

`EntryPipeline.tla` composes the two components above with everything that moves
them: the seven steps of `/predict`, the orphan cleanup, `/trades/open` and
`/trades/update`, the client that executes actions and the broker. The tables
are instances of the abstract specifications (`Ledger == INSTANCE
ReservationLedger`, `Scans == INSTANCE ScanLifecycle`), so that what section 3
and 4 prove of the detailed ones is what this module builds on.

| Code | Action |
| --- | --- |
| `PredictionOrchestrator.execute`, step 4: the stale reservations | `StartPredict` (the SELECT), `ExpireRow` |
| step 5, injected `build_predictions_fn` with the allocator | `Select` (external) |
| step 6, one completed bar size after the other | `EvaluateBar`; `EvaluationFails` when the second transaction raises |
| `prepare_predict_actions` and `_release_barrier_action_reservation` | `ReleaseRow` over `ToRelease` |
| step 7, injected `register_scans_fn` | `RegisterScan` |
| the response; an exception in a step; a lost response | `Respond`, `RequestFails` |
| `_orphan_reservation_cleanup_loop` | `Ages`, `OrphanCleanup` over `Orphaned` |
| `SymbolWorker.executeActions`, `OrderBookingService.submitMarketOrder` | `Submit`, `Blocked`, `SubmitTimesOut` |
| `OrderBookingService.closePositionByScanId` | `SendClose` over `Labelled`, `CloseFails` |
| the broker's engine | `Fill`, `Reject`, `CloseDone` (external) |
| `OrderLifecycleHandler`, `/trades/open`, `/trades/update` | `OpenTrade`, `UpdateTrade` over `HeldBy`, `ReportFails` |
| the server dies and starts again | `Restart` |

An entry is one selected prediction and names its reservation, scan, order and
position. Within a request the state between two commits is kept (`req`), for
an exception there leaves what was committed. Because handlers contain no
`await`, a request excludes the cleanup and the reports (`req.phase = "idle"`);
the client and the broker go on meanwhile. Reservations are on disk, scans in
memory, as `server.py` creates them, so `Restart` runs `Scans!Forget` and leaves
the ledger alone. The client stays up: its restart belongs to `OrderFlow`.

Left out: several symbols (requests for another symbol only run step 4, which
`StartPredict` covers), entries without a reservation, the linking of positions
to scans (`BarrierScans!LinkPosition`; nothing here reads the link), and promotion
by candidate, which is used only by callers that send no `reservation_id`.

At this commit the `/predict` endpoint still answers without running the
orchestrator, and candidate discovery (step 1) returns nothing; the repository's
tests drive the steps one by one. The model is the sequence that
`execute` writes down, with the two injected functions as its inputs.

### The runs

| Run | Instance | Shows |
| --- | --- | --- |
| `entry_pipeline` | 2 entries, 2 bar sizes, 1 fault, `FairSpec`, 0.3 million states | safety, and that all capital returns |
| `expired_under_a_live_scan` | no fault | a divergence, below |
| `restart_forgets_scans` | one fault | a divergence, below |

Two entries: one request can release one and select the other, and the report of
one position can meet the reservation of the other. Two bar sizes let one
request open and close the same scan, and fail between two evaluations. One
fault is any of a failing step, a lost response, a stray order, a torn report
and a restart; for any number of them the safety properties are proved.

| Property | What it says |
| --- | --- |
| `OneOrderPerScan` | no second order for a scan, whichever steps, responses and submissions fail |
| `CapitalMatchesTrades` | an OPEN reservation is bound to its own position, which is an open trade |
| `PositionsCovered` | a position under a running scan holds capital, unless the TTL took it before the fill |
| `FreedOnlyWhenOver` | no release of capital that a scan or a position still needs |
| `OrphansFreed` | the cleanup loop frees what a failure left pending |
| `AllComesToAnEnd` | unless something failed, the system comes to rest: no entry holds capital or has an order in the market any more |

`torn` and `stray` mark what the code gives up on: a report whose handler raised
half way or never arrived (`PythonPredictionClient` retries nothing), and an order
placed by a submission that the worker had already abandoned after its ten
seconds. The properties name them exactly where they need them.

Fairness: a started handler runs on, a client whose scan is active keeps asking,
pending reservations get older, the client executes the actions it has and the
broker answers (`WF`). Reports and the cleanup task have their turns although
requests keep disabling them, and some bar ends each scan (`SF`): the last is
`BarrierScans!ScansEnd` used as an assumption. An entry takes each of these steps
finitely often, so that conditions on the union of the steps (`Outside`,
`InTheLoop`) say what one condition for each step and entry says, and are cheaper
to check. `OrphansFreed` needs no
exception for failures, `AllComesToAnEnd` does: a lost report leaves an open
reservation for ever.

### Two divergences

* `ReservationState.EXPIRED` is documented as "expired without being opened
  (horizon expired)" (`reservation_state_machine.py:39`). Step 4 expires every
  pending reservation older than the TTL without looking at scans, so
  `ExpiredMeansHorizonOver` is violated: the scan may still enter, and the
  position it opens holds no capital. The cleanup loop, for the same
  reservations and the same TTL, does ask for the scan.
* `src/CONTEXT.md:71` has the state manager persist "barrier state and position
  lifecycle". `server.py:616` creates the barrier manager on its own in-memory
  store: after a restart `OpenTradesKeepTheirScans` is violated, and nothing
  returns a CLOSE_MARKET for the position any more.

### What is proved

`EntryPipelineProofs.tla` proves `Spec => []IInv` and, from it, `TypeOK`, the
three invariants and `FreedOnlyWhenOver`, for every number of entries, bar sizes
and faults, from `PipelineConstants`. `IInv` is `TypeOK` with four parts:

* `PhaseShape`: the worker waits for its response, so the inbox is empty during a
  request; without it the same OPEN_MARKET could be in a response being prepared
  and in the one being executed.
* `OrderShape(e)`: the order comes after the scan entered, reports come after
  the order, and so does the trade.
* `CapitalShape(e)`: a reservation is bound to its own position or none, only
  after promotion; the one of a running scan was released only if its position
  was closed and both reports were delivered. This is what makes a late fill
  harmless.
* `RequestShape(e)`: what a request remembers is still true when it is used: a
  chosen entry is still pending and unregistered, a row to release belongs to a
  dropped scan.

`Frame` carries the shape of every entry that a step does not touch; each action
has one lemma. `HoldsItself` is why the report of a close, which finds its
reservations by position, never frees another entry's.

## 6. From a tick to a stored bar

`TickFeed.tla` is one symbol from the strategy's `onTick` to the table
`tick_bars`: three processes (strategy thread, worker thread, server) and the
connection between the last two. A tick is its arrival number.

| Code | Action |
| --- | --- |
| `WorkerTickQueue.enqueue`, `awaitDrained`, `markProcessed` | `Enqueue`, `Drain`, `Drained`, `EndBatch` |
| `SymbolWorker` loop, `processBatch` | `Take`, `NumberTick`, `Batched` |
| `flushPendingTicks` and its retries, single-tick fallback | `Flush`, `TimesOut`, `BatchAnswered`, `SingleAnswered` |
| any exception that leaves the flush | `CallFails`, `PredictThrows`, over `Escape` |
| `triggerPrediction` | `Predicted` |
| `stop()`: interrupt, then drain and flush on the caller's thread | `Stop`, `Interrupted`, `DrainAll`, `FinalFlush` |
| `/ticks`, `/ticks/batch`: a request and its response | `Accept`, `GoOn`, `Respond` |
| `_ingest_tick_internal` for one tick of it | `Ingest`: `Reject`, `Buffer` or `Store`, over `Fresh`, `Aggregated`, `Full` |
| `append_bar`, `_prune` | `Inserted`, `Pruned` |
| the raw tick recorder, the insert or the prune raises | `RecordRaises`, `StoreRaises`, over `Raise` |
| a server that dies, and hydration of the counters | `Restart` |

A request stays in `wire` after the worker has given it up: the server may
handle it later, before or after the retry with the same numbers. `serving` is
the request being handled, with the ticks it has still to ingest. Its handler has no
`await`, so that no other request comes in between (`Free`); the client goes on
meanwhile, and the process may die between two ticks. A statement that raises ends
the request there: the raw tick recorder before anything happened, the insert and
the prune after the aggregator has already consumed the ticks.

Run `tick_feed`: four ticks in batches of two, bars of two ticks (two bars, or a
bar and a tick put back), one retry before the fallback, prune on every second
row keeping the last one, three faults: a lost response, a failed append and a
failure of the retry show all that the properties except. 0.35 million states.
Bounds stop arrivals and faults, so the system may stop. Fairness: the worker
thread runs, the waiting strategy thread wakes up, the server accepts the request
that is awaited (others only perhaps) and handles what it has accepted.

| Property | What it says |
| --- | --- |
| `TicksAccounted` | a tick is in the worker's hands, or aggregated, or was in a batch that a failure or the stop broke off |
| `BarsAreBlocks` | no tick twice or out of order in one life of the server, but at a bar that could not be appended; stored bars are blocks of what was aggregated |
| `RowsKeepWindow` | the newest `Keep` rows are always there and the table stays bounded |
| `DrainReturns` | `drain` returns whatever fails |

What the properties except, the code really does: an exception loses the ticks
of the batch that were not numbered yet (`dropped`); a failed append loses its bar
and leaves the number of the bar's last tick unrecorded (`broken`), so that this
tick counts twice when it is sent again, and a late request with earlier numbers
that had been lost on the way is ingested behind it, out of order; ticks
aggregated but not yet in a bar are lost in a restart.

Worth knowing, and not a violation of anything written down: a bar that
completed in a request whose response was lost is stored but never evaluated,
although `barrier_manager.py:266` says "Called on every bar completion", and a
batch that completes several bars asks for one prediction.

### What is proved

`TickFeedProofs.tla` proves `Spec => []IInv`, and from it the three invariants,
for any number of ticks, any sizes of batches, bars and windows, and any number of
retries, failures and restarts, from `FeedConstants`. The parts of `IInv`:

* `FeedShape` follows a tick from the queue to the aggregator. What the worker has
  in hand is numbered in the order of arrival, without a number twice. Every
  request under way covers the hand of the worker or is older than it (`WireShape`),
  and the request awaited is the hand itself. `Passed` is the heart of it: a tick
  in hand whose number is not above the server's last one has been aggregated. This
  is why a response in which every tick is a duplicate still means success.
* `BarShape` says that what was aggregated is some number of whole blocks and the
  buffer, that a number is at most the last one recorded unless its bar broke, and
  that bars break only at the end of a block.
* `RowShape`: the last row is always there, so that a restart reads the same
  counter back, and the rows below the window are at most those of one period and
  of one period more per fault.

`FeedShape` is inductive alone, the other two are inductive with `TypeOK`. A
request is served tick by tick in the model also for this reason: a batch as one
step would need an induction over its ticks inside that step.

## 7. Orders on the client

`OrderFlow.tla` models the two threads of the client between a prediction and
the broker. The worker cannot call the broker itself: it queues a task on the
strategy thread and waits ten seconds; the strategy thread meanwhile may wait
for the worker (`onBar` drains it), report a fill to the server, or stop.

| Code | Action |
| --- | --- |
| `SymbolWorker.executeActions` | `Predict`, `Skip`, `Done` |
| `OrderBookingService.submitMarketOrder`, `closePositionByScanId` | `Submit`, `Close`, `Settle` |
| `JForexExecutionPort.executeOnStrategyThread` | `Ask`, `RunTask`, `Returns`, `TimesOut` |
| `BehemothJForexStrategy.onBar`, `onTick`, `onStop` | `Drain`, `Drained`, `Stop`, `Stopped` |
| `OrderLifecycleHandler` | `Deliver` over `Reported` |
| the readiness of entries; a new client process | `Pause`, `Restart` |
| the broker | `BrokerMoves` (external) |

Run `order_flow`: two scans, so that two actions come in one response and a task
of one waits behind a task of the other; two faults; one change of readiness.
Fairness: the worker's waits end (ten seconds are finite) and a handler returns
when what it waits for has happened.

| Property | What it says |
| --- | --- |
| `OrdersStayClosable` | a live order has a label, unless its submission or close was given up or the client restarted |
| `TradesFollowOrders` | only a given-up submission is reported as a stray; without faults the server's trades are the broker's orders |
| `HandlersReturn` | `onBar`, `onTick` and `onStop` return although the worker they wait for waits for them |

The exceptions are the code's: `closePositionByScanId` takes the label away
before it tries to close, so a close that fails or times out is never repeated;
a submission that times out is still in the queue and runs later, with no label;
labels are only in memory.

`ExecutionStateStore.mark*`, `submitStopOrder`, `touchTrade` and
`activeTrades` are never called in production and left out, as is the flush in
`onStop`, whose join is limited to five seconds.

### What is proved

`OrderFlowProofs.tla` proves `Spec => []IInv` for every set of scans and any
number of faults and changes of readiness, and from it `OrdersStayClosable` and
`TradesFollowOrders`; the one assumption is that the two bounds are natural
numbers. The parts of `IInv`:

* `ThreadShape`, `TaskShape`: a worker without a batch has nothing in hand; each
  action is told, taken and queued at most once, an opening before its closing.
  Without it a submission could run twice and give an order a second life after
  its label is gone.
* `OrderShape`: an order has one submission and one fill, and its fill message
  is only there once the broker filled it.
* `CloseShape`: a close in the queue is waited for by the worker, or its wait
  was cut; a close that has run left no live order, so that its label is no
  longer needed.
* `LiveShape`: an order that is live or still to be placed has a label, a close
  under way or in the queue, or was given up, cut or forgotten. It covers the
  queued submission too, because the label is set before the task runs.
* `FillShape`: a fill to come has its context.
* `TradeShape`: without a failure, the messages in flight for a scan are exactly
  what the server has yet to learn: nothing before the fill, the fill at most
  before the close, and nothing behind the close.

`HandlersReturn` is a liveness property and stays with TLC.

## 8. Live readiness

`Readiness.tla` is one symbol from the start of the session on: the startup
thread step by step (`LiveReadinessCoordinator.initializeSymbol`,
`BrokerBridgeLoader`), the tick and heartbeat callbacks, the registry, the
worker that numbers live ticks at the same time, and the server's filter.

| Code | Action |
| --- | --- |
| `HistoricalWarmupLoader.load`, `markParquetWarming` | `Load` |
| `/backfill`, `markBridging` | `Backfill` |
| the loop of the bridge | `Post`, `Status`, `Expire`, `Check` |
| `seedClientTickSeq` | `Seed` |
| publishing; the outer handler; the symbol leaves the set in flight | `Report`, `Caught`, `Closing`, `Leave` |
| `onTick`, `onHeartbeat`, `maybeRetryBridgeInitialization` | `LiveTick`, `Heartbeat` over `Refreshed`, `Retriable`, `Tradable` |
| `nextClientTickSeq++`, a read and a write without a lock | `ReadNumber`, `PostTick` |
| the broker has another tick; time without ticks | `Arrive`, `Quiet` |

A tick is its place in the broker's stream. `Arrive` puts it into the broker's
history, which the bridge reads, `LiveTick` delivers it to `onTick`; the bridge may
thus have a tick before the worker. Two assumptions about the platform: the history
has a tick no later than `onTick` gets it, and `onTick` gets it before it is stale.
A warm-up is larger than any number of live ticks of the model (`Warm`; the real
one has some 30,000 ticks, which is also why `Need = 0`: 300 bars are there
before the bridge starts). The worker posts tick by tick without failures and
the server stays up; those failures are in `TickFeed`.

Run `readiness`: one tick before and two after the start, a retry with a
warm-up of the same or another size, one failed call; 0.4 million states, in which
each of the cases below occurs. Fairness: threads run, the deadline passes,
heartbeats come, and ticks arrive and are delivered (up to the bound). The worker
needs none: nothing waits for it.

| Property | What it says |
| --- | --- |
| `EntriesFollowReadiness` | entries pass only after a complete bridge, but for the moment between a failure and its publication |
| `HandoverExact` | warm-up, bridge and worker hand the stream over, and the server repeats and loses no tick of it but in the named cases |
| `PausesAndStartsEnd` | a paused symbol is started again, a start ends, a stale feed stops entries |

The server keeps no record of who posted a tick, so histories do: which ticks it took
of the bridge (`bridged`, `again`), which of the worker (`ahead`, `during`, `late`,
by the time it took them), how often it counted the warm-up (`warmups`), what nobody
had posted at READY (`skipped`), what it refused after the seed (`denied`). The cases:

* Counted again (`RepeatsNamed`). `/backfill` has no filter: a retry has the whole
  warm-up aggregated once more, as may a call that has lost its response, in all at
  most once for each failed call. The bridge repeats a tick of its own only when a
  retry's warm-up has another size, which shifts its numbers (`resized`). A tick the
  worker posts before the first window (`ahead`, its numbers begin at 1) is brought
  again by the bridge under `warm + u`. Once something of the bridge was taken the
  server refuses the worker until it is seeded: `during` is empty, and this is
  checked, not assumed. After the seed the worker's numbers are new ones, so what it
  still had in its queue is taken although the bridge brought it (`late`).
* Never counted (`LossesNamed`). The bridge leaves no hole: whatever it went past was
  taken, also when windows are posted again, unless warm-ups differ in size or a
  bridge that was not complete has seeded the worker (`halfway`: a time-out seeds it
  as well). A tick that is stale at READY has then been counted, unless the worker was
  ahead: freshness is that of the newest tick anyone posted, so one tick of the worker
  makes the feed fresh while the bridge's windows end long before. What no property
  promises are ticks still fresh at READY and later than the last window, if the worker
  posted them before the seed: the server refused them, and nobody posts them again.
  After the final seed none of the worker's ticks is refused, unless the seed landed
  between its read and its write or fell behind what it had posted (`disturbed`).

No document of the repository promises that a tick is counted exactly once, so these
are stated as cases and not as findings.

A divergence, shown by `readiness_backfill`: `LiveReadinessCoordinator` wants a
failed backfill to be "retryable, same as broker bridge errors" (line 241) and
starts its reason with "Broker bridge failed:"; the outer handler puts "Live
readiness startup failed:" before it, and the test for a retry is `startsWith`.
The symbol stays paused until the client is restarted.

### What is proved

`ReadinessProofs.tla` proves `Spec => []IInv` and from it `TypeOK`,
`EntriesFollowReadiness` and `HandoverExact`, for any number of ticks and faults
and any sizes of warm-up, from `ReadinessConstants`. `IInv` adds

* `StepShape`: what the step of the startup thread says of the registry. Without
  it a heartbeat during a second start might find an entry that is READY.
* `NumberShape`: while all warm-ups have one size, tick `u` of the bridge always
  has the number `warmed + u`, and the server's last number is at least that of
  every bridged tick. This is why posting a window again is harmless.
* `BridgeShape`: what was bridged is a beginning of the stream, and until a seed the
  server's last number is that of its last tick. Without the second part a window
  posted again after a lost response might leave a hole behind what was taken.
* `WorkerShape`: before the first seed the worker's numbers count its ticks, hence are
  below every number of the bridge; and the newest tick the feed knows of was bridged,
  if the worker was not ahead.
* `WarmupShape`: a start that may come, or has not reached the backfill, is paid for
  by a failed call, because only a failed call makes a symbol startable again.
* `HandShape`: what relates the worker's counter to the server's last number
  between the bridge's last look at the feed and the seed.

## 9. Account risk

`AccountRisk.tla`: the client reports balance and equity once per symbol
(`BehemothStrategyCore.onAccountSnapshot`: `OnAccount`, `Post`, `PostFails`), a
lost call may still arrive (`Arrive`), and `Decision` is
`evaluate_account_risk_decision` over the queries of `state.py` (`Latest`,
`Recent`, `DayStart`, `Reason`). Time is counted in slots.

Run `supervision` (`MCSupervision.tla`, which also runs section 12's `LiveRunner`;
a behaviour belongs to one of the two): two symbols, three days of two slots, three reports, one
fault. Values of money reach each of the four limits, daily and total, both
together, and none. The window of the queries is one day, the smallest the
assumption allows (`DayLength <= Window`; the code looks back three).

| Property | What it says |
| --- | --- |
| `GateFollowsAccount` | a symbol that has all its reports is judged by the account alone, now and in the slot before |
| `DayStartMovesBack` | within a day the reference balance is never replaced by a later one |

The start of a day is the balance of its first report, not the balance at the
reset: losses between the reset and that report do not count.

`SessionAndResearchProofs.tla` proves both, for all symbols, amounts, limits, days and
windows, from `LimitConstants`. `IInv` says that reports have different times,
that any set of them has a first and a last (`Ends`; `CHOOSE` then finds it),
that a row is a report (`RowShape`), and that the table of a symbol that missed
none has them all (`Complete`). `OwnDay` is the key to `DayStartMovesBack`: on a
day with a row of the symbol the query never falls back to other symbols.

## 10. Bars

`BarBuilding.tla` has both programs that cut ticks into bars, over one stream of
prices: `build_global_tick_bars.py` (`EndMonth` over `BarsFromTicks`, with the
rest, the tick index and the last close carried from file to file;
`Aggregated` for the larger sizes) and the runtime (`LiveTick`, `Backfill` over
`Align` and `BuildBar`, `Restart`).

Run `market_data` (`MCMarketData.tla`, which also runs section 12's `TickDownload`;
a behaviour belongs to one of the two): every stream of up to eight ticks of two prices. Two base
bars make an aggregated one, four ticks a live bar, a backfill of five completes
one and leaves one tick; two prices are enough for an extreme that comes twice, in
one child or in the other, which is what `hl_first` and `hl_pos` turn on, and
`MarketDataProofs.tla` has any prices.

| Property | What it says |
| --- | --- |
| `ResearchBarsExact` | whatever the months, the script's bars are the blocks of the whole stream |
| `LiveBarsMatch` | the runtime's bars are those of the script for the same ticks, on a grid that starts anew at a restart |

Two differences between the two are part of the statements: `quote_revisions`
of an aggregated bar ignores the change between two of its base bars, and
`bar_return_sign` of the first live bar of a call is flat, because the previous
close lives for one call of `align`. `/ticks` and `/ticks/batch` add tick by tick,
so that this is every bar they complete.

### What is proved

`MarketDataProofs.tla` proves both for every stream of ticks and prices, every bar
size and every mixture of calls, restarts and months.

The runtime: `LiveShape` is the invariant behind `LiveBarsMatch`. The buffer is the
end of the stream and shorter than a bar, the stream is on its grid where the
buffer begins, every bar is that of its ticks (`BarOf`), and the last one ends
where the buffer begins. `BuiltBar` shows that `BuildBar` finds the extremes and the
first place of each, `AlignBars` that one call cuts a buffer into such bars,
`BarKept` that later ticks change none of them.

The script: `ResearchShape` is the invariant behind `ResearchBarsExact`. The carry is
the end of what was filed and shorter than a bar, the tick index and the last close
are those of the bars so far, and the n-th bar is that of the n-th block of ticks
(`FileBar`). `SameBuilt` shows that the group a month's rows form for one `tick_idx //
base` is that block, and `FileCut` that the groups of a month are the blocks behind
the ones there, whatever the months before left over. From there
`ResearchShapeExact` needs no further step of the script: the larger sizes are
computed from the base bars. `CombinedBar` shows that `_aggregate_from_base` gives the
extremes, the first place of each (`FirstExtreme`: an earlier child wins a tie) and
the ends of the ticks of its children, and `CombinedRevisions` that the changes of a
bar are the sum of those of its children and of the changes between them.

That a finite set of prices has a least and a greatest element, that `Index` is
the first place of one, and that the fold over the children is a sum over disjoint
sets all need an induction. The library's rules take an operator as a parameter;
`Least`, `FoldAdds` and the lemmas like them take the minimal element of the set of
counterexamples instead (`WFMin` of `WellFoundedInduction`).

## 11. Research against the runtime and against the future

Three modules without shared state. `MCResearch.tla` puts them into one run, in
which `study` says which of them a behaviour belongs to; no step mixes two.

`FeatureWindow.tla` models the feature vector symbolically: a number is the term
of the bars it is computed from, so that equality of terms is equality of
numbers. `AppendBar` (with its prune), `ComputeFeatures` (step 3 of `/predict`)
and `Restart` act on the table; the columns are `compute_feature_matrix_from_bars`.
`LiveFeaturesExact`: the vector the runtime computes from the rows it has left
is the one research computes from the whole history. Bounds: windows 2 and 4 with
minimum counts 1 and 2, six rows kept, prune on every second append, nine bars:
one more than the first prune that deletes something.
The docstring `core/features.py:20` calls 289 bars "full precision"; the
slippage from opening gaps needs one more, which the property states.

`StraddleBacktest.tla` models `run_tick_backtest` and `simulate_tick_exact` of
`meta_label_straddle.py` and the loop of `reversion_straddle.py`: `Skip`,
`ExactCandidate`, `ProxyCandidate`, `Tick`, `EndOfWindow`. `TradesAnHourAheadAtMost`
is five statements: one trade at a time, the sigma model and the meta-labeler
are trained on what was known, a straddle sees all ticks of its window, and a fill
comes after everything its trade rests on (`Inputs`: the bar's close, which the
levels, the signal and sigma's row are computed from, and the labels sigma was
trained on) but for the close of its own bar, which it may precede by less than an hour.
The exceptions: the proxy's blocks do not count weekends, and a window that
spills into the next month is cut when an earlier bar whose window ended inside
the month had loaded it (lines 515-523 load two months, but only for the first
candidate of a month). Nine bars of three ticks, months of seven bars, one
weekend anywhere, any subset of the monthly files, seven quotes: up to three
trades, which give both folds something to test.

The exception of the fill is a divergence between code and documents, and the
property states it as the code has it: `ts` is the start of the hour
(`dt.truncate("1h")`), `bar_mid` its last mid, and the scan for fills begins at
`tick_ts > bar_ts` (`meta_label_straddle.py:304`, `reversion_straddle.py:245`). Both
docstrings place the pending orders at the hourly close, and `BACKLOG.md:15-20` calls
the inputs "known at close. Clean." In the model a straddle is filled by the first
tick after the start of its hour, two ticks before the close its level is computed
from. The results of the scripts contain trades that could not have been placed.

`XsWalkForward.tla` models `scripts/boostlss_xs`: bars of all symbols close
(`CloseBars`), then `RunPipeline` computes the pooled matrix (validity filter,
stacking, stable sort by time), targets, folds and the meta-labeler's training
rows. `RowsFollowThePast`: features read the past only; filters and sort keep
rows and targets aligned; what the embargo guarantees; the meta-labeler is
trained out of sample. Rows and targets share one validity filter (`Valid`); in the
code the targets' looks at all features (`run.py:99`), the rows' at those that are not
NaN throughout. The two are one as long as no feature is, which is assumed:
`load_universe` always supplies the intrabar columns. Two symbols, seven times, a window of two and one flat
bar are the smallest instance with a non-empty training set of the meta-labeler
and with a label that outlives the embargo.

The embargo is `max(horizons)` rows of the pooled matrix (`run.py:115`), the
horizon counts rows of one symbol. With 21 symbols five pooled rows are less
than one bar: labels of training rows may close after the first rows predicted,
although `model.py` says "Causal walk-forward". `EmbargoHolds` therefore
promises the closing only for symbols of which the embargo holds enough rows.

Run `research`: 0.23 million states. The three studies end at their bounds. The
specification is `StudySpec`; `XsWindow` is the `Window` of `XsWalkForward` (the
proof module also extends `MCSupervision`, which has names of its own).

`SessionAndResearchProofs.tla` proves all three properties for every value of the
constants that `WindowConstants`, `StraddleConstants` and `XsConstants` allow. They
ask that the volatility and structure windows are shorter than the cost window and
that the table keeps more rows than it and its lag (`runtime/state.py` keeps 600,
the longest window is 288), that a straddle is held for less than a month, and that
the horizons are finitely many positive numbers.

* `FeaturesAreExact`. `FeaturesInv` says that what was served is the vector of some
  bar from at least `Warmup` rows. `Rolled` is a function of the set of values in its
  window (`RolledSame`), and each column's window, seen from the first row kept and
  from the first bar of all, is the same (`SameRaw`, `SameChanges`).
* `StraddleIsAnHourAheadAtMost`. `StraddleInv` is `StraddleTypes`, `SimulationInv` (the
  straddle at work began after the last exit, its month is in memory) and `TradesInv`:
  of two trades the earlier is over when the later's bar starts. This order, not an
  embargo, is what keeps the folds of the meta-labeler apart. `NearQuotients` says
  that a window reaches into one further month at most, which is why two files are
  enough and when the cache falls short.
* `XsKnowsThePast`. `XsInv` says that the matrix is empty or what `Matrix` computes of
  the bars closed; the rest is about `Matrix`. `NthIs` and `NthOrder` are the n-th of a
  set of numbers, `Flattened` the place of an entry in concatenated sequences (the
  offsets are `Stacks`; a least counterexample stands for the induction), `Sorted` that the stable sort is a permutation
  in the order of time. They give `Pooled`: each valid row of each symbol once, with its
  own targets, in the order of time. From it follow `PooledFeatures` (by `AsOfTime`: a
  backward join returns nothing later), `PooledAligned`, and `PooledEmbargo`, whose core
  is a count: the rows of a symbol between a training row and the close of its label are
  fewer than the horizon (`HeldRows`), so that h of them cannot all lie in the embargo.

## 12. Downloads and the live runner

`TickDownload.tla` models `download_tick_vault_data.py`, started by hand, by make
or by `parallel_download.py`, as processes that share a lock file and the
monthly files.

| Code | Action |
| --- | --- |
| a process starts; `_handle_existing_lock`; `unlink`; `touch` | `Launch`, `Check` over `Orphaned`, `Unlink`, `Touch` |
| `get_missing_months` | `Scan` over `Missing`, `MissingIn`, `Holes`, `EndsEarly` |
| download, read and merge of a range | `Fetch`, `NothingNew`, `Write` |
| three tries per symbol | `Fails` |
| the `finally` clause; Ctrl+C; the process dies | `Finish`, `Interrupt`, `Kill` |

Time is cut into slots: Sunday evening, the weekdays, Friday up to the close, and
the weekend. These are the places of a session the code tells apart (before the
close, at it, between close and reopening, after the reopening but nearer to the
close gone by); tolerances and the two-hour threshold are far below a slot. A
file is the set of slots whose ticks it has. `listed` says whether the command of
a process shows the path the lock check looks for; a process is started for one
symbol, and where two are started for the same one that is the default list run
twice.

Its part of the run `market_data`: two processes, one symbol, months of six slots,
so that one month ends inside a week, and a horizon of eight slots, which reaches
into the second month and to the second weekend; one fault. Processes are symmetric.
1.2 million states.

| Property | What it says |
| --- | --- |
| `GapsFilled` | after a run that nothing disturbed the files have every tick up to its end date, with the exceptions below |

`done` remembers the end date of the last run that got all of its ranges and had
no rival; a later fault or rival takes it back. What `get_missing_months` does
not look for are the exceptions: a file that cannot be read, the head of a file
after a merge lost it, and the rest of a month gone by whose file ends at a
Friday's close or on the Sunday evening after it. The last needs no fault at all:
run once on such a day, and again in the next month, and the rest of the first
month stays missing, although the docstring of `get_missing_months` is "return a
list of (start, end) ranges that need filling".

`MarketDataProofs.tla` proves `GapsFilled` for any processes and symbols, any length of
the months, any horizon and any number of faults (`MonthsAreFilled`). The
invariant, `DownloadInv`, which held in TLC before it was proved, has these parts:

* `RunShape`: a process has at most one range of a month, and all of them end at the
  month's end or its `end_date`.
* The head of a file: before the first fault every file begins with the first open
  slot of its month, also what is about to be written (`Headed`); later only the
  head may be missing in front of a range (`Aligned`, `LostHead`).
* `Honest`: a process that is clean, or that works on the files of a symbol that were
  filled before, has no rival, read what it is about to write over, and got all of its
  range. This is what a rival or a fault takes away.
* `ScannedRun`: of such a process each month has a range to come or is `Settled`, that
  is what `GapsFilled` asks of one month; `DoneSettled`: after `done` all months are.

`MissingForm`, `BeforeStart` and `NothingMissing` say what `get_missing_months` finds and
what it overlooks, from `FirstHole` and `NoHoles` about `find_first_market_gap`;
`FilledMonth` says what a range brings. `FetchableIsNow`: between close and reopening
the cap of `get_fetchable_end` cuts off no slot that has ticks.

Two more things the code does and its words do not say:

* After a kill the lock stays, and the next process finds its own command in the
  list of `ps` (`Orphaned` is false once a `listed` process asks): the lock is never
  cleared, although `CHANGELOG.md:659` has "clear orphaned tick vault lockfiles".
* `parallel_download.py` starts several processes "for true parallelism"; there is
  one lock for all symbols, and who meets it exits.

`LiveRunner.tla` models `run_jforex_live.py` statement by statement where a signal
can fall between two of them: `StartApi`, `Install`, `Poll`, `Spawn`, `Assign`,
`Monitor`, `_stop_process` as `Stopped`, `Terminate`, `Kill`, `KillFails`, and
`Signal`, `ChildEnds` at any moment. Its part of the run `supervision`: two signals, so that one
interrupts the handling of the other, and two children that survive SIGKILL for
ten seconds, one in the `try` block and one in its `except` clause. The script
ends, so deadlock is not checked. Fairness: the script runs; each of its waits has
a time limit.

| Property | What it says |
| --- | --- |
| `NothingLeftRunning` | the script leaves a child behind only after a signal that came before the handlers or before `java_proc` was assigned, or when a child survived SIGKILL |
| `RunEndsTogether` | once one child has ended the script ends |

`SessionAndResearchProofs.tla` proves `NothingLeftRunning` for any number of signals and of
children that survive SIGKILL. The invariant behind it: whatever child is up is
either known to the script (`RunnerKnown`) and on the list of what is still to be
stopped (`StopsAll`), or a signal or SIGKILL is to blame. A signal during the
stopping makes a new list, and `StopsBoth` shows that this covers what the old one
had left.

The first exception is short of the docstring, "SIGINT (Ctrl+C) triggers a clean
shutdown of both": the handlers are installed after the API server was started in
its own session, so that an early Ctrl+C leaves it running.

## 13. What stays with TLC

Liveness under fairness and ENABLED are outside what the installed provers do:
`ScansEnd`, `OrphansFreed`, `AllComesToAnEnd`, `DrainReturns`, `HandlersReturn`,
`PausesAndStartsEnd`, `RunEndsTogether`.

Every safety property of a passing run, invariant or action property, is proved by a
theorem of one of the eight proof modules: `ReservationStoreProofs`,
`BarrierScansProofs`, `EntryPipelineProofs`, `TickFeedProofs`, `OrderFlowProofs`,
`ReadinessProofs`, `MarketDataProofs`, `SessionAndResearchProofs`. Those of the runs
that expect a violation are false, and TLC's counterexample is all there is to show.

## 14. Not modelled

* OCO groups: nothing in production adds one or calls its marks; the file is
  written and read and stays empty.
* Candidates, predictions and the allocator (steps 1 and 5 of the orchestrator):
  `/predict` answers without them at this commit, and the functions are injected
  by tests only. They are inputs of `EntryPipeline`.
* The arithmetic of features, costs and models, and the pipelines and validators
  around them: pure functions whose values no state depends on.
* `account.py`: the time zone and hour of the reset, the disabled mode, the guard
  of a single trade and the allocator (called by tests only).
* The endpoints by which an operator releases a reservation (`server.py:1563-1604`):
  `ReservationStore` has the release they call, `EntryPipeline` does not call it, so
  that `FreedOnlyWhenOver` speaks of the handlers and the cleanup.
* Schemas, dashboards, traces, metrics, state drivers, the Java runners,
  configuration, the simulated broker of the local runner.
* Of the live runner: members of the process groups other than their leaders,
  and SIGKILL of the script itself.
* The comparison of data sources, the HistData download and the health monitor:
  input and output without a state that outlives a call.
* Sweeps over parameters, plots and reports.
