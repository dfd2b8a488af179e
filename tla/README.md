# Verification of the betfair trading tool

TLA+ models of the trading system under `src/`, TLC configurations that check
them on small instances, and TLAPS proofs of what holds for every instance.
Paths in this file are relative to the package `src/betfair_trading/` of the
repository unless they start with another directory.

## 1. The system

One Python process (asyncio, one thread) trades pre-match football markets. It
keeps no state on disk but a PostgreSQL database whose tables are append-only.
Four tasks run concurrently and meet in the database, in two in-memory caches
and at the exchange:

| task (`services/scheduler.py`) | runs | touches |
|---|---|---|
| discovery | `MarketCollector.run_discovery` | tracked markets, `markets`, `runners` |
| poll | `MarketCollector.run_poll_cycle`, then per market the callback of `main.py`: features, `DecisionEngine.evaluate`, `ExecutionEngine.on_decision_allow` | snapshots, feature vectors, `decisions`, the exchange, `orders` |
| reconcile | `Reconciler.reconcile_open_orders` | `orders`, `fills`, the exchange |
| keep-alive | the session keep-alive call | the exchange session |

A health endpoint takes a connection of the same pool, and an operator acts by
inserting a row into `config_snapshots`. Every loop logs an exception and goes
on; a shutdown cancels the tasks at whatever await they are.

### Inventory

| component | state | operations | what makes it correct | what is hard |
|---|---|---|---|---|
| Execution engine, `services/execution_engine.py` | none of its own | `on_decision_allow` | one order per decision; a row that tells the truth about it | a stop between placement and row, a lost reply, a repeated call |
| Reconciler, `services/reconciler.py` | none of its own | `reconcile_open_orders` | rows follow the exchange, fills account for every rise, open orders are closed in the end | fill and row are separate inserts; listings are stale when applied; a round ends on any exception |
| Order tables, `db/writer.py`, `models/order.py`, `alembic/versions/004_orders_fills.py` | `orders`, `fills` | inserts, `fetch_open_orders` | the latest row of a decision is its state | which row is latest decides everything |
| Decision engine, `services/decision_engine.py`, gates, `services/gates.py` | `decisions`, runner cache | `evaluate` | position cap, decision before order, kill switch, trading window | count, decide and insert are separate awaits; inputs read early and used late |
| Market collector, `services/market_collector.py` | tracked markets | `run_discovery`, `run_poll_cycle` | an eligible market is decided; a tracked market has all its runners stored | one failing market ends the cycle; kick-off moved while tracked |
| Feature builder, `services/feature_builder.py` | three caches per market | `on_market_snapshot` | features of a market never look ahead; caches complete | caches live as long as the process |
| Ingestor, matcher, Elo, form, `services/external_ingestor.py`, `services/team_matcher.py`, `elo/` | rating history, match list | load, as-of reads | an as-of read uses earlier matches only | equal timestamps, order of loading, two names of one team |
| Dataset and training, `training/` | none | `build`, `train` | features are read before the result is applied | leakage |
| Inference provider, `services/model_inference_provider.py` | model | `initialize`, `get_probabilities` | without model or vector: no edge; a decision names the model that decided | falls back silently; the newest artifact may not be where this process looks |
| The rows together, `db/writer.py`, `alembic/versions/` | all tables | one insert at a time | every row leads to the rows it was made from | hardly any foreign keys: order of inserts and caches decide |
| Edge and stake, `services/edge.py`, `services/sizer.py` | none | arithmetic | stake within its cap, never negative | zero and boundary cases |
| Pool and health, `db/pool.py`, `observability/health.py` | connections | acquire, release | no task waits for ever | the poll task holds up to three at once |
| Client, `betfair_client/` | session | catalogue, books | one clock per request | blocking calls in threads |
| Wiring, `main.py`, `settings.py` | configuration | boot, shutdown | configuration reaches its component | restart, cancellation |

### How components interact

- Poll task and reconcile task write rows of the same order. The only
  synchronisation is that rows are appended and the newest one counts.
- Decision engine and execution engine are joined by a call; what the decision
  engine read (kill switch, time to kick-off, count of ALLOW rows) is not read
  again by the execution engine.
- Operator and process meet in `config_snapshots`: the newest row counts, and
  every boot inserts one.
- Discovery and poll task share the tracked markets; feature builder and
  decision engine cache runners that discovery stored.

## 2. Plan

The most important behaviour comes first: what happens to money at the
exchange. Modules 1 to 8 are written, 9 is planned.

| # | module | models | abstract specification, checks | theorems |
|---|---|---|---|---|
| 1 | `OrderAudit` | what `orders` promises its readers | the refinement target of 2 | |
| 2 | `OrderLifecycle` | execution engine, reconciler, tables, exchange, restart | truth of rows and fills, idempotence, progress | all its invariants and the refinement to 1 |
| 3 | `DecisionPipeline` | poll cycle, decision engine, operator, clock, restart | cap, order of decision and order, kill switch, window | all its safety properties |
| 4 | `MarketTracking` | discovery and poll task, tracked markets, runner and external caches, kick-offs moved, restart | tracked implies stored, caches complete, external features once, a match in its window is decided | all its safety properties |
| 5 | `AsOfFeatures` | Elo and form, ingestor with its matcher, dataset replay | as-of reads against a reference definition (anti-leakage); training rows against the live reads | all its properties |
| 6 | `TaskScheduling` | boot, the four tasks, nested connections, health requests, signal, shutdown | no circular wait, quiet at the end, every turn ends, shutdown ends | types, no circular wait, quiet at the end |
| 7 | `EdgeAndStake` | market probabilities, edge, gates, fallback, Kelly stake | the fallback never allows, a stake in its bounds, exposure of an event | all its properties |
| 8 | `AuditTrail` | who cites whom in the tables, trainer and trading process | references resolve, one bundle per decision, the named model decided, orders are traceable | all its properties |
| 9 | `TradingSystem` | composition of 2 and 3 | at most cap-many live orders per event | from the theorems of 2 and 3 |

## 3. What is modelled

### `OrderLifecycle` (instances in `MCOrderLifecycle`)

A decision with outcome ALLOW stands for its order: `customer_order_ref` is the
hex of the decision's id. The steps are what lies between two awaits.

| state | code |
|---|---|
| `mode` | `execution_mode`, read at boot |
| `call` | the call of `on_decision_allow` in flight: waiting for the exchange to act (`placing`), for its answer (`replying`), about to insert (`recording`) |
| `exchange` | the order at the exchange, with whether the listing still shows it |
| `orders`, `fills` | the rows per decision, in `event_ts` and `fill_ts` order |
| `rec` | the reconcile round: `prev` is what `fetch_open_orders` returned, `cur` what `list_current_orders` returned, `todo` the orders still to be looked at, `half` the one whose fill is inserted and whose row is not |
| `handed`, `faults`, `retries` | decisions handed over; counters that bound failures and repeats |

| action | code |
|---|---|
| `OnDecisionAllow`, `RetryDecision` | `on_decision_allow` up to placement, all early returns; called by the pipeline, or again by hand |
| `AcceptOrder`, `RefuseOrder` | the exchange on `place_orders`; a reference it knows is always refused |
| `ReceiveReport`, `PlaceOrdersRaises` | `_build_and_place_event`: the row built from the report, or the ERROR row |
| `RecordPlacement`, `RecordPlacementFails` | `insert_order_event` and its failure |
| `FetchOpenOrders`, `ListCurrentOrders` | the two reads of a round; a dry run and an empty result return early |
| `PassOver`, `InsertFill`, `InsertLifecycleRow` | the loop body for one order; `todo` is visited in any order, since the query leaves it open |
| `RoundRaises`, `FinishRound` | an exception ends the round, the scheduler's loop goes on |
| `MatchOrder`, `CloseOrder`, `ForgetOrder` | the exchange on its own |
| `Restart` | a crash or a shutdown at any await, and a boot in any mode |

Left out: prices, sides and the JSON payload (no property tells them apart);
sizes are whole units, so the rounding of `NUMERIC(14,2)` is not seen; the
database never answers late, it answers or fails. An order is accepted as
`EXECUTABLE` or `EXECUTION_COMPLETE`; a report of success with a status
`OrderStatus` does not know raises inside `_build_and_place_event`, which leaves the
same ERROR row as a lost reply. The exchange is modelled as
`src/` uses it and as the integration fake behaves. The client that `main.py`
wires does not have the two order methods yet (they exist in the fake): a call of
a missing method raises and is recorded as an ERROR row, as in
`PlaceOrdersRaises`.

### `OrderAudit`

The abstract specification: per decision a `market` (the order as the exchange
knows it) and a `book` (the last row of `orders`). The book follows the market
from behind, closes only with the market's final status and size, and a closed
book is never written again. `OrderLifecycle` implements it under the mapping
`market <- ViewOf(exchange[d])`, `book <- Book(d)`, as long as no call is repeated.

### `DecisionPipeline` (instances in `MCDecisionPipeline`)

| state | code |
|---|---|
| `now` | the wall clock, in minutes |
| `config`, `wanted` | the newest row of `config_snapshots`; what the operator asked for last (history) |
| `cycle` | locals of `run_poll_cycle` and `evaluate`: where it is, the markets left, the minutes to kick-off of the listing, and what evaluate has read so far |
| `decisions` | ALLOW rows of `decisions` |
| `sent`, `leaked` | orders that left, and those that left since the switch went up (history) |

Actions follow `run_poll_cycle` (`StartCycle`, `ListBooks`, `NextMarket`,
`SkipMarket`, `FinishCycle`, `CycleRaises`), `evaluate` (`ReadConfig`, `Infer`,
`CountAllows`, `InsertDecision`) and `on_decision_allow` (`SkipOrder`,
`SizeOrder`, `SendOrder`); around them the clock (`Tick`), the operator
(`OperatorSetsKill`) and the process (`Restart`) move at any time.

Left out: prices and probabilities. Edge, liquidity and spread are one answer of
the data, chosen freely. The drawdown gate is called with 0.0 and always passes.
Tracked markets are all markets and their kick-off is fixed; that is what
`MarketTracking` is about. A book without `market_definition`, for which the client
takes 0 minutes to kick-off, does not occur: such a market is outside its window.

### `MarketTracking` (instances in `MCMarketTracking`)

| state | code |
|---|---|
| `now`, `kickOff` | the wall clock in minutes; the start time of each match at the exchange |
| `markets`, `runners` | the two tables, row by row |
| `tracked` | `_tracked_markets`: the start time of the catalogue that was kept, or `None` |
| `disc` | locals of `run_discovery`: catalogues still to be handled, the market being stored and its runners not yet inserted |
| `poll` | locals of `run_poll_cycle`: the eligible markets left and the one evaluated |
| `known` | `_runner_meta_cache` of `FeatureBuilder` and of `DecisionEngine` |
| `external`, `extRows` | keys of `_ext_id_cache`; rows in `external_feature_snapshots` (history) |

`ListCatalogue`, `SkipTracked`, `InsertMarket`, `InsertRunner`, `FinishDiscovery`
are `run_discovery` with one step per statement, since each statement is awaited
and commits on its own; `DiscoveryRaises` is the scheduler's `except`. `StartPoll`
is the whole of `_get_eligible_markets`, removal of expired markets included.
`BuildFeatures` and `BuildFeaturesRaises` are `on_market_snapshot`, `Evaluate` is
the runner check of `evaluate`; what `evaluate` decides is `DecisionPipeline`.
`Reschedule` moves a kick-off at the exchange at any time, to a later or an earlier
minute, `Restart` keeps the tables only. All markets have the same set of runners,
and the catalogue and the books always contain every market asked for (the request
asks for at most 100, which the model does not bound). A failing statement leaves no row.

### `AsOfFeatures` (instances in `MCAsOfFeatures`)

Two programs, `live` (the trading process) and `train` (the training run), read
one file with engines of their own. They never run in one process; the model
interleaves them so that each is observed at every point of the other.

| state | code |
|---|---|
| `file` | the rows of the CSV: date, teams, whether the goals are there |
| `pending` | the part of the sorted list `matches` the loop has not reached |
| `history` | `EloEngine._history` and `FormCalculator._matches`, which get the same matches in the same order |
| `after`, `rating` | `home_elo_after` and `away_elo_after` per match; `_ratings` |
| `rows` | `X_rows`, each with its match |

`Load` is one turn of the loop of `load_historical_results`, `Replay` one of
`DatasetBuilder.build`; both contain `apply_result` and `add_match` (`Apply`),
and the loop's order is the stable sort by date (`Earlier`). The reads are
operators: `RatingAsOf` is `get_ratings_asof`, `FormAsOf` is `compute_form`,
`Features` is `get_features_asof` or the values of a row, both as of the day: the
trading process passes the instant of its snapshot, which sees the same as long as
the file holds no match of a team on the day it is traded. A rating is the term of
the results it came from (both ratings before, the match, the team), so equality
of ratings is equality of everything that went into them, and the form is the
set of matches averaged over. `Resolve` is `TeamMatcher.resolve` as a function
from names to names: the live program applies the names of the file and reads
under the resolved one (`Lookup`), training does both under the file's. Left out:
the Elo formula, the averages, the rounding of live ratings to two decimals, and
how a name is normalised. A row has two different teams; rows both parsers drop
are no rows.

### `TaskScheduling` (instances in `MCTaskScheduling`)

| state | code |
|---|---|
| `at` | the await a task is at; for main from the start to the end of `main.py` |
| `wants` | the await it goes on to when `pool.acquire` returns |
| `cancelled` | loops with a `CancelledError` on its way |
| `bundles` | bundles of the poll cycle not reached yet |

The control flow of a task is a set of pairs of awaits (`PollPath` and the like)
and `Held` says how many connections `async with` holds at each, so a step from
one to another either gives connections back or waits in `Acquire`. `Raise` is an
exception at any await, `Unwind` the way out of a cancelled task, `Arrive` a
health request. `StartLoops` is `Scheduler.run`, `Shutdown` the signal;
`SchedulerEnds`, `HealthCleanedUp`, `LoggedOut`, `PoolClosed` are the `finally`
parts of `main` in their order, `MainRaises` an exception in main itself, after which
nothing is closed. What the tasks read and write is left to the other modules. A
request to the exchange runs in a thread that outlives a cancelled await; what
the thread does then is the lost answer of `OrderLifecycle`.

### `EdgeAndStake` (instances in `MCEdgeAndStake`)

| state | code |
|---|---|
| `pc` | where the callback of the market is: books read, probabilities there, order being sized |
| `quotes` | back prices of the snapshot, or none |
| `probs`, `own` | the provider's answer; whether it is the model's (history) |
| `allows` | ALLOW rows of the event |
| `chosen`, `order`, `staked` | the runner selected; stake of the last order and of all of them (history) |

The functions of `edge.py`, `gates.py` and `sizer.py` are operators over exact
fractions: prices in tenths, probabilities as numerators over a common
denominator, stakes in pence. Cap and minimum need not be whole pence. `Books`,
`Infer`, `Allow`, `Block` and `Size` follow `evaluate` and `on_decision_allow`,
`Raise` is an exception at any await. `Stakes` compares before it rounds, as the
code does, and rounds a half to either penny, since the float may be a little
above or below it. The bankroll is in whole pence. Other floating-point error is
left out: it is far below a penny, but decides when an edge is equal to its
threshold. The other gates are one free answer in `Block`. `BiasedStubProvider` is
wired nowhere and left out.

### `AuditTrail` (instances in `MCAuditTrail`)

Every table is a sequence, a row's identifier its place in it, 0 is NULL.

| state | code |
|---|---|
| `markets` to `orders` | the tables, each row with the identifiers it cites |
| `artifacts`, `training`, `trainings` | files under `models/`; the training run between file and row |
| `process` | what the trading process has in memory: the model's version, tracked markets, cached external features |
| `discovery`, `cycle` | the locals of the two loops: the market and the identifiers collected so far |

One action per insert: `DumpArtifact` and `InsertVersion` of the training run,
`DiscoverMarket` and `DiscoverRunner`, then for a bundle `InsertSnapshot`,
`TakeExternal` and `CacheExternal`, `InsertVector`, `ReadConfig`, `Infer`,
`InsertDecision`, `InsertOrder` or `SkipOrder`. `Die` and `Boot`, `Raise` and
`TrainingFails` come between any two of them. The columns that cite another row
are plain UUIDs; only the market of a runner is a foreign key. Expiry of markets
and the runner caches are in `MarketTracking`, the ERROR rows and the
reconciler's in `OrderLifecycle`.

## 4. What is checked

| run | bounds | shows |
|---|---|---|
| `faults` | 2 decisions, stake 2, 2 failures of any kind, both modes, a status the code cannot parse, an exchange that forgets | `TypeOK`; `RowsTruthful`: rows never say more than the exchange knows; `BookFollowsMarket`: `OrderAudit` is implemented |
| `fills` | 1 decision, stake 4, 3 failures, 1 repeat | `FillsTruthful`, `RisesHaveFills`, `FillsRepeatFromTheSameStart`: what `fills` is worth when rounds are cut; `PlacementIsIdempotent`; `FillsAddUp` as long as nothing failed or was repeated |
| `progress` | 2 decisions, stake 2, 2 failures of rounds or restarts, both modes, a status the code cannot parse, an exchange that forgets, fair | `EveryOrderCloses` without a failure, `OpenOrdersCatchUp` with them: an order open in paper mode is taken up until its row agrees, unless it left the listing or an unknown status is listed |
| `guards` | 3 markets, 2 events, cap 1, window of two minutes, 1 operator command, 1 restart, 1 exception | `TypeOK`, `PositionCap`, `OneOrderPerDecision`, `KillLeaksAtMostOne`, `NotBeforeWindow`: the listing's age only makes an order late, never early |
| `tracking` | 2 markets of 2 runners, 1 restart, 1 exception, kick-offs of minute 2 and 3 of which one is moved once, to any minute up to 3, window from 2 to 1 minutes before, fair | `TypeOK`, `TrackedIsStored`, `CachesAreComplete`, `ExternalOncePerProcess`, `InWindowIsDecided` |
| `asof` | 4 matches, 3 teams, 3 days, form of the last 2, all 104,976 files | `TypeOK`; `AsOfIsRebuilt`, `FormIsLatest`: a read of the past is that of a world that ended then; `TrainingRowIsLive`: training sees what trading sees |
| `tasks` | a pool of 3, 1 health request at a time, up to 2 bundles a cycle, an exception anywhere, a signal at any await, fair | `TypeOK`, `NoCircularWait`, `QuietAtTheEnd`, `EveryTurnEnds`, `ShutdownEnds` |
| `pricing` | prices 1.4, 2.5, 4.0 or none for each of 3 outcomes, 5 model answers, bankroll 100.33, cap 2% of it (2.0066), minimum 1.008, commission 5%, threshold 2%, 2 positions | `TypeOK`, `FallbackNeverAllows`, `AllowedIsQuoted`, `StakeInBounds`, `ExposureBounded` |
| `audit` | 2 markets of 2 runners, 2 bundles, 2 processes, 2 training runs, 2 exceptions | `TypeOK`, `ReferencesResolve`, `OneBundlePerDecision`, `NamedModelDecided`, `OrdersAreTraceable` |

Why the bounds are enough: a fill is repeated when one round is cut and another
follows, and repeats of repeats need two cuts and three sizes, so three failures
and a stake of four let fills start from every size and be repeated twice. Two
orders are needed for one order's failure to cut the other's round, or for one's
unknown status to keep the other waiting; two restarts bring a process from `paper`
to `dry_run` and back. A cap of one
with two markets of one event is the smallest case in which count and insert
could disagree; a third market of another event tells the events apart. The
horizon passes the end of every window. In `tracking` two runners are the least
with a state in which part of them is stored, and the clock reaches the minute at
which the first match expires by its old kick-off while it is in the window by
its new one, so that it is expired, discovered and polled a second time; the other
match can be brought forward into the window before and after it is tracked. Four
matches on three days have two on one day in every file, teams with more matches
than the form takes, and files whose lines are out of the order of their dates.
Three connections are the fewest with which the poll task alone can go on, so
every wait that a larger pool has is there too (`NoCircularWaitHolds` covers the
larger ones). The prices of `pricing` have markets that add up to more and to less
than one, and with the answers bets below the minimum, between the bounds and at
the cap, which is no whole penny; two positions make the position cap bite between
two orders. In `audit` two markets and two bundles tell caches and bundles apart, and two training runs and two
processes make the newest version another than the loaded one.
Symmetry is used in `faults` (decisions) and in `asof` (teams), whose properties
treat them alike; the runs under fairness use none. `CHECK_DEADLOCK FALSE` is set
because every bounded system stops: all orders ended, the clock at its horizon,
or the file applied.

Statements of the documentation that the code does not meet, each with its run:

| run | statement | what the code does |
|---|---|---|
| `orphan` | execution engine design, line 15: restart recovery | a stop between placement and row leaves a live order no table knows; with a lost reply or a repeat as the only mishap allowed the run ends in a violation too |
| `rearmed` | `docs/architecture/07-risk-controls.md:33` suspended until manual intervention | every boot inserts the file's kill switch as the newest row |
| `names` | `training/dataset.py:3`: the same as-of semantics as the live runtime | the live read asks under the canonical name, the results were applied under the file's: a team whose names differ has no history live |

Seen while modelling, without a run of their own:

- Orders. A stop between fill and row makes the next round insert the fill
  again, so a sum over `fills` can exceed what was matched (`FillsTruthful` and
  `FillsRepeatFromTheSameStart` say what can be relied on). A repeated placement is
  refused and its ERROR row hides the live order from reconciliation, though the
  execution engine design, line 512, calls a manual retry safe. A lost reply
  is recorded like a refusal. The size matched at placement gets no fill. An order
  that ends and leaves the listing between two rounds stays open in `orders`
  (the properties of `progress` excuse it). While a status `OrderStatus` does not
  know is listed, every round ends at it and the orders after it wait.
- Window. The minutes to kick-off are those of the listing, and placement has no
  guard of its own, so an order can leave after the window's end; it never
  leaves before its start. A tracked market whose match is brought forward keeps its
  later start time, and may start without ever having been eligible (`KeptTooLate`).
- Decisions. An ALLOW decision whose stake is below the minimum uses up the
  event's position. An outcome without a price has the market probability 0, so
  the largest edge, and hides a good bet on another one. An edge equal to the
  threshold passes. Kelly ignores the commission. The drawdown gate is fed 0.0. Caps
  and stake limits are looked up in the section `trading` of the configuration and
  partly stand in another.
- Results. A row without goals is kept by the dataset as 0:0 and dropped by the
  ingestor; with such rows (`Kind` including `"goalless"`) `TrainingRowIsLive` fails.
- Stakes. The cap is rounded after the comparison with it: 2% of 100.33 is 2.0066 and
  the stake 2.01, where `docs/architecture/07-risk-controls.md:12` promises a hard cap
  (`HardCap`, violated with the constants of `pricing`).
- Trail. A decision of the fallback has no inference row and no model, though
  `docs/architecture/01-requirements-nfrs.md:55` wants every decision linked to a
  model artifact. `models/` is no volume in `docker-compose.yml`. Two training runs
  in one second share an artifact's name.
- Shutdown. A logout that raises skips `close_pool`.

### Fairness

`TaskScheduling!FairSpec` assumes weak fairness of each task's steps and of the
steps of main, and strong fairness of `Acquire` for each task: asyncpg hands a
connection given back to the task that has waited longest, so a task for which
connections become free again and again gets one. Nothing is assumed of signals,
health requests and exceptions.

`OrderLifecycle!FairSpec` assumes weak fairness of `CallStep` and `ReconcileStep`
and `MarketTracking!FairSpec` of `DiscoveryStep` and of `PollStep`: the event loop resumes a task
whose await is over, and the `while self._running` loops of the scheduler outlive
every `Exception` of their body and sleep a bounded time. Nothing is assumed of
exchange, clock and operator: an order need never be matched. No fairness is
assumed of single orders or markets within a step: a round visits each order
once. Failures and restarts are bounded by their counters, so a fair execution
has a last one; a failure in every round is not covered.

## 5. What is proved

`tlapm` checks the proofs for every value of the constants that satisfies
`ConstantsAssumption`: any set of decisions, markets and events (also infinite),
any stake, cap and window, any bound on failures, restarts and repeats, any
file of results, any finite set of health requests, any price and probability, any
fractions as parameters of the pricing and a bankroll of whole pence, any number of
runners, cycles, boots and training runs. The constants of `AuditTrail` include at least one market: the locals of its loops
always name one, an arbitrary one while nothing runs.

| theorem | states |
|---|---|
| `OrderLifecycle_proofs!TypeCorrect` | `Spec => []TypeOK` |
| `OrderLifecycle_proofs!RowsAreTruthful` | `Spec => []RowsTruthful` |
| `OrderFills_proofs!PlacementIsIdempotentHolds` | `Spec => []PlacementIsIdempotent` |
| `OrderFills_proofs!FillsAreTruthful` | `Spec => []FillsTruthful` |
| `OrderFills_proofs!FillsRepeatHolds` | `Spec => []FillsRepeatFromTheSameStart` |
| `OrderFills_proofs!NoRiseWithoutFill` | `Spec => []RisesHaveFills` |
| `OrderFills_proofs!FillsAddUpHolds` | `Spec => []FillsAddUp` |
| `OrderFills_proofs!ImplementsAudit` | `MaxRetries = 0` implies `Spec => BookFollowsMarket`, that is `Spec => Audit!Spec` |
| `DecisionPipeline_proofs!PipelineTypeCorrect` | `Spec => []TypeOK` |
| `DecisionPipeline_proofs!PositionCapHolds` | `Spec => []PositionCap` |
| `DecisionPipeline_proofs!KillSwitchLeaksAtMostOne` | `Spec => []KillLeaksAtMostOne` |
| `DecisionPipeline_proofs!OneOrderPerDecisionHolds` | `Spec => []OneOrderPerDecision` |
| `DecisionPipeline_proofs!NotBeforeWindowHolds` | `Spec => []NotBeforeWindow` |
| `MarketTracking_proofs!TrackingTypeCorrect` | `Spec => []TypeOK` |
| `MarketTracking_proofs!TrackedIsStoredHolds` | `Spec => []TrackedIsStored` |
| `MarketTracking_proofs!CachesAreCompleteHolds` | `Spec => []CachesAreComplete` |
| `MarketTracking_proofs!ExternalOncePerProcessHolds` | `Spec => []ExternalOncePerProcess` |
| `AsOfFeatures_proofs!AsOfTypeCorrect` | `Spec => []TypeOK` |
| `AsOfFeatures_proofs!FormIsLatestHolds` | `Spec => []FormIsLatest` |
| `AsOfFeatures_proofs!AsOfIsRebuiltHolds` | `Spec => []AsOfIsRebuilt` |
| `AsOfFeatures_proofs!TrainingRowIsLiveHolds` | `"goalless" \notin Kind` and `NamesAgree` imply `Spec => []TrainingRowIsLive` |
| `TaskScheduling_proofs!SchedulingTypeCorrect` | `Spec => []TypeOK` |
| `TaskScheduling_proofs!NoCircularWaitHolds` | `PoolSize >= 3` implies `Spec => []NoCircularWait` |
| `TaskScheduling_proofs!QuietAtTheEndHolds` | `Spec => []QuietAtTheEnd` |
| `EdgeAndStake_proofs!PricingTypeCorrect` | `Spec => []TypeOK` |
| `EdgeAndStake_proofs!FallbackNeverAllowsHolds` | `Spec => []FallbackNeverAllows` |
| `EdgeAndStake_proofs!AllowedIsQuotedHolds` | `Spec => []AllowedIsQuoted` |
| `EdgeAndStake_proofs!StakeInBoundsHolds` | `Spec => []StakeInBounds` |
| `EdgeAndStake_proofs!WholeCapIsHard` | `Cap = Per * pence` for a natural number of pence implies `Spec => []HardCap` |
| `EdgeAndStake_proofs!ExposureBoundedHolds` | `Spec => []ExposureBounded` |
| `AuditTrail_proofs!TypeCorrect` | `Spec => []TypeOK` |
| `AuditTrail_proofs!ReferencesHold` | `Spec => []ReferencesResolve` |
| `AuditTrail_proofs!OneBundleHolds` | `Spec => []OneBundlePerDecision` |
| `AuditTrail_proofs!NamedModelHolds` | `Spec => []NamedModelDecided` |
| `AuditTrail_proofs!OrdersTrace` | `Spec => []OrdersAreTraceable` |

`RowsTruthful` is not inductive: a row is built from an answer that was read
earlier. The strengthening adds that every answer on its way (the call's report
and row, the round's listing) is truthful about the exchange too, and the key
lemma is that the exchange only moves forward, which keeps what was truthful
truthful (`ForwardKeepsTruth`, `ExchangeMovesForward`).

`PlacementIsIdempotent` needs three facts about what is on its way. `CallInv`: the
row of a call is silent (a dry run or an error, which says nothing of the
exchange) or it is the placement of an order that has none yet. `PlacedInv`: a
row that is not silent or a fill comes after the placement, and the placement
after the exchange took the order.
`RoundInv`: a round works on orders whose open row it read from the table, so on
orders already placed.

The fills rest on `SizeInv`: an open row that a round may read has the largest
matched size of its order, it keeps it while the round works on the order, and the
listing is not older than it. So a delta never counts from a stale size. `FillsInv` adds that
a fill whose row was cut off is still ahead of every row (`RecordedInv`), which is why
the next round starts it again from the same size. It proves `FillsTruthful`,
`FillsRepeatFromTheSameStart` and `RisesHaveFills` at once, since each needs the
others. `FillsAddUp` needs two more: without a repeat the row a round read is the
last one of its order (`OnceInv`), and the fill that waits for its row is the last
fill (`HalfInv`).

`ImplementsAudit` shows that initial states map to initial states of `OrderAudit` and
that each action maps to a step of it or to a stutter; `RefinementInv` supplies
what the step lemmas need: the truth of what is on its way, that a book is
written in one mode only, and that paper rows are never `PENDING`. Without repeats
is a hypothesis because the row of a refused repeat is written over the book of a
live order, which `OrderAudit` does not allow.

`PositionCap` needs `CountFresh`: the count read by an evaluation is still the
table's when it decides, because only the evaluation in flight adds ALLOW rows.
Types and cap are proved together, since the count is typed by the cap.

`KillLeaksAtMostOne` needs to know how many evaluations are past the switch:
`KillInv` says that while the switch is up and one is, none has leaked yet.

`OneOrderPerDecision` needs that the decision being sized or sent is the newest
row and has no order so far (`OrderInv`).

`NotBeforeWindow` needs `WindowInv`: what a listing said of a market in hand is
never less than what is left to its kick-off, since the clock only goes on, and
the decision being sized is the newest row, made from a listing within the window.

`TrackedIsStored` needs `StoreInv`: while a market is being stored, its row is
there and the runners not in the table are among those still to be inserted.
From it follow the caches: `CacheInv` says that every market in the poll task's
hands is stored, which stays so because rows are never deleted (`StoredStays`),
also when the market expires or another failure ends its discovery. `ExternalInv`
counts the rows of a market by the processes that inserted one and ended.

`FormIsLatest` and `AsOfIsRebuilt` hold of every file, goalless rows included, by
`EachInv`: a program applies what it keeps in date order (`OrderInv`), and each of its
entries is derived from those before (`DerivedInv`). For the form, the matches read
are numbered by their place in the order newest first; the first `FormLength` places
are taken by matches no older than the rest (`FirstPlaces`, `FormOfPlaces`). For
the rating, `Rebuilt` is a recursive function on sets of matches, and its own
recursion equation has to be justified first: if no function solved it for all sets
of at most `k` matches, there would be a least such `k`, and a solution for `k - 1`
extends by one step to `k` (`OneStepFurther`, `UptoEach`, `RebuiltIsDefined`; the least
counterexample replaces the induction theorem, which the provers cannot
instantiate). With it, the ratings after `k` entries are those of the world of the first
`k` matches, again by a least counterexample (`RatingsOfTheWorld`), and what was
played before a day is a prefix of what was applied (`PastIsAPrefix`).

`TrainingRowIsLive` compares a read made while training with one made after the
live load, and adds three invariants to `OrderInv` and `DerivedInv`. `AllKept`: neither
program drops a row of such a file. From these, `SameInv`: as far as the
two programs have come, their histories and entries agree (the next match is the
earliest one left, so both must have chosen it). `RowsInv`: a row is what its own
engines still say, since a match applied later is not before the row's date
(`ReadsAreFinal`, the anti-leakage argument). At the end both reads see the same
entries, and a read depends on the entries seen only (`RatingOfEntries`,
`FormOfEntries`). The assumption that names agree is needed, as the run `names`
shows, and the one on goalless rows, which the two programs read differently.

That the pool never hands out more than it has (in `TypeOK`) is a matter of
counting: what is free changes with each task's step by what the task holds
before and after. `NoCircularWait` needs `WaitInv`: a task waits for one connection
more than it holds, so while waiting only the poll task holds any, at most two,
and the third is free or held by a task that is at work. `QuietAtTheEnd` needs
`EndInv`: a loop that is done or was never started does not come back, from the
signal on every other one is cancelled, and from the logout on no request is
being answered.

`EdgeAndStake` has one invariant for all of its theorems: an answer of the fallback is
the market's own, whose edge over itself is never positive (`NoEdgeOverItself`);
an edge that passes lies on an outcome with a price; and `staked`, with the rounded
cap added while an order is being sized, is at most the rounded cap for each ALLOW
row. That rounding moves a stake out of its bounds by at most half a penny is
`NearestInBounds`. So the cap itself is kept only if it is a whole number of pence
(`WholeCapIsHard`), as it is in the shipped configuration; the cap of `pricing` is one that is not.

The theorems of `AuditTrail` share `AuditInv`. Tables only grow (`TablesGrow`), so a row that
cites what is there keeps citing it (`CitesKept`); what remains is that each insert cites
rightly, which is a fact about the locals of the loops. `StageInv` says how much of a
bundle is complete at each await, `HeldInv` that the identifiers collected are those of
the bundle's own rows, runner by runner and set by set, and `ProcessInv` that
the cache of external rows has entries of the right market and that the artifact
of a training run is there before its row. `RowsInv` then holds of every row, and four
of the theorems follow from it. That the model decided on external features, which
`OrdersAreTraceable` needs, holds because the third vector of a bundle always has them (`SomeA2`).

Every invariant of every passing run is so proved for all constants, and the
refinement for all without a repeat. Only model-checked are the properties under
fairness, `EveryOrderCloses`, `OpenOrdersCatchUp`, `InWindowIsDecided`, `EveryTurnEnds`
and `ShutdownEnds`: liveness needs ENABLED and is beyond the prover. The
disagreements of section 4 are counterexamples of TLC and nothing to prove.

## 6. What is not modelled

Listed with reasons under `components` in `PROJECT.json`:

- settings and logging: configuration and formatting without behaviour of their
  own; `db/tables.py` repeats the DDL and has no reader at run time;
- how a team name is normalised, and `match_event`, which has no caller;
- the split, fitting and metrics of a training run, and how a vector becomes an
  array: numerical library calls;
- the drawdown gate beyond the 0.0 its caller passes;
- the rounding of NUMERIC columns and floating-point error;
- the intervals of the loops: a sleep ends at some time;
- requests to the exchange as such, beyond their outcomes.

The composition `TradingSystem` (module 9) is planned. Until then decision and
order meet in the interfaces of `DecisionPipeline` (an order leaves) and
`OrderLifecycle` (a decision is handed over), which model the two sides of the
same call.
