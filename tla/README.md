# ordersim in TLA+

A verification development for `ordersim`, a simulator that replays
market-by-order (MBO) data through a matching engine so that a strategy's orders
queue up behind, and trade with, historical orders.  Module and file paths below
are relative to this directory and to the repository root.

## 1. Inventory

| Component | State it keeps | Operations | Talks to |
|---|---|---|---|
| `sim/matching_engine.py` reference engine | visible book per price, public and own orders, FIFO queue per level, passive fills, next order id, time, position | `apply_event`, `place_limit`, `place_market`, `cancel`, `advance_time`, `pop_passive_fills`; queries | called by the gateway |
| `replay/simulator.py` `ReplayGateway`, `Replay` | sorted events, cursor, time, fills, valuation marks | `advance_to`, `place_limit`, `place_market`, `cancel`; `run`, `run_many` | drives an engine, samples a latency model, feeds `economics` |
| `recording.py` `RecordingGateway` | the sink of log rows | the gateway's calls, plus rows | wraps `ReplayGateway`, called by the strategy |
| `latency.py` | seeded generators | `sample` | `ReplayGateway` |
| `sim/cpp_matching_engine.py`, `cpp/` | the same engine on integer ticks and fixed-width sizes | as the reference engine without `pop_passive_fills`, plus batches | selected by `sim/execution.py` |
| `replay/compiled_events.py`, `boundary.py` | event columns | slices, tick conversion | C++ engine |
| `economics.py`, `valuation.py`, `specs.py` | none (pure) | `summarize_fills`, `build_equity_curve` | `Replay.run` |
| `connectors/binance/reconstruction.py` | virtual queues and units per level, next id, best prices, last time | `bootstrap`, `apply_update` | emits MBO events |
| `connectors/binance/_recent_trades.py`, `raw_trades.py` | next expected id, pending ids | `select`, poll loop | writes to the capture sink |
| `connectors/binance/capture.py`, `_storage.py`, `source.py` | sequence trackers, current file, manifest | connection tasks, `write`, `close`, reading back | transport, files |
| `connectors/binance/reconstruction_study.py` | snapshot, segment, waiting updates, pending trades and tickers | observation by observation | reads the capture, drives reconstructors |
| `connectors/csv.py`, `parquet.py`, `databento.py` | none | read to `MBOEvent` | files |

What is hard here.  The engine holds every quantity twice (level sizes, queued
orders) and two callers mutate it: the replay, whose events tell a history in
which the strategy did not exist, and the strategy.  The gateway turns one
strategy call into several steps (advance through market data to the venue
receipt, call the engine, mark the book) and the recorder reconstructs from
outside what happened in them; a rejected order leaves half of such a call done.
Nothing in the replay runs concurrently: a strategy call is one call stack, and
all interleaving is between events and calls.  The capture side is concurrent
(asyncio tasks, reconnects, retries).

What makes each component correct:

* engine: price-time priority; queue priority of own orders never worsens; level
  sizes equal queued sizes; fills within order size; position is the net of the
  fills the callers are told of;
* gateway: no lookahead, no event skipped, orders arrive after their latency,
  marks follow the book;
* recorder: the log tells every fill once, in time order;
* reconstructor: the emitted events bring an engine to exactly the observed depth;
* raw-trade cursor: every trade is recorded once or reported missing, never both;
* capture: every break of a sequence is recorded;
* study: the book of a segment is the exchange's, every trade is counted once and
  meets the one update whose interval holds it;
* C++ engine and batches: indistinguishable from the reference engine;
* economics: lots, profit and commission add up to the cash paid, and the curve
  values the position at the latest mark;
* connectors: what a venue did arrives once, however the records tell it.

`PROJECT.json` lists every hazard at its line with the properties that cover it.

## 2. Modules

| Module | What it is |
|---|---|
| `EngineOps` | the engine's operations as functions on an engine record, shared by everything that composes the engine |
| `HistoricalVenue` | abstract venue in price-time priority, specified with prefix sums; external to the repository |
| `MatchingEngine` | the engine between a feed and a strategy: one action per public method that changes state |
| `MCMatchingEngine` | constants and symmetry for TLC |
| `ReplayGateway` | one replay run: `ReplayGateway` over the engine, `RecordingGateway` over it; one action per strategy call |
| `MCReplayGateway` | the event stream TLC runs it on |
| `Reconstruction` | three reconstructors (one per policy, one without events) on the same depth and trades; the events of the first two replayed through an engine each, in which the strategy rests the same orders |
| `MCReconstruction` | the snapshots, updates and levels TLC runs it on |
| `RawTrades` | one symbol's poll task, cursor and log rows against an endpoint that shows the newest trades |
| `ReplayOps` | the replay of a sequence of events into an engine: fills, valuation marks, and the stop at a fill |
| `Economics` | the ledger, summary and equity curve of a run's fills and marks, used by `ReplayGateway` |
| `NativeEngine` | the C++ engine: its containers, its operations and its batches, on sizes of `Width` bits |
| `EnginesInLockstep`, `MCEnginesInLockstep` | `MatchingEngine` and `NativeEngine` through the same calls |
| `DatasetFeed`, `MCDatasetFeed` | the venue, a publisher of rows or Databento records, the connector, and the engine behind it |
| `DepthCapture` | the exchange, the two capture tasks of a symbol and the rows they write |
| `ReconstructionStudy`, `MCReconstructionStudy` | `DepthCapture` and the study that reads its rows |
| `Sums` | the sum of the values of a function, which every model writes its quantities with |
| `NumberFacts` | generic facts for proofs: induction on `Nat` through a set, existence of the states of a loop, extrema and ranks, sums, fronts of sequences |
| `EngineOpsProofs` | what every engine operation preserves, and what the event loop of a replay adds to fills and marks |
| `MatchingEngineProofs` | theorems about `MatchingEngine!Spec` for any feed: own orders, types, fills and positions, queue priority |
| `VenueFeedProofs` | its theorems about feeds a venue can report, and that it implements `HistoricalVenue` |
| `RawTradesProofs` | the theorems about `RawTrades!Spec` |
| `ReplayGatewayProofs` | the theorems about `ReplayGateway!Spec` |
| `LockstepProofs` | that the two engines agree |
| `ReconstructionProofs` | the theorems about `Reconstruction!Spec` |

### State and code

`engine` is a record with the attributes of `MatchingEngine`.  `public_orders`
and `_own_orders` are one function `orders` keyed by the queue entry
(`<<"public", id>>`, `<<"own", id>>`).  `bids` and `asks` are `book`, where 0 is
an absent price: the code deletes a price whose size reaches 0.  A missing key of
`_queues` and an empty list are the same to every reader, so `queues` is total.
`Fill`s are records.  Prices are ticks from a finite set: the engine only compares
prices for order and equality.

Loops (`_consume_level`, `_match_active_order`, `_advance_events`) are recursive
functions on the number of turns, with one operator per turn (`ConsumeStep`,
`MatchStep`, `ReplayStep`).  A loop is taken after as many turns as it can need
and a turn after the end changes nothing, so this is the loop's result.

`gw` is the `ReplayGateway`; `log` the recorder's sink; an action is a whole
strategy call through both gateways: latency advance, engine call, mark, rows.
`sample` is an arbitrary member of `EntryLatencies`.  `PlaceInvalid` is the path
on which `_validate_order` raises: the advance has happened, the rest of the call
does not.  Calls whose guard raises before anything changes (`advance_to` or
`advance_time` backwards) have no step.

A reconstructor is a record with the attributes of `BinanceMBOReconstructor`; the
missing key of `_level_units` is 0, quantities are in quantity steps.  `bootstrap`
and `apply_update` are one step each; `BootstrapFails` is a bootstrap that raises
at a level whose quantity is no multiple of the step.  An internal assertion that
would raise sets `raised`, which must never happen.  Calls for another symbol,
connection or stream raise before any change and have no step.  `Replay` sends the
events that are due to both engines, as the gateway would.

The poll task of `RawTrades` is one step from an answer to the next sleep: the
sink's lock is held over no `await`, so a write never suspends and neither another
symbol's task nor a cancellation can come between its rows.  What may come between
them is a write that raises (`PollLosingRows`).  A request that fails changes
nothing but the error row, which the log of the model leaves out like the poll
rows.

`Economics` counts money in half ticks, so that midpoints are integers, and takes
`point_value` as 1, which only scales.  A fill's commission is `Commission` per
contract.  `build_equity_curve` and its twin for compiled marks are the same loop
over sorted fills and marks and are one operator.

`NativeEngine` follows the C++ engine's own containers: two price maps, public
orders in a hash map, own orders in a map, queues of tagged ids, and sizes that
wrap at `2^(Width - 1)`.  `EnginesInLockstep` makes each call of the
`ExecutionEngine` protocol to both engines; `BothAdvance` is what
`_advance_events` does, the batch of one engine against the loop of the other, and
`BothAdvanceUntilFill` the same for `advance_until_fill_boundary`.  The column
encoding, the slices and the conversion of rows back to fills lie on the path.  A
price that is no multiple of the tick raises before any change and has no step.
The history variable `fits` says that every level has held no more than a C++ size
holds so far, in every state a slice of events goes through: a level that outgrows the
size in the middle of a slice and shrinks again leaves the engines different.

In `DatasetFeed` the publisher is external: it renders what `HistoricalVenue`
reports as records, in one of three styles data sets use (aggressor on the trade
record, none on it, fills without trade records), in groups of one or more events,
or as rows of a file.  `EndGroup` is the connector on one whole group, `ReplayEvent`
the engine on one event.  The publisher does not put an owner's cancel and a fill
of the same order in one group, and one data set keeps to one style: the connector
tells a group's records apart by order id and action only, and says nothing of
such groups.

In `DepthCapture` a task's step ends where the code awaits a message, a snapshot
or a sleep.  The quantity of a level stands for the id of the change that set it,
so that an outdated quantity is told from a current one.  `rows` are the rows the
last step has written; `ReconstructionStudy` reads them in that step, which is the
order of the capture files as long as the clock stays within the hour.  The study
is a record of `_StudyRunner`'s attributes with those of its active segment; one
model stands for all policies, since they get the same updates and trades.
`apply_update` raises for an update that goes back in time or a trade outside its
interval; in the model that would be a pending update that does not lead on
(`StudyFollowsExchange`) or a wrong alignment (`TradesMeetTheirUpdates`).

The variables `engineLob`, `applied`, `agree`, `fits` and the fields `latest` and
`fates` of the study are history variables too, as are `active`, `delivered`, `popped`,
`placed`, `handed`, `arrival`, `met`, `depth`, `own` and `lost`; none has a counterpart in
the code.

### Feeds and strategies

A feed that reuses live ids or trades what is not there makes the engine
meaningless in ways the code does not try to prevent.  So each engine run names
the feed it assumes: `WellFormedFeed = TRUE` takes the events `HistoricalVenue`
reports; `FALSE` takes any sequence of events that `MBOEvent.__post_init__`
accepts.  Likewise `Aggressive` and `SelfCross` say what the strategy may do.
With no strategy order in it the engine must *be* that venue
(`ImplementsVenue`).

## 3. Runs

| Run | Bounds | Shows |
|---|---|---|
| `EngineAnyFeed` | 2 prices, 2 public ids, sizes to 2, 3 events or slices of 2, 2 own orders, any feed, self-trades, C++ sizes of 4 bits | both engines answer alike and stay alike while sizes fit; own orders stand once in their queue; nobody jumps the queue; passive fills are FIFO, even on malformed feeds |
| `EngineWellFormed` | the same with 4 events, a venue's feed, the reference engine alone | types; levels equal queues and all venue orders are known while the strategy has taken nothing; fills add up to order sizes and to the position; no trade-through; a remainder rests uncrossed |
| `EngineIsVenue` | 3 public ids, 4 events as records in groups of up to 2 or 5 as rows, no strategy | every engine step is a step of the venue; after each group the engine's book is the venue's |
| `EngineHiddenQueue` | as `EngineWellFormed`, 3 events | violation, see findings |
| `GatewayRun` | one feed of 7 events with ties and out-of-order input, latencies 0 and 1, 4 calls | lookahead, log order, log completeness, fills after arrival, position, what the strategy is told, cancel finality, marks; the ledger balances and the equity curve is a mark-to-market valuation |
| `ReconstructedFeed` | one snapshot of two bid levels, trades at one of them, quantities to 2, 2 updates of at most 2 trades, 1 own order, time to 3 | every observed quantity is reached, no internal assertion fails, best prices are right, both policies infer the same flow, engines replaying the events hold the virtual queues, events in time order, the policies bound a strategy's queue position |
| `RawTradesPolled` | 6 trades, a window of 2, any of them late, any answer stale, 1 fault | stored once, gaps final, no silent gap, everything told of once the market is quiet |
| `RawTradesLost` | as above with 4 trades | violation, see findings |
| `StudyOfCapture` | 3 changes of 2 levels, 2 trades, a snapshot at most 1 behind, a buffer of 2 rows, 2 faults (lost, repeated, closed, failed, clock back by 3) | a segment's book is the exchange's; each trade once, with its update; segments end where the capture tells of a break |
| `GatewaySelfTrade`, `GatewayUnreportedFills`, `GatewayUnloggedFills` | as `GatewayRun` | violations, see findings |

Why the bounds are enough.  Two prices give crossing, trade-through and moves
between levels; two public orders and two own orders give an own order with
somebody in front, somebody behind and a second own order; size 2 gives partial
fills, partial cancels and resizes in both directions; three events give add,
reduce, trade around an own order.  The gateway's feed has an event at time 0,
three events at one time (one out of order in the input), a trade through the
whole of a level, and a later trade that hits what the strategy left; four calls
give rest, latency advance, reject or self-trade, and advance.  Limit orders are
`GTC` in `GatewayRun`, where market orders already leave their remainder unrested,
and of both kinds in its three variants.  `MaxTime` is the time of the last event: a
call that reaches the venue later finds the same book.  Two bid levels let the best price of a
reconstructor come and go while trades hit the other; two updates of two trades
each let an update consume what the one before it added.  Six trades and a window
of two let the window pass a hole and trades stored behind it.  C++ sizes of 4
bits hold most levels that three events and two orders of size 2 make but not all,
so that both sides of the condition `fits` occur; no sum ahead of an order passes that
range there, so that the run compares own orders whole, and the theorem says what holds when
one does.  Four events as records,
with three ids, give a trade that fills two orders and meets a third, a partial fill
followed by a cancel in the next group, and two events in one group; rows, which need no groups,
go to five.  Three changes of two levels give a snapshot, a bridge and an update behind it that waits for the buffer; they share two
transaction times, so that a trade can fall on, before and behind each; two faults
give a lost message and a new connection, or a clock set back and a late trade.

`GatewayRun` and its variants say `CHECK_DEADLOCK FALSE` because a strategy is a
function that returns: after `MaxCalls` calls the run is over.  The engine runs
keep the deadlock check, but for `EngineIsVenue`, whose data set ends.  `SYMMETRY`
is over public ids and, in `StudyOfCapture`, over levels, which the code only
compares for equality; every property of those runs is one of states and steps.
`EngineAnyFeed` gives TLC the two engines as `VIEW`: the steps it takes and the
properties it checks do not read the rest.  `StudyOfCapture`'s `VIEW` keeps how long
ago rows were written instead of when, and whether a connection is the present one
instead of its number; what only the last step's properties read (`rows`, `fates`)
is checked on every step all the same.  `ReconstructedFeed` and `StudyOfCapture` stop
when their data ends and `RawTradesPolled` when the capture is cancelled; they say
`CHECK_DEADLOCK FALSE`.

Only `RawTrades` waits for something, and only it states liveness
(`EventuallyTold`).  Its fairness is that of a poll that gets an up-to-date answer
and of late trades that appear.  The first half of it the code provides: the task
polls again after every sleep and every error.  That the endpoint answers, and
that late trades appear, is assumed of the exchange.  Without faults in the way a
bounded market becomes quiet, and then every trade from the first one on must be
told of.  Nothing is said of a task that has ended.

### Findings

* `EngineHiddenQueue`: after the strategy consumed a public order, the venue's own
  later cancel of it takes the unknown-order branch (`matching_engine.py:233`) and
  subtracts visible size that belongs to others: `queue_ahead_size` is no longer
  visible size, as `docs/schema.md:123` says.
* `GatewaySelfTrade`: self-trades move the position but their passive leg is in no
  returned fill, so `fills` (`simulator.py:118`) and the summary miss it.
* `GatewayUnreportedFills`: with latency, passive fills on the way to the venue are
  not returned by `advance_to` (`simulator.py:129`).
* `RawTradesLost`: `_record_batch` moves the cursor before it writes
  (`raw_trades.py:109`), so that a write that raises loses trades which are then
  neither stored nor reported missing (`docs/connectors.md:171`).
* `GatewayUnloggedFills`: a rejected order advances the replay and logs nothing
  (`recording.py:3`); the fills of that advance are never logged.

For each there is a passing property that names the condition under which the
promise does hold.

Observations that no run states:

* A `raw_trade_gap` runs from the trade the cursor waits for to the first of the
  answer, so its `missing_count` counts trades behind the hole that are stored;
  `GapsAreFinal` therefore says only that its first trade is missing.
* A poll task or a capture task whose error row cannot be written ends without
  anybody noticing before the capture ends (`Poll`, `Raises`).
* The C++ engine adds up the size ahead of an order in 32 bits
  (`matching_engine_core.hpp:449`), the reference engine without a bound.  By the finding
  `EngineHiddenQueue` a queue may hold more than its level shows, so that with every level
  in range, and on a feed a venue can report, `own_orders` may read differently in the two
  engines, against `docs/execution-engines.md:68`: an own order takes a public one of 2^30,
  another of 2^30 is added behind it, the venue cancels the one that was taken, a third of
  2^30 is added, and the strategy rests an order behind them.
* Once a level passes the range of a C++ size the engines do disagree; nothing
  raises.  `Replay` compiles its events to columns in any case, so that an event
  whose own size does not fit raises `OverflowError` with either engine.
* `pop_passive_fills` is a method of the reference engine only.
* In a Databento group that holds a fill and an owner's cancel of one order the
  cancel is dropped; in a group of two trades of which one has a side and one has
  none, the fills of the second are dropped with nothing in their place.
* A `sequence_gap` row does not end the connection.  The study gives up the segment
  and ignores all depth until the next snapshot, which only a new connection brings.
* A snapshot ends a segment and gives up every trade not yet aligned, also those of
  a time its own bridge does not reach, which the next update would cover and which
  `_bootstrap` is written to keep.
* A trade whose id is not above the last one counts as a duplicate even if it was
  never seen; and `_flush_update`'s late branch is never taken, because such trades
  are already late when they are accepted.
* The bridge must satisfy `U <= lastUpdateId <= u`.  When the first message read
  starts right behind the snapshot, nothing is missing, but the study finds no
  bridge and ignores the connection.
* `BinanceCaptureSource.from_directory` sorts by name, and names start with the
  random run id: across runs that is no chronological order (`source.py:74`).

## 4. Proofs

Each theorem holds for every value of the constants that satisfies the assumptions
named where the constants are declared (`PricesAssumption`, `FirstOwnIdAssumption`,
`SizeAssumption`, `BoundAssumption`, `FeedAssumption`, `StrategyAssumption`; of the
gateway `FeedsAssumption`, `LatencyAssumption`, `TifsAssumption`, `GatewayBounds`,
`CommissionAssumption`; of the poller `RawTradesAssumption`; of the two engines
`SlicesAssumption`, `WidthAssumption`, `RowsAssumption`; of the reconstructor
`TradesAssumption`, `ObservationsAssumption`, `ReconstructionBounds`, `IdsAssumption`).  None limits the number of
prices, orders or calls, the length of a feed or a log, or the size of a quantity,
price, latency or bound, but for one: `RowsAssumption` says that the size of a single
event fits the C++ size, as `CompiledEventColumns` raises `OverflowError` otherwise.
`IdsAssumption` says that ids of the reconstructor's events are natural numbers: virtual
ids count up from 1, and trades bring the exchange's.

### The engine on any feed

`MatchingEngineProofs`, for every feed of valid events and every strategy:

* `OwnOrdersAlwaysQueuedOnce`: `[]OwnOrdersQueuedOnce`;
* `EngineAlwaysTyped`: `[]EngineOK(engine)`;
* `OrdersNeverOverfilled`: `[]FillsWithinPlacedSize`;
* `PositionAlwaysAccounted`: the position is the net of the fills returned, popped
  and waiting, self-trades included;
* `CallersSeeThePosition`: `[]PositionIsNetOfReturnedFills`, without self-trades.

`OwnOrdersQueuedOnce` is not inductive: it needs the engine's type (a consumed order
must be of the level it stands at for the queue to lose the right entry) and that
ids of own orders have been given out already (otherwise `place_limit` could rest an
order under a live id).  The inductive invariant `IInv` is
`EngineOK /\ OwnQueued /\ OwnIdsGivenOut` with the fact that placed ids are the ids
given out.  `EngineOpsProofs` proves operation by operation, and for the loops by
induction on the number of turns, that these are preserved, that fills only grow,
and what consuming a level does to orders and queues.  `AccountInv` adds the books:
per order, filled and resting quantity make the size placed, and the position is the
net of all fills.  Both are sums over sequences of any length; `NumberFacts` proves
what a sum (`Total`) does when one member is added, taken away or changed, from
the definition over finite sets, and what a fold over fills (`Worth`) does
when they are appended.

Of the same module and generality, action properties:

* `NobodyJumpsTheQueue`: `NoQueueJumping`;
* `FillsAreFirstInFirstOut`: `PassiveFillsAreFifo`.

The argument is that an operation leaves of a queue a subsequence, with at most one
new entry at its end, and that a level is consumed from its front, so that an own
order that is hit has nothing live before it.

### The engine on a venue's feed

`VenueFeedProofs`, mostly with `WellFormedFeed`, for every strategy:

* `BookIsItsQueues`: `[]LevelSizesMatchQueues`;
* `VenueOrdersAreKnown`: `[]FeedOrdersKnown`;
* `StatesAreTyped`: `[]TypeOK`, on any feed;
* `NothingTradedThrough`: `NoTradeThrough`, `RemaindersRestUncrossed`: `RestsUncrossed`;
* `EngineShowsTheVenue`: until the strategy places an order the engine's queues and
  orders are the venue's book (`BookIsVenues`);
* `EngineIsTheVenue`: `Spec /\ []NothingPlaced => Mirror!Spec`, where `Mirror` is
  `HistoricalVenue` with the book `EngineLob` that the engine's queues and orders describe.

The invariant `FeedInv` has, besides `IInv` and `AccountInv`: every order stands once
in the queue of its level and every entry is live (`Tidy`); no level shows more than its
queue holds (`Covered`); the venue's orders have ids that were given out and stand once
(`LobOK`), as has every public order of the engine (`IdsUsed`); and as long as the
strategy has taken nothing, levels show exactly what their queues hold (`Exact`) and each
queue has the venue's orders, in the venue's order and at least as large (`Follows`).  `Covered` is what remains of `Exact` once the
strategy takes, and is what the loop of `_match_active_order` needs: a price it has been
through is empty, which is `NoTradeThrough`.

That the engine equals the venue is shown by a squeeze and not by following the
trade loop against the venue's prefix sums: `Follows` says that the engine has at
least the venue's orders, and `Weighs` that a level shows what the venue has there in
total; a sum that is no larger over more and larger members has the same members
(`TotalSqueezed`), so that queues of equal weight are equal (`WeighsMirrors`).  With
equal states the steps of `Mirror` are those of `Venue`.

### The two engines

`LockstepProofs`, for every width of a C++ size, every feed, slice and strategy:

* `EnginesAlwaysAgree`: `[]EnginesAgree`: as long as levels fit, every call has answered
  alike in both engines, and both show the same depth, position and own orders; the size
  ahead of an order reads alike where it is itself a C++ size, which levels in range do
  not ensure;
* `LockstepInvariant`: `[]BothIInv`, its inductive invariant.

The argument is an image.  `Image` is the C++ engine that stands for a reference engine:
its two maps of a side, its two maps of orders by tagged name, its queues of names.  For
each operation a lemma says that the C++ operation takes the image to the image of what
the reference operation gives, when the engine is `Sound` (the engine invariant holds, no
level exceeds a C++ size, no order exceeds a size an event may have).  That is where
wrapping is ruled out: a sum that fits is the sum, and a difference is taken only of a
larger size.  Loops are matched turn by turn, first of one level, then over the prices of
a side, then over the events of a batch.  Only the size ahead of an order does wrap in the
image; `WrappedRowsAreSame` says where that changes nothing.  `BothIInv` is the engine invariant of the
reference, and while `fits`, `InLockstep`: all answers agreed, the reference is `Sound` and
the C++ engine is its image.

A first attempt failed for a reason worth keeping: with `fits` read only between calls the
invariant is not inductive.  A slice may take a level past the range and back again within
one call, and the engines differ from then on.

### The replay

`ReplayGatewayProofs`, for every set of feeds (valid events in any order), every set
of latencies and bounds, and every sequence of valid or rejected calls:

* `NeverLooksAhead`: `[]NoLookahead`;
* `LogAlwaysInTimeOrder`: `[]LogInTimeOrder`;
* `NoFillEverBeforeArrival`: `[]NoFillBeforeArrival`;
* `MarksAlwaysFollowBook`: `[]MarksFollowBook`;
* `GatewayAlwaysTyped`: `[]TypeOK`;
* `PositionAlwaysNetOfFills`: `[]PositionIsNetWithoutSelfTrade`;
* `StrategyToldEveryFill`: `[]StrategySeesEveryFillWithoutLatency`;
* `LogAlwaysTellsFills`: `[]LogTellsEveryFillOfValidCalls`;
* `CancelsAreFinal`: `[]NoFillAfterCancel`;
* `LedgerAlwaysBalances`: `[]LedgerBalances`;
* `CurveAlwaysMarkToMarket`: `[]CurveIsMarkToMarket`.

The inductive invariant `IInv` has five parts.  `StreamInv`: the stream of the run is
in time order, which holds because `sorted` puts every event at the rank its time
and place give it (`SortedByTimeSorts`; that ranks are a bijection is proved with
cardinalities).  `GatewayInv`: the engine invariant above, the events before the
cursor are not after the clock and those behind it not before, fills and marks are
in time order up to the clock, and the last mark values the book of the engine.
`CallsInv`: after a call the events behind the cursor are later than the clock
(`Caught`); before the first call events of the initial time may still wait.
`LogInv`: the rows of the log are in time order up to the clock.  `ArrivalInv`: the ids
with an arrival are those given out, and fills follow the arrival of their order.  The
first four properties need all of it together: what an advance adds to fills, marks and
log lies between the old clock and the new (`ReplayLoopFacts`), what existed lies before
the old clock, and what the call itself then adds has the new clock; this is what
`InTimeConcat` joins.  That passive fills of an advance belong to orders already given
out is the fourth parameter of `FillsGrow` in `EngineOpsProofs`.

A second invariant, `AccountInv`, relates the lists that tell the same fills: the
gateway's, the ones handed to the strategy, the fill rows of the log (`FillsOf`) and the
position; `AdvanceSettles` says what an advance adds to them.  `Buried` says that an
order whose cancel was accepted is no longer in the engine and that no row behind the
cancel fills it, from which `NoFillAfterCancel` follows.
`LedgerAlwaysBalances` is by induction on the turns in which `CloseStep` matches
a fill with open lots, and on the fills: each turn keeps the lots on one side, their net
the position, and cash equal to profit less the cost of the open lots.
`CurveAlwaysMarkToMarket` continues it.  Fills and marks are in time order already, so the
two sorts of `build_equity_curve` change nothing (`SortedStays`), and the fills due at a
mark are the first ones of the list (`FillsDueFacts`).  Hence the merge is in step with the
ledgers after the first n fills (`Books`): the point of each mark has the ledger of what is
due (`CurvePoints`).  Open lots are worth their position at the mark less what they cost
(`UnrealizedFacts`), which with the balance of the ledger makes equity cash plus position
(`ValuationFacts`); and the running maximum is the maximum of what came so far
(`HighestFacts`), so that drawdown is the distance from it.

### The poller

`RawTradesProofs`, for every size of the endpoint's window and every schedule of late,
stale and failing polls and of writes that raise:

* `RecorderAlwaysTyped`: `[]TypeOK`;
* `TradesStoredOnce`: `[]StoredOnce`;
* `ReportedGapsAreFinal`: `[]GapsAreFinal`;
* `NothingSkippedSilently`: `[]NoSilentGap`.

The invariant (`Recorded`) says besides the three properties that pending trades lie
behind the one the cursor waits for (`CursorOK`), that every row is of a trade before
that one or of a pending one (`Behind`), and that what the log or a failed write tells
of leaves nothing out from its first trade up to the cursor (`Covers`).

### The reconstructor

`ReconstructionProofs`, for every set of prices, snapshots, updates and trade levels, any
number of updates and of trades in each, replays at any time and strategy orders:

* `EndpointsAlwaysReached`: `[]ReachesEveryEndpoint`;
* `ReconstructionNeverContradictsItself`: `[]NeverContradictsItself`;
* `PoliciesAlwaysInferSameFlow`: `[]PoliciesInferSameFlow`;
* `BestPricesAlwaysCurrent`: `[]BestPricesCurrent`;
* `EventsAlwaysInTimeOrder`: `[]EventsInTimeOrder`;
* `ReplayAlwaysFollowsQueues`: `[]ReplayFollowsQueues`;
* `ReconstructionTypes`: `[]TypeOK`;
* `ReconstructionInvariant`: `[]ReconInv`, the inductive invariant of all of them but
  `ReplayFollowsQueues`, which needs more.

`ReconOK` says of one reconstructor that what a virtual queue holds is the quantity of its
level, that best prices are those of the levels (`BestNow`), and that no assertion has
failed; `StateOK` that one that works is at the depth last observed; `SameFlow` that any two
agree on quantities, flow and time; `FeedOK` that what is still to be replayed is in time
order and not later than the last update.

The flow is a matter of sums.  `Lack(T, w)` is what quantities `w` are short of the targets
`T`, over all levels together, and `Excess(T, w)` what they have too much.  Moving one level
straight to its target takes from one of the two exactly what it adds or cancels
(`GapMoves`), so that an endpoint adds the lack and cancels the excess, in whatever order
the levels come (`WalkFacts`).  Trades are harder, because the policies add at different
times.  `Trading` is what holds after the first k trades, under either policy and without
events: what has been added, and what will still be lacking once the trades to come have
been taken, is what was lacking with all trades taken at the start; the excess has not
changed; and under the conservative policy a level whose first trade is behind has enough
for all its trades to come and its endpoint (`Enough`).  `TradeStep` shows that one
turn of the trade loop keeps it: the least addition before the first trade, or the
shortfall of one trade, never goes beyond what would be lacking at the end.  As neither sum
mentions the policy, the models infer the same flow; as a trade never meets less
than its size, no assertion fails.

`SortedLevels` and `SortedTrades` give each element the place that its rank says;
`RankEnumerates` proves that this is an enumeration without repetition, for any strict
order on a finite set.

`ReplayFollowsQueues` speaks only of the moment at which everything has been replayed.
Inductive is `FollowInv` with `ReconInv`: while the strategy has rested nothing, the events
still to be replayed of a policy that works (`Working`) would bring its engine to the
policy's virtual queues (`Leaves`), level by level with the same ids and sizes in the same
order (`Lined`), and no other order lives there (`Shown`).  Every part of a call emits what
it does: an addition is an add event (`AddLeaves`); on a trade event each turn of the engine's
loop over the queue is a turn of draining the virtual queue from its front (`TurnFollowed`,
`TradeFollows`); a cancel, from whichever end the policy says, is one event for each virtual
order it takes from.  Each call therefore keeps `Leaves` (`Followed`), and a replay of the
first few events leaves the rest to follow (`RestLeaves`).

### Only model-checked

* `BookFollowsRecords` and `ImplementsVenue` of `DatasetFeed`, which say of the path
  through files and records what `EngineIsTheVenue` proves of the engine behind it.
* `PoliciesBoundQueuePosition` of `Reconstruction`, which compares an own order in the
  engines of the two policies; that each engine holds its policy's queues until the
  strategy rests an order is proved.
* `StudyFollowsExchange`, `TradesMeetTheirUpdates` and `BreaksAreTold` of the study.
* `EventuallyTold`: liveness is out of the prover's reach.

## 5. Plan

The modules of section 2 are done.  What would add most to them:

1. Proofs: that the policies bound the queue position of an own order; the step from
   records to events in `DatasetFeed`; `BreaksAreTold` of `ReconstructionStudy`.
2. `run_many` and the assembly of `ReplayResult`.
3. The comparison of the study with book tickers.
4. Capture files: rotation, manifests and reading back.

## 6. Not modelled

* Decimal arithmetic, the parsing of JSON field by field and network transport:
  conversions without state; their results are inputs.
* The distributions of `latency.py`: floating point and randomness.  The entry leg
  of a sample is any value of a small set.
* The argument columns of log rows: no property tells them apart.
* File rotation, manifests and CSV/Parquet files: with files, the study would be a
  second machine over the same rows, which TLC does not finish.  The clock of
  `DepthCapture` therefore stays within its hour.
* The aggregate-trade and RPI depth streams of the capture, which go the same way
  as the two modelled; book tickers, whose arrival flushes updates as that
  of any other row does, and the counters of the study's report.
* `run_many`, which repeats `run` on the same events, the command lines, the
  fixtures, benchmarks and examples.
