# A verification development of free-coin

TLA+ modules of the trading core of `drakos74/free-coin`, the TLC configurations
that check them on small instances, and TLAPS proofs of what holds for every
instance. `PROJECT.json` lists the runs, the findings, the hazards, and the lines
of source each definition stands for.

    tlc -workers 2 -config trader_serial.cfg MCExchangeTrader
    tlapm Pipeline_proofs.tla

## 1. The system

`cmd/free-coin` wires one source, one engine, two processors, an exchange client
and a telegram bot. A trade goes from the socket through the processors, one
after the other, and back to the socket as a "recall"; each processor also feeds
a window per coin, and what it does with a window happens in goroutines beside
the pipeline. The trade processor owns the wallet, which calls the exchange.

| Component | State | Operations | Interacts with | Hard | Correct when |
|---|---|---|---|---|---|
| Wallet: `internal/trader`, `processor/trade` | positions, blob, tracker, event log, settings | `CreateOrder`, `Update`, `Reset`, sync ticker, load/save | exchange calls; three goroutines share it | check - order - book is not atomic; snapshots written back; crash between order and save; lost answers | the book is the margin account; closing never opens; a restart forgets nothing |
| Engine: `internal/engine.go` | `count`, `lost` maps | `Run`, `first`, output loop | channels, recall | unguarded maps; shutdown order | one trade in the pipeline; `Run` returns |
| Socket: `client/kraken/socket.go` | spread windows, last signals | `connect`, interrupt, reconnect | out channel, recall | a closed channel used by a reconnect | every trade is acknowledged |
| Buffered processors: `processor.go`, `buffer.go` | window per coin, last signal | `Push`, relay, worker | interval window, engine | races of push, flush and close | a trade is processed at most once |
| Interval window: `buffer/window.go` | bucket, count, flag | `Push`, `Flush`, `exec`, `Close` | timer goroutine, relay | a send with the lock held; use after unlock | counts match; no event in two windows |
| ML processor: `processor/ml` | ring per segment, networks, vectors | `push`, train, `start`/`stop` | collector to trainer channel, strategy | the trainer ends | a vector is always consumed |
| Strategy: `processor/strategy.go`, `model/config.go` | pointer to a configuration, map of segments | `EnableML`, `EnableTrader`, `SetGap`, `SetPrecisionThreshold`, `Config` | both command loops, trainer | two ways to write, one without the lock; ranging over a map that is written | a change that was answered holds |
| Position results: `internal/model`, `buffer/window.go`, `HistoryWindow` | history, two trends | `Update`, `AssessTrend` | trade worker | a fit over a ring that wraps; a trend of an earlier signal | closes on a trend fitted for that signal |
| Ring, buffers, statistics: `internal/buffer` | index, count, values | `Push`, `Get`, `Add` | windows, collector, networks | wrap around, size off by one, zero as "unset" | the last n in order |
| Data sets and networks: `ml/model`, `ml/net`, `buffer/hmm.go` | windows of inputs and outputs, predictions, scores | `Push`, `Train`, `Predict` | trainer, reprocessor | predictions made at different times, scored later | inputs belong to outputs; a prediction is scored once |
| Storage: `storage/file/json` | files | blob save/load, registry append/read | wallet, history, reader | truncate before write; half a record; a file per run | what was stored is read back |
| Polling client: `client/kraken/client.go`, `controller.go` | `since` per coin, turn, counter | `execute`, controller, stop conditions | timer, remote or mock source, recall | a request fails; the limit drops a trade | no trade twice, none skipped |
| History: `client/history`, `processor/history.go` | registry, batch of trades | store and forward, read back, `Ranges`, batch files | source, consumer, registry | a restart; a failed record; the last batch | stored before forwarded; a replay without holes |
| Local exchange: `client/local`, `processor/benchmark.go` | orders, wallet per coin | `OpenOrder`, `Process`, `Gather`, `Add` | trade processor | an order that turns a position | value is conserved |
| Telegram bot: `user/telegram` | consumers | `Listen`, `Send`, `listenToUpdates` | users, both command loops | a busy consumer; an error in a loop | a command ends: answered, ignored or dropped |
| Server: `internal/server`, `metrics/grafana.go` | a controller per route | `handle`, controller loop | http | busy routes, a handler that panics | one request per route, and free again after it |
| Position cache, mathematics, metrics, formatting | files, matrices, text | - | - | numeric | out of reach, or not used |

`PROJECT.json` says of each one whether it is modelled and, if not, why.

## 2. Modules

| Module | What it is |
|---|---|
| `ExchangeTrader` | the wallet, its callers, its blob, the margin account |
| `Pipeline` | socket, engine, processors, windows, relays, workers, trainer |
| `Buffers` | ring, queue, statistics, buckets, windows and histories, as values |
| `Orders`, `LocalExchange` | the builder of orders; the exchange of back-tests |
| `Backtest` | from trades over a signal and the history of a position to an order; composes the three above |
| `HMM`, `Trainer` | the Markov buffer; collector, data set, networks and their two score keepers |
| `Registry`, `Feed` | files of events; polling client, history, consumer and batch files, with restarts |
| `Commands`, `Server`, `Frontends` | bot, command loops and configuration; the routes; the two composed in one process |
| `LastN`, `Journal` | abstract specifications: a list of the last N values; a log per key that only grows |
| `MCExchangeTrader`, `MCPipeline`, `MCBacktest`, `MCTrainer`, `MCFeed`, `MCFrontends` | constants of the runs |
| `ExchangeTrader_proofs`, `ExchangeAccount_proofs`, `ExchangeSteps_proofs`, `Pipeline_proofs`, `Backtest_proofs`, `Trainer_proofs`, `Feed_proofs`, `Frontends_proofs` | theorems |

The components meet at few points. The trade worker of `Pipeline`
(`WorkerTake("trade", c)` to `WorkerDone("trade")`) is the tick goroutine of
`ExchangeTrader` (`TickRead` to the last `TickClose`), and with its values the
action `Deliver` of `Backtest`. The trainer goroutine of `Pipeline` is
`Signal` of `Trainer`, and `Train`, `Trained` of `Commands`. `Close` of
`Commands` is `UserStart` to `UserReset` of `ExchangeTrader`; that it may end the
process is `UserPanic`. So interleavings are in `Pipeline`, `ExchangeTrader` and
`Commands`, and values in `Backtest` and `Trainer`, where a signal is one step.

### 2.1 ExchangeTrader

State. `positions` is `trader.positions`, `disk` the blob `trader.save` writes,
`exposure` the signed volume the exchange holds per coin. `call[g]` is the
`CreateOrder` of goroutine g between the answer of the exchange and its return.
`tick`, `user` and `sync` are the locals of the three goroutines. `tracker` is
the number of results per coin; `events` counts the orders that were logged. The
other variables are ghosts, read by properties only, apart from `sent` and
`faults`, which carry bounds.

Steps. Each handler is cut where another goroutine can run in between for long,
at an exchange call and between reading a snapshot and the write that uses it:

| Code | Actions |
|---|---|
| `CreateOrder` lines 221-375: check, refusals, order, `OpenOrder` | `Signal`, `TickClose`, `UserClose`, each with `Refused`, `OrderFor`, `Submit` |
| lines 376-397: add, or close and reverse; track | `CommitOpen`, or `CommitClose`, `Reverse`, `CommitReverse` |
| `trader.update`: copy, assign; `AssessTrend` | `TickRead`, `TickSwap` |
| "?tr close" | `UserStart`, `UserClose` or `UserPanic`, `UserReset` |
| `sync` | `SyncStart`, `SyncLot` for each upstream position |
| `Save` | `SaveBook`: succeeds, fails, or fails after it truncated |
| the process ends, and loads | `Crash`, `UserPanic`: both are `Restart` |
| the account moves | `Drift` (external) |

In `UserStart` and `SyncStart` the answer of the exchange and the local snapshot
right after it are one step. The opening orders of `Signal` are those of
`Benchmark.Add`, the only caller with `open = true` that is left in the code; in
the live process every position comes from `sync`. `Signal` is more general than
that caller: it also takes a decision, as the interface does.

Data. A volume is a small integer. A result is its sign, which is what decides
thresholds, refusals and the tracker. A price is "order" or "fill", which is
what `Position.Sync` compares. A key's network and strategy are one tag, because
`FromString` loses both.

`Serial`. No method of `trader` takes an exclusive lock, so handlers interleave.
With `Serial = TRUE` a handler starts only when the other goroutines are between
handlers. That is what one mutex around them would give, and it is what most
properties need: they are stated of that wallet, and `trader_double_close` shows
what becomes of one of them in the wallet as it is.

`tainted` holds the coins whose book and account may differ for a reason that
is written down in the action that adds it: a lost answer, a drift, a second
live position of the coin, an order sent with a live flag that is not the
position's, a `Reset` of open positions, a restart with an order out or from a
blob that was not written. A sync that finds one upstream position and one local
position of the same side removes it.

### 2.2 Pipeline

State. `source` is the socket; `at` and `hand` give each stage's step and the
trade it handles; per processor and coin `window`, `timer`, `message`, `relay`
and `echo` are the bucket, the goroutine of `exec`, the message it sends, the
signal `bufferedProcessor` sends, and whether there is a last signal. `todo`,
`full` and `trainer` are the collector's loop and the goroutine that reads
`col.vectors`; `enabled` is `Stats.Live` per segment. `pushed` and `handled` are
ghosts.

Every channel of this program is unbuffered, so a send and its receive are one
action that needs both sides (`Offer`, `Pass`, `Recall`, `RelayTake`,
`WorkerTake`, `Collect`). `Push` is two steps, under the lock and after it;
`Flush` is `Flush` (reads the bucket), `FlushClear` (drops it) and `RelayTake`
(the send, with the lock held). A panic is `crashed`, after which nothing moves.
The process ends when the output loop does.

Not modelled: the increment of `iw.count` apart from the push into the bucket;
parsing; errors in training, which panic; the aliasing of `lastSignal`. The spread
windows of the socket have size 0: a push never closes a bucket, so the signal
that would hold the spread stays empty (socket.go:139-146). The interval mode of
the window is in `Backtest`.

### 2.3 Backtest, Buffers, Orders, LocalExchange

| Code | Definitions |
|---|---|
| `IntervalWindow.Push` in both modes, `Flush`, the timer | `Trade`, `LateTrade`, `Flush`, `Collected`, `Late`, `Flushed` |
| `tradeToTick` of the socket (the last trade of an update) | `TradeToTick`, `Heard` |
| `bufferedProcessor`: range, average, repeated signal | `SignalOf`, `Flattened`, `Deliver` |
| `Position.Update`, `calculateTrend`, `AssessTrend` | `Update`, `Trending`, `Shifting`, `Aged`, `AssessTrend` |
| `HistoryWindow`, `Window`, `Bucket`, `Stats`, `Ring` | `HistoryPush`, `WindowPush`, `StatsPush`, `RingPush`, `RingGet`, `Points` |
| `Benchmark.Add` and the reversal of `CreateOrder` | `Strategy` |
| `OrderBuilder`, with its panics | `Orders`; `TypeOK` says none of them happens |
| `local.Exchange` and its report, summed from the orders | `OpenOrder`, `Process`, `Gather`, `Total` |

A fit over the points of a history is floating point: `Curves` is what it may
answer, and the properties are about over which points, when, and with which
fit before it is compared. Prices are multiples of 60, so that averages are
integers. Worth knowing of the code: the threshold is decided at the highest
price of the interval while the order is filled at the average; `Stats` takes a
minimum or maximum of zero for not set; `HistoryWindow.Push` has a value
receiver and loses the index it writes; `NewIntervalWindow` starts the timer
before `WithInterval` turns it off, so that a timer which looked first fires
once (`Timers`). The sets of records at the head of `Backtest` (`Stats` to
`Position`) are the structs of the code; `NoneAssumption` says that `None` is none
of them.

### 2.4 Trainer and HMM

One action, `Signal`, is one observation through `Collector.push`, the scores of
the trainer and of the reprocessor, `DataSet.Push`, and the training and
prediction of each network; the operators carry the names of the code. Which
value the GRU answers is left open. The shape of a polynomial is its buffer and its
degree: `Shapes` has those of the default configuration and the smallest there
is, and `PolyPredict` the weights of the least-squares fit of each, in integers. `Predict` of the Markov buffer
picks any of the values with the highest count, as a sort that is not stable does.
Two segments of one coin and duration are trained on each other's vectors
(`Pipeline` has the pair of such segments); `Trainer` is one segment. The first pair a Markov buffer could
count is never counted, which `HmmCounts` states.

### 2.5 Feed, Registry, Journal

| Code | Definitions |
|---|---|
| `Client.execute`, its deferred call, `since` | `Poll`, `PollFailed`, `Retry`, `Advance` |
| remote and mock source | `Response`, `From`, `Exhausted`, `Index` |
| `controller`, `api.Counter` and `api.NonStop` | `Delegate`, `StopExecution` |
| `History.Trades` with a registry | `HistoryTake`, `HistoryAdd`, `HistoryAddFailed`, `HistoryClose` |
| `processor/history.go` | `Consume`, `Full`, `FileName` |
| `History.Trades` with a reader; `Ranges` | `Replay`, `Within`; `Ranges` |
| `json.Registry`: `Add`, `GetAll`, `GetFor`, `Check` | `Store`, `GetAll`, `GetFor`, `Check` |
| the process ends and is started again | `Restart` |

A file of the registry is named by the second in which its process started, so
`<<coin, label, run>>` is a file. A record may not be written or be written in
part; what is appended to a partial record cannot be decoded either. `Walked` is
`filepath.Walk`: what the names of a directory hold, in the order of the names; files
of a label and labels of a coin are read by it. `GetFor`
fails as a whole when one record does, and `Stored`, what the journal is compared
with, keeps the records that can be decoded. The filter of the reader keeps labels
that start up to one hour before the request although a label holds four hours
(history.go:161): trades of the request's first label may be left out, at the
start only, which `ReplayNoGap` shows.

### 2.6 Commands, Server, Frontends

`Commands` has the bot (`ListenToUpdates`, `Deliver`, `Drop`), the two loops
`trackUserActions` (`Serve`, `AskConfig`, `Set`, `Close`, `SetStart`,
`SetAssign`) and the configuration at the grain of the steps between which
another goroutine sees it: `EnableML` and `EnableTrader` take the lock, write into the
shared map and swap the pointer (`EnableStart`, `EnableWrite`, `EnableSwap`);
`SetGap` and `SetPrecisionThreshold` copy the map and put it into the struct
they read (`SetStart`, `SetAssign`). The trainer ranges over the map; a range
that meets a write may end the process (`Fatal`). `Server` has the
controller of each route and `handle`; what the handlers of `metrics.Server`
return is `Returned`: they leave the code at 0 when they succeed, and
`WriteHeader(0)` panics, so a request to them is never answered, and the route
must become free all the same. `Frontends` composes the two: they share the
process, and `up` ends both.

Worth knowing of the code: `?tr stop` sets a flag that nothing in production
reads (strategy.go:77), `?tr log` sets the take profit (trade/user.go:89-91);
`SetPrecisionThreshold` would panic for a network other than "all", which is the
only one it is called with.

## 3. Runs

| Run | Module | Checks | Instance |
|---|---|---|---|
| `trader_serial` | wallet | `TypeOK`, `BookMatchesExchange`, `CloseFindsPosition`, `DiskCoversBook`, `ResultsCountedOnce`, `CommandSafe`, `RestartKeepsCoins`, `ClosingShrinks` | 1 coin, 2 keys (bare and with a strategy), volume 1, live and paper, handlers exclude each other, 1 fault of any kind, 3 orders |
| `trader_interleaved` | wallet | `Adoption` | 1 coin, 1 key, live, handlers interleave, 1 fault of any kind, 1 order |
| `trader_double_close` | wallet | `ClosingShrinks` is violated | 1 coin, 1 key, interleaved, no fault, 2 orders |
| `trader_actions_log` | wallet | `ActionsHoldEveryOrder` is violated | 1 coin, 1 key, no fault, 2 orders |
| `pipeline_flow` | pipeline | `TypeOK`, `MapsExclusive`, `AtMostOnce`, `TradeAcknowledged`, `InterruptEnds` | the ml processor, 2 coins, 3 segments (two share a duration), 2 trades, interrupt at any time, training stays on |
| `pipeline_ml_stop` | pipeline | `TradeAcknowledged` is violated | the ml processor, 1 coin, 1 segment, 2 trades, the user may stop the training |
| `pipeline_echo` | pipeline | `EmptyIntervalsIgnored` is violated | both processors, 1 coin, 2 trades |
| `backtest` | back-test | `TypeOK`, `SignalExact`, `PointsAreHistory`, `ShiftIsSwitch`, `VolumeIsBook`, `ReportBalances`, `ClosesOnFreshTrend`, `KeepsLastN` | 2 prices, 4 trades, 5 flushes, 3 curves, a ring of 2 buckets, 2 orders of the strategy; live and replayed |
| `trainer` | trainer | `TypeOK`, `PairsFollow`, `ScoredOnce`, `PredictionsCurrent`, `CopiesAgree`, `HmmCounts`, `MatchesAreRight` | 9 observations of 3 kinds; a GRU, polynomials with buffers of 2 and degrees 2 and 1, a multi-network of both, a Markov buffer of 1 and 1 |
| `feed` | feed | `TypeOK`, `InOrder`, `StoredFirst`, `ReplayNoGap`, `BatchesExact`, `KeepsJournal`, `Arrives` | 2 coins with 3 trades and 1, remote and mock, with a limit of 3 trades and without, responses and batches of 2, 2 starts, 1 failed record |
| `feed_ranges` | feed | `OnlyDuplicatesRemoved` is violated | the same, with `Ranges` |
| `frontends` | frontends | `TypeOK`, `UpdatesKept`, `CommandsEnd`, `RouteFree` | 2 coins; 3 changes of the configuration, or 2 commands of any kind, or 1 with a request, or 3 requests on 2 routes |

Why the bounds are enough. One coin with two keys shows every interaction of
positions, since the code relates positions only by coin; coins are independent
but for the Reset of all of them. Three orders are open, close and open again,
or a reversal and one more, in any mix of callers; syncs and restarts are
not bounded by orders. One fault separates what a single fault can
do; the theorems hold for any number. Two trades of the pipeline meet in one
window, in two windows of one coin, or in windows of two coins; three segments
give a sibling and a segment with another duration. Names of bounds:
`MaxOrders`, `MaxFaults`, `MaxTrades`; `Drifts` and `Volumes` bound the account.
Only the wallet's runs check deadlock. The others do not: the process ends, by an
interrupt or a panic, and what comes from outside (`MaxFlushes`, `MaxSignals`,
`Times`, `MaxRuns`, `Loads`) is bounded.

Back-test: the first of five flushes gives the signal a position is opened at,
the other four its history, so three buckets close, the ring of two wraps, and two
fits follow each other; the curves are both down, one up, and one down with one
that is no trend. Trainer: the networks start with the third vector; the
multi-network, the last, predicts from the sixth of eight, so two of its predictions
are scored, and more of the others. Feed: three trades of a coin are two
responses, two labels, and a batch and a half; a second start finds
the files of the first, and a failed record lies before or after the restart.
The requests cover all trades, the middle, and one that skips the first label.
Frontends: two changes overlap in either order, and a third comes before, after
or is dropped; two requests meet on a route, with a third on another or after.

What they show:

* `BookMatchesExchange`: between orders the book of a coin that is not tainted
  is what the account holds, through open, close, reverse, refused orders,
  failing saves, syncs, resets and restarts.
* `ClosingShrinks`: a request that does not open never takes the account across
  zero or away from it.
* `CloseFindsPosition`: no two closers of one position are ever out.
* `DiskCoversBook`, `RestartKeepsCoins`: a restart between handlers forgets no
  position and invents none; results since the last save are lost (`update`
  does not save), and tags always are. Where two positions of the book have the
  same stored key, a restart keeps either (the order of a map), and since
  `load` does not save, a second restart before the next save may bring back the other:
  the property has a case of its own for it.
* `ResultsCountedOnce`: reversals and failed reversals count a result at most
  once per order.
* `CommandSafe`: with handlers that exclude each other, the nil error that the
  close command dereferences never occurs.
* `Adoption`: even interleaved, exposure the wallet forgot is adopted later.
* `MapsExclusive`: the recall is what keeps the two goroutines of the engine
  off each other's maps; a source that did not wait would break it.
* `AtMostOnce`: the races of `Push` and `Flush` and the repeated signals lose
  trades but never count one twice.
* `TradeAcknowledged`, `InterruptEnds`: with training on, every trade comes
  back, and after an interrupt `Run` returns unless a timer or the reconnect
  panics first.
* `SignalExact`, `PointsAreHistory`, `ShiftIsSwitch`, `ClosesOnFreshTrend`: what
  closes a position. The signal has the lowest, highest and average price of its
  interval, whoever ended the interval; the points of a fit are one per bucket of
  the results the position saw, in order; a shift compares with the fit before,
  however many signals came between; and a position is closed by a trend of that
  very signal, over three buckets at least, and never by one that is left from before.
* `KeepsLastN`: the closed buckets are a list of the last `Samples` (`LastN`), a
  refinement with `kept <- RingGet(ring)`.
* `VolumeIsBook`, `ReportBalances`: an order that turns a position is sent twice
  and leaves the exchange with what the book says; the report, which is computed from the list
  of orders, is the result of the positions and agrees with the wallet that was
  kept order by order.
* `PairsFollow`, `ScoredOnce`, `PredictionsCurrent`, `CopiesAgree`, `HmmCounts`,
  `MatchesAreRight`: inputs and outputs kept in windows of different sizes belong
  together; a network that starts to predict late is not scored for what it did not
  predict, and one that did is scored once, against the next observation, alike by
  the trainer and the reprocessor; the copies in the multi-network, which are trained
  only as far as the first that is not full, have caught up when it predicts.
* `InOrder`, `StoredFirst`, `BatchesExact`: failing requests and turns of coins
  skip, repeat and reorder nothing; a trade is in the registry before the consumer has it unless
  a record of its file failed; the end of the process loses the unfinished batch and
  no more.
* `ReplayNoGap`, `KeepsJournal`: a replay has no hole although a label is spread
  over the files of several runs; the registry is a journal (`Journal`), a refinement with
  `log <- Stored`, the records of a label that can be read.
* `Arrives`: every trade arrives, unless the limit ends the feed: then the
  consumer has one trade less than the limit, since the last is dropped.
* `UpdatesKept`: changes that do not overlap hold, whichever of the two ways
  they are made; of two that overlap one is lost, which the property excludes by
  `overlap`. `CommandsEnd`: every command is answered, ignored or dropped.
  `RouteFree`: a route becomes free again, also when its handler panics.

Findings (`PROJECT.json` quotes the lines): two closers that both reach the
exchange; an action log without the closing orders; a trainer that ends for good
when it meets a segment that is switched off, which stops the pipeline; quiet
intervals that are processed although the window says they are ignored; `Ranges`,
which takes the file of a second run for a duplicate and removes trades that are
nowhere else.

## 4. Fairness

`ExchangeTrader!FairSpec` asks that a sync starts when it always could and that
a started one goes on: the ticker is a goroutine of its own that only waits for
the exchange, so the assumption is that the exchange answers it.
`Pipeline!FairSpec` asks weak fairness of each goroutine of the program: stages,
windows, workers, collector and trainer. Timers fire, and the wallet's and
telegram's calls return. It asks strong fairness of two steps, where a goroutine
competes with others: `PushEnter`, which waits for a lock the flush takes again
and again, and `WorkerTake`, where the relays of all coins send on one channel.
Go's mutex hands over to a waiter that starves and its channels serve senders in
order of arrival, which is what that says. No fairness is asked of the source,
the user, faults or the interrupt.
`Feed!Fairness` asks weak fairness of each goroutine. `execute` calls itself
again by a deferred timer whatever became of the request; that a request which is repeated
for ever is answered in the end is strong fairness of `Poll` for each coin's
turn, an assumption about the exchange. None is asked of new trades, of failing records
or of restarts, which are bounded. `Frontends!Fairness` asks weak fairness of
the bot, of each command loop, of the controllers and of a request that was let
in: the calls of telegram return, and a delivery either meets its consumer or
times out, of which the second is always possible. None is asked of users or of
the network. `Backtest` and `Trainer` have no liveness properties: nothing in them
waits.

## 5. Proofs

All theorems hold for every value of the constants that satisfies the named
assumptions: any coins, keys, volumes, processors and bounds.

| Module | Theorem | Says |
|---|---|---|
| `ExchangeTrader_proofs` | `TypeCorrect` | `Spec => []TypeOK` of the wallet, interleaved or not |
| | `CloseFinds`, `DiskCovers` | `Serial => (Spec => []CloseFindsPosition)`, the same of `DiskCoversBook` |
| `ExchangeAccount_proofs` | `BookIsAccount` | `Serial => (Spec => []BookMatchesExchange)` |
| `ExchangeSteps_proofs` | `ClosesShrink`, `RestartsKeep` | `Serial => (Spec => ClosingShrinks)`, the same of `RestartKeepsCoins` |
| | `CommandIsSafe`, `CountsOnce` | `Serial => (Spec => []CommandSafe)`, the same of `ResultsCountedOnce` |
| `Pipeline_proofs` | `FlowCorrect` | `Spec => [](TypeOK /\ FlowInv)` of the pipeline |
| | `MapsAreExclusive`, `ProcessedOnce` | `Spec => []MapsExclusive`, `Spec => []AtMostOnce` |
| `Backtest_proofs` | `HistoryKept` | `Spec => KeepsLastN`: the ring of a position's history implements `LastN` |
| | `TypeCorrect`, `SignalsAreExact`, `HistoriesAreExact`, `ShiftsAreSwitches` | the invariants `TypeOK`, `SignalExact`, `PointsAreHistory`, `ShiftIsSwitch` |
| | `ClosesWhenFresh` | `Spec => ClosesOnFreshTrend` |
| | `VolumeFollowsBook`, `ReportsBalance` | the invariants `VolumeIsBook`, `ReportBalances` |
| `Trainer_proofs` | `TypeIsRight`, `PairsStayPaired`, `PredictionsStayCurrent`, `CopiesCatchUp`, `MatchesStayRight`, `ScoresCountOnce`, `HmmCountsRight` | the invariants `TypeOK`, `PairsFollow`, `PredictionsCurrent`, `CopiesAgree`, `MatchesAreRight`, `ScoredOnce`, `HmmCounts` |
| `Feed_proofs` | `TypeCorrect`, `ArrivesInOrder`, `BatchesComplete` | the invariants `TypeOK`, `InOrder`, `BatchesExact` |
| | `SeenIsStored`, `ReplayHasNoGap` | the invariants `StoredFirst`, `ReplayNoGap` |
| | `RegistryIsJournal` | `Spec => KeepsJournal`: the registry implements `Journal` |
| `Frontends_proofs` | `TypeCorrect`, `UpdatesCorrect` | `Spec => []TypeOK` of commands and routes, `Spec => []UpdatesKept` |

Every invariant a run checks is stated by a theorem, and every action property and
refinement; what a run shows on its instance is proved for all of them.

Wallet. `CloseFindsPosition` is not inductive: a commit of another goroutine
could remove the position. The strengthening is `Exclusive` and `AllServed`.
`Exclusive` says that at most one goroutine is inside a handler, which `MayStart`
keeps up, and that the snapshot of a tick is still the book. `AllServed` says,
for every order that is out, what the book holds under its key: the position it
closes, or nothing when it opens or reverses. `DiskCoversBook` is preserved by a
restart because what is loaded is what is stored up to tags, and by `TickSwap`
because it changes results only and its snapshot is the book.
`BookMatchesExchange` needs the inductive `AccountInv`: besides these, what the
account is while an order is out (`Account`: flat when the order closed the only
live position, the order's volume when there was none), and that a sync under
way holds the book as it is and, for a coin that is not tainted, the exposure as
it is (`SyncSees`). The proofs have one step per action.

The properties of steps build on it. `ClosesShrink`: at the moment an order is sent
the lot it closes is in the book, so a coin that is not tainted has exactly that
exposure (`AccountInv`). `RestartsKeep` needs `DiskBook`: when a save succeeded last, the book is
the blob, or one of the books that may be loaded from it. Proving it showed that the
property as it was stated before is false with two crashes and two positions that share a stored
key. `CommandIsSafe` needs `Commanded`: a position the close command still has to close
is gone from the book or of the type it saw, and the command has only closing orders out. `CountsOnce` needs `CarriesResult` and
`Counted`: what an order that is out will count was not counted before, so the tracker and what
is pending never exceed the results of the positions.

Pipeline. `MapsExclusive` follows from `FlowInv`: a stage that does something
has a trade in hand (`InHand`), the socket waits for the recall meanwhile and no
other stage does anything (`OneTrade`). `AtMostOnce` follows from `CountInv`: per
processor and coin, the trades processed plus those with the worker, the relay,
and the window or its message never exceed those that were pushed (`Counted`). A
flush that has read the bucket and not dropped it yet holds no more than the
bucket (`Shape`), so the two are counted once. The lemmas are about that sum,
one per kind of step.

Back-test. `RingAdds` is the heart: on a ring whose index and count belong
together (`IsRing`), `Get` after a `Push` is what `Get` was with the value at the
end and without the oldest once the ring is full. `RingShows` says in which slot each
element is, `NextSlot` does the arithmetic of the index. The refinement follows by cases of
the step: a signal pushes a bucket or none (`Updated`), a new or closed position
starts an empty list. `HistoryInv` is the inductive invariant: the position's
history is such a ring.

The other properties rest on `BacktestInv`, in four parts. `FeedInv`: the open
interval holds the count, sum, first, last, lowest and highest of the trades it heard.
`SignalsInv`: the last signal is that of the trades before, and no signal is earlier than the
one before it. `PositionInv`: each bucket of the position's history, closed or open, has the count
and sum of the results in its time, in order and without a hole, the trend has the values of
the last fits, and a live trend belongs to the signal at hand. `BookInv`: the volume and value of the
exchange are those of the position and of the results, and so is the report.
The sums are folds over the orders and the results. Such a fold is, by
definition, a recursive function on sets of positions; the lemmas `TotalIter` to
`TotalAdds` show its equation from the least counterexample (`Least`), so that a
sum over one order more is one order more.

Trainer. `TypeInv` and four invariants on top. `WindowInv`: every queue holds the newest of
what was observed, inputs with a gap of one (`Latest`, `LatestPushed`). `PredInv`: what is kept of
a prediction is the last entry of `made`, alike in the network, the trainer and the reprocessor.
`CopiesInv`: a copy holds the newest of what it copies, and is empty while one before it is not full.
`ScoreInv`: a score is the number of predictions that turned out so (`TurnedOut`). `HmmInv`:
the counts are those of the pairs that ended since the model was full (`Occurs`).

Feed. `InOrder` only speaks of what was seen; the inductive invariant says where the
next trade of each coin is. `Passed(c)` is how many trades of a coin the controller has
taken: the index of the response less what is still to be sent of it, or `since` when it is not
the coin's turn. `PollInv` says that what is left to send are the trades up to the
index, `MockInv` that the files the mock has served are what `since` says, `HandInv` that the
one trade in flight is number `Passed(c)`, and `SeenInv` that the consumer has seen the
numbers up to `Passed(c)`, or all but the last when it is in flight. A controller that stopped
at its limit drops a trade, so `SeenInv` claims this only before; what was seen
stays in order because nothing is sent afterwards.

`BatchesExact` follows from `Filled`: what was seen is some number of full batches,
each in the file of its first and last trade, and the batch that is being filled; no
later batch has that name because no trade is seen twice (`SeenOnce`, from `InOrder`). `StoredFirst`
needs `StoredInv`: not only what was seen is on disk or excused (`Secured`) but also
the trade in hand, and a file of this run that ends in half a record is one where an
earlier trade failed (`Torn`). `ReplayNoGap` follows from `RegistryInv`, that a
file holds trades of its own coin and label: times and so labels grow with the trades, hence
the label of a trade between two that are kept is kept. For the journal, `RecordsSplit` says
that the file of the run is the last of its label, so that what is stored comes last
in what is read; `ReadsAfter` goes through the four cases of `Store`.
The walk over the names is a recursive function: it exists (`WalkExists`), does not
depend on names beyond the last (`WalkedAt`), and its values follow from the names (`WalkedHas`,
`WalkedLast`), each by the least counterexample.

Frontends. `CommandsInv` has five parts. `Typed`; `Delivering` and `Serving`, that a
loop works on a message for it which nobody answered and the bot no longer
delivers; `Locking`, that the lock belongs to the loop that writes;
`Changing`, which makes `UpdatesKept` inductive: while a loop changes segments and no
other does, the map that is meant is the shared map after the write, or the copy
that is assigned. `WebInv` says that a route that waits for a reaction has one
request inside. The maps are functions of coins, so the proofs hold for any
set of coins, messages, routes and requests.

Only model-checked: the liveness properties (`Adoption`, `TradeAcknowledged`,
`InterruptEnds`, `Arrives`, `CommandsEnd`, `RouteFree`), which need fairness and
ENABLED, out of the prover's reach. The properties of the runs that show a violation are
false and have no theorem. Induction is used in one form only, the least element of a set of numbers
(`WFMin` with `NatLessThanWellFounded`): the library's induction theorems take an operator as
a parameter, which the provers cannot instantiate. No module declares a RECURSIVE operator.
What the theorems about the wallet do not cover is the wallet as it is, with handlers that overlap:
there only `TypeCorrect` holds for every instance.

## 6. Not modelled

* `client/positions.go`: only the binance client uses it, and that does not compile
  against the current interfaces.
* `internal/math`, the networks' arithmetic, `buffer/kmeans.go` and the variance
  and averages of `Stats`: floating point. What the other parts do with a result is
  modelled with the result left open.
* `metrics`, `emoji`, `time`, the `format.go` files: output; no other part reads it.
* `Strategy.Eval`, `trade`, `signal` and `Reset`, `BatchWindow`, the limit and echo options
  of `IntervalWindow`, triggers with a default command (`message.go:136`), limit orders:
  called by tests or by nothing.
* `processor/ml/processor.go`: the processors the ml processor replaced, wired nowhere.
* The void and mock storages and exchanges, which keep nothing; the tables that
  convert names of coins and durations to those of kraken.
* Price, balance and pair queries of the kraken client, which change no state.
* `cmd/train` starts one more processor per file on the same channels; each of them is
  what `Trainer` and `Feed` model.

## 7. Plan

1. An abstract window that `Pipeline` stands on and the interval window implements, with
   close, at the grain of single reads and writes.
2. A lock per route as abstract specification of `Server`, and the step relation of its refinement
   proved.
3. The safety halves of the liveness properties: what holds of a command or a trade until it is
   answered, as invariants with theorems (`CommandsEnd`, `RouteFree`, `TradeAcknowledged`).
4. Lemmas that are needed in several proofs (the least element, sums, the newest of a
   sequence) in one place.
