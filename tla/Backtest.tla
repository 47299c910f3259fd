------------------------------ MODULE Backtest ------------------------------
(***************************************************************************)
(* The way of a price from the trades of one coin to the order that closes *)
(* a position, on the local exchange of back-tests:                        *)
(*                                                                         *)
(*   trades -> interval window -> signal -> trader.update, AssessTrend     *)
(*                                             |                           *)
(*                     HistoryWindow of the position's PnL, two fits       *)
(*                                             |                           *)
(*                          CreateOrder -> local exchange, report          *)
(*                                                                         *)
(* A signal is processed in the step that flushes the window: what can     *)
(* happen in between is module Pipeline, and what other goroutines do to   *)
(* the wallet is module ExchangeTrader.  The regression itself is left     *)
(* out: a fit gives any slope and curvature of Curves, once there are      *)
(* enough points.  Prices are multiples of what makes an average of at     *)
(* most MaxTrades of them an integer; a position is one lot; a PnL is in   *)
(* thousandths of the open price, times the open price.                    *)
(***************************************************************************)
EXTENDS Buffers, Orders, LocalExchange

CONSTANTS
  Prices,        \* prices of trades
  Steps,         \* seconds between two trades
  Curves,        \* slope and curvature the two fits of a history may have
  Threshold,     \* config.Threshold: smaller coefficients are no trend
  Interval,      \* seconds an interval window collects
  Duration,      \* seconds of a bucket of the position's history
  Samples,       \* buckets of the history
  Fee,           \* model.Fees
  Limit,         \* settings.TakeProfit and settings.StopLoss
  None,          \* no position, no signal, no trend
  MaxTrades,     \* bound on trades
  MaxFlushes,    \* bound on flushes
  MaxOrders      \* no signal of the strategy once so many orders were sent

Types == {"Buy", "Sell"}

ASSUME BoundsAssumption ==
  /\ Samples \in Nat \ {0} /\ Duration \in Nat \ {0} /\ Interval \in Nat
  /\ Steps \subseteq Nat /\ Curves \subseteq Int \X Int /\ Threshold \in Nat
  /\ MaxTrades \in Nat /\ MaxFlushes \in Nat /\ MaxOrders \in Nat
  /\ Fee \in Int /\ Limit \in Nat /\ MaxFloat \in Nat
ASSUME PricesAssumption ==
  \A p \in Prices : p \in Nat \ {0} /\ p < MaxFloat /\ \A n \in 1 .. MaxTrades : p % n = 0

Stats == [count : Nat, sum : Int, first : Int, last : Int, min : Int, max : Int]
Bucket == [index : Nat, stats : Seq(Stats)]
Window == [size : Nat, last : Nat, bucket : Bucket]
Ring == [size : {Samples}, index : 0 .. Samples - 1, count : Nat,
         values : [0 .. Samples - 1 -> Bucket \cup {Nil}]]
Collecting == [first : Nat, window : Window]
Signal == [time : Nat, min : Nat, max : Nat, price : Nat, size : Nat]
Trend == [live : BOOLEAN, last : Int \X Int, now : Int \X Int,
          type : Seq(Types \cup {None}), shift : Seq(Types \cup {None})]
Position == [type : Types, open : Nat, pnl : Int, trend : Trend \cup {None},
             history : [window : Window, ring : Ring]]

ASSUME NoneAssumption == None \notin Types \cup Collecting \cup Signal \cup Trend \cup Position

VARIABLES
  clock,     \* time of the last trade
  trades,    \* number of trades
  live,      \* SignalBuffer.live: windows end by a timer, not by a late trade
  timer,     \* the timer of the interval window runs
  interval,  \* the interval window: None, or its first trade and its window
  signal,    \* the last signal sent to the processor
  last,      \* lastSignal of bufferedProcessor, which is flat
  flushes,   \* number of flushes
  position,  \* the position of the book
  exchange,  \* the local exchange
  prices,    \* ghost: the prices in the interval, and in the one before
  ticks,     \* ghost: time and PnL of the signals the position saw
  fits,      \* ghost: the fits made for the position
  realised   \* ghost: what closed positions made

feed == <<clock, trades, live, timer, interval, prices>>
vars == <<feed, signal, last, flushes, position, exchange, ticks, fits, realised>>

Inv(t) == IF t = "Buy" THEN "Sell" ELSE "Buy"
Side(t) == IF t = "Buy" THEN 1 ELSE -1
Size(x) == IF x < 0 THEN -x ELSE x

\* NewIntervalWindow starts the timer of a window, WithInterval ends it, if
\* the timer did not look before that.
Timers(isLive) == IF isLive THEN {TRUE} ELSE BOOLEAN

Init ==
  /\ clock = Interval + Duration /\ trades = 0 /\ interval = None
  /\ live \in BOOLEAN /\ timer \in Timers(live)
  /\ signal = None /\ last = None /\ flushes = 0
  /\ position = None /\ exchange = NewExchange
  /\ prices = [now |-> <<>>, before |-> <<>>]
  /\ ticks = <<>> /\ fits = <<>> /\ realised = 0

-----------------------------------------------------------------------------
(* Signals.                                                                *)

\* IntervalWindow.Push: the first trade opens the window.  The dimensions are
\* price and size, those of the volume are left out.
Collected(window, p, t) ==
  LET open == IF window = None THEN [first |-> t, window |-> NewWindow(Interval, 2)] ELSE window
  IN  [open EXCEPT !.window = WindowPush(@, 1, <<p, 1>>)]

\* Without the timer, a trade too late for the window flushes it first.
Late(t) == ~live /\ interval # None /\ t - interval.first > Interval

\* tradeToTick: of the trades in an update of the socket, the last.
TradeToTick(data) == Last(data)

\* What comes live comes from the socket; a back-test replays every trade.
Heard == IF live THEN {TradeToTick(<<p, q>>) : p, q \in Prices} ELSE Prices

Trade(p, dt) ==
  /\ trades < MaxTrades /\ ~Late(clock + dt)
  /\ trades' = trades + 1 /\ clock' = clock + dt
  /\ interval' = Collected(interval, p, clock')
  /\ prices' = [prices EXCEPT !.now = Append(@, p)]
  /\ UNCHANGED <<live, timer, signal, last, flushes, position, exchange, ticks, fits, realised>>

\* bufferedProcessor: the range and the average of the interval.
SignalOf(window) ==
  LET stats == window.window.bucket.stats
  IN  [time |-> window.first + Interval, min |-> stats[1].min, max |-> stats[1].max,
       price |-> stats[1].sum \div stats[1].count, size |-> stats[2].sum]

\* flatten: what an interval without trades repeats.
Flattened(s) == [s EXCEPT !.min = s.price, !.max = s.price, !.size = 0]

-----------------------------------------------------------------------------
(* Position.Update and AssessTrend.                                        *)

NewTrend == [live |-> FALSE, last |-> <<0, 0>>, now |-> <<0, 0>>,
             type |-> <<None, None>>, shift |-> <<None, None>>]

PnL(p, price) == 1000 * Side(p.type) * (price - p.open) - Fee * p.open

\* calculateTrend
Trending(v) == IF Size(v) <= Threshold THEN None ELSE IF v < 0 THEN "Sell" ELSE "Buy"
Shifting(v, before) == IF v * before < 0 THEN Trending(v) ELSE None

\* Mutant: the value before is not passed on.
AgedForgetful(trend) == IF trend = None THEN NewTrend ELSE [trend EXCEPT !.live = FALSE]

\* A trend is live for the one signal that computed it.
Aged(trend) ==
  IF trend = None THEN NewTrend ELSE [trend EXCEPT !.live = FALSE, !.last = trend.now]

\* A signal that closes a bucket of the history fits both curves; with too
\* few points for the second one nothing is kept.
Fitted(p, time) == HistoryCloses(p.history, time, Duration) /\
                   Fits(HistoryPush(p.history, time, Duration, 0), 2)

Update(p, s, fit) ==
  LET pnl == PnL(p, s.max)
      aged == Aged(p.trend)
  IN  [p EXCEPT
         !.pnl = pnl,
         !.history = HistoryPush(@, s.time, Duration, pnl),
         !.trend = IF Fitted(p, s.time)
                   THEN [aged EXCEPT !.live = TRUE, !.now = fit,
                           !.type = [i \in 1 .. 2 |-> Trending(fit[i])],
                           !.shift = [i \in 1 .. 2 |-> Shifting(fit[i], aged.last[i])]]
                   ELSE aged]

Assessed(t) == t.live /\ \E i \in 1 .. 2 : t.type[i] # None

\* Mutant: the trend of an earlier signal is as good.
AssessTrendStale(p) ==
  /\ p.pnl >= Limit * p.open \/ p.pnl <= -Limit * p.open
  /\ \/ \A i \in 1 .. 2 : p.trend.type[i] = "Sell"
     \/ \E i \in 1 .. 2 : p.trend.shift[i] = "Sell"

\* AssessTrend: a result over a threshold, and both trends or a shift down.
AssessTrend(p) ==
  /\ p.pnl >= Limit * p.open \/ p.pnl <= -Limit * p.open
  /\ Assessed(p.trend)
  /\ \/ \A i \in 1 .. 2 : p.trend.type[i] = "Sell"
     \/ \E i \in 1 .. 2 : p.trend.shift[i] = "Sell"

-----------------------------------------------------------------------------
(* CreateOrder.                                                            *)

Order(t, price) == MarketOrder("coin", t, 1, price)

\* NewProfit: the history of a position.
NewProfit == NewHistory(Samples)

OpenPosition(t, price) ==
  [type |-> t, open |-> price, pnl |-> 0, history |-> NewProfit, trend |-> None]

Result(p, price) == Side(p.type) * (price - p.open)

\* The processor got the signal s.
Deliver(s, fit) ==
  /\ signal' = s
  /\ IF position = None
     THEN /\ exchange' = Process(exchange, s.price)
          /\ UNCHANGED <<position, ticks, fits, realised>>
     ELSE LET p == Update(position, s, fit)
          IN  /\ ticks' = Append(ticks, [time |-> s.time, pnl |-> p.pnl])
              /\ fits' = IF Fitted(position, s.time) THEN Append(fits, fit) ELSE fits
              /\ IF AssessTrend(p)
                 THEN /\ exchange' = OpenOrder(Process(exchange, s.price),
                                               Order(Inv(p.type), s.price))
                      /\ position' = None
                      /\ realised' = realised + Result(p, s.price)
                 ELSE /\ exchange' = Process(exchange, s.price)
                      /\ position' = p
                      /\ UNCHANGED realised

\* IntervalWindow.Flush, and what bufferedProcessor makes of it.
Flushed(fit) ==
  /\ flushes < MaxFlushes
  /\ flushes' = flushes + 1
  /\ IF interval # None
     THEN Deliver(SignalOf(interval), fit) /\ last' = Flattened(SignalOf(interval))
     ELSE /\ UNCHANGED last
          /\ IF last # None THEN Deliver(last, fit)
             ELSE UNCHANGED <<signal, position, exchange, ticks, fits, realised>>

\* The timer of the interval window fires.  It does not look at the interval
\* again before it flushes: a timer that was started before the interval was
\* set fires once.
Flush(fit) ==
  /\ timer /\ timer' = live
  /\ Flushed(fit)
  /\ interval' = None
  /\ prices' = [now |-> <<>>, before |-> prices.now]
  /\ UNCHANGED <<clock, trades, live>>

\* Mutant: the late trade is not kept.
LateTradeLost(p, dt, fit) ==
  /\ trades < MaxTrades /\ Late(clock + dt)
  /\ trades' = trades + 1 /\ clock' = clock + dt
  /\ Flushed(fit)
  /\ interval' = None
  /\ prices' = [now |-> <<p>>, before |-> prices.now]
  /\ UNCHANGED <<live, timer>>

\* A trade that is too late for the window opens the next.
LateTrade(p, dt, fit) ==
  /\ trades < MaxTrades /\ Late(clock + dt)
  /\ trades' = trades + 1 /\ clock' = clock + dt
  /\ Flushed(fit)
  /\ interval' = Collected(None, p, clock')
  /\ prices' = [now |-> <<p>>, before |-> prices.now]
  /\ UNCHANGED <<live, timer>>

\* Mutant: the order that reverses a position is sent once.
StrategyHalf(t) ==
  /\ signal # None /\ Len(exchange.orders) < MaxOrders
  /\ position # None => position.type # t
  /\ LET price == signal.price
         closed == OpenOrder(exchange, Order(t, price))
     IN  /\ exchange' = closed
         /\ realised' = realised + (IF position = None THEN 0 ELSE Result(position, price))
         /\ position' = OpenPosition(t, price)
  /\ ticks' = <<>> /\ fits' = <<>>
  /\ UNCHANGED <<feed, signal, last, flushes>>

\* Benchmark.Add: an order at the price of the tick.  It opens a position, is
\* ignored with one of its type, and turns one of the other type: the closing
\* order is sent twice, and opens the new position with what it closed.
Strategy(t) ==
  /\ signal # None /\ Len(exchange.orders) < MaxOrders
  /\ position # None => position.type # t
  /\ LET price == signal.price
         closed == OpenOrder(exchange, Order(t, price))
     IN  /\ exchange' = IF position = None THEN closed ELSE OpenOrder(closed, Order(t, price))
         /\ realised' = realised + (IF position = None THEN 0 ELSE Result(position, price))
         /\ position' = OpenPosition(t, price)
  /\ ticks' = <<>> /\ fits' = <<>>
  /\ UNCHANGED <<feed, signal, last, flushes>>

Next ==
  \/ \E p \in Heard, dt \in Steps : Trade(p, dt)
  \/ \E fit \in Curves : Flush(fit)
  \/ \E p \in Prices, dt \in Steps, fit \in Curves : LateTrade(p, dt, fit)
  \/ \E t \in Types : Strategy(t)

Spec == Init /\ [][Next]_vars

-----------------------------------------------------------------------------
(* Properties.                                                             *)

\* The shape of the state.
TypeOK ==
  /\ clock \in Nat /\ trades \in 0 .. MaxTrades /\ flushes \in 0 .. MaxFlushes
  /\ live \in BOOLEAN /\ timer \in BOOLEAN
  /\ interval \in Collecting \cup {None}
  /\ {signal, last} \subseteq Signal \cup {None}
  /\ position \in Position \cup {None}
  /\ \A i \in DOMAIN exchange.orders : exchange.orders[i].ok
  /\ exchange.volume \in Int /\ exchange.value \in Int /\ exchange.price \in Nat
  /\ realised \in Int

\* The signal of an interval with trades has their lowest, highest and
\* average price: the result a position is closed for is computed from it.
SignalExact ==
  LET heard == ToSet(prices.before)
  IN  prices.before # <<>> =>
        /\ signal.min \in heard /\ \A p \in heard : signal.min <= p
        /\ signal.max \in heard /\ \A p \in heard : signal.max >= p
        /\ signal.size * signal.price = Total(prices.before)

\* The history of a position is that of the signals it saw: one point per
\* bucket of time with the results in it, in order, and of the closed buckets
\* the last Samples.  The fits are made over these points.
Indices == {t.time \div Duration : t \in ToSet(ticks)}
PointOf(index) ==
  LET seen == {k \in DOMAIN ticks : ticks[k].time \div Duration = index}
  IN  [index |-> index, count |-> Cardinality(seen),
       sum |-> Total([k \in DOMAIN ticks |-> IF k \in seen THEN ticks[k].pnl ELSE 0])]
PointsAreHistory ==
  position # None /\ ticks # <<>> =>
    LET points == Points(position.history)
        shown == {[index |-> b.index, count |-> Count(b.stats), sum |-> b.stats[1].sum] :
                    b \in ToSet(points)}
        newest == {i \in Indices : Cardinality({j \in Indices : j > i}) <= Samples}
    IN  /\ shown = {PointOf(i) : i \in newest}
        /\ \A i, j \in DOMAIN points : i < j => points[i].index < points[j].index

\* A shift is a change of direction between two fits that follow each other,
\* however many signals came in between.
ShiftIsSwitch ==
  position # None /\ fits # <<>> =>
    LET n == Len(fits)
    IN  \A i \in 1 .. 2 :
          position.trend.shift[i] # None <=>
            n > 1 /\ fits[n][i] * fits[n - 1][i] < 0 /\ Size(fits[n][i]) > Threshold

\* The exchange holds what the book says, also after a position was turned.
VolumeIsBook ==
  exchange.volume = IF position = None THEN 0 ELSE Side(position.type)

\* The report of the local exchange, which is made from its orders, is the
\* result of the closed positions and of the open one at the last price, and
\* agrees with the wallet that was kept order by order.
ReportBalances ==
  LET report == Gather(exchange)
  IN  /\ report.profit = realised + (IF position = None THEN 0 ELSE Result(position, exchange.price))
      /\ report.profit = exchange.value + exchange.volume * exchange.price

\* A position is only closed on a trend that was computed for the very signal
\* that closes it, from three buckets or more.
ClosesOnFreshTrend ==
  [][position # None /\ position' = None =>
       /\ Cardinality({t.time \div Duration : t \in ToSet(ticks')}) >= 3
       /\ Fitted(position, signal'.time)
       /\ signal'.time \div Duration \notin Indices]_vars

\* The closed buckets Get shows are the last Samples, whenever the ring wraps.
Kept == IF position = None THEN <<>> ELSE RingGet(position.history.ring)
History == INSTANCE LastN WITH N <- Samples, kept <- Kept
KeepsLastN == History!Spec
=============================================================================
