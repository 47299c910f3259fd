------------------------------ MODULE Pipeline ------------------------------
(***************************************************************************)
(* The live pipeline of cmd/free-coin: the kraken socket, the engine, the  *)
(* trade and the ml processor, and the goroutines behind each of these.    *)
(*                                                                         *)
(*   socket -> first -> trade -> ml -> output -> (recall) -> socket        *)
(*                        |       |                                        *)
(*                     windows  windows    one interval window per coin    *)
(*                        |       |                                        *)
(*                      relays  relays     bufferedProcessor, one per coin *)
(*                        |       |                                        *)
(*                      worker  worker -> vectors (the ml trainer)         *)
(*                                                                         *)
(* Every channel is unbuffered: a send and its receive are one action that *)
(* needs both sides.  A trade is a coin; a window and a signal are the     *)
(* number of trades in them.  What the trade worker does with a signal is  *)
(* module ExchangeTrader.                                                  *)
(***************************************************************************)
EXTENDS Integers, FiniteSets

CONSTANTS
  Buffered,   \* the processors of the engine, in the order trade, ml
  Coins,      \* coins of the configuration
  Keys,       \* config.Segments: [coin, duration, net]
  None,       \* nothing in hand; a nil window
  AllCoins,   \* model.AllCoins, as argument of a command
  UserStops,  \* the user may switch the training of a coin off
  MayStop,    \* the process may be interrupted
  MaxTrades   \* bound on the trades of the socket

Stages == {"first", "output"} \cup Buffered
After(s) == IF s = "first" /\ "trade" \in Buffered THEN "trade"
            ELSE IF s # "ml" /\ "ml" \in Buffered THEN "ml" ELSE "output"
Signal == [coin : Coins, trades : Nat]

ASSUME CoinsAssumption == AllCoins \notin Coins /\ None \notin Coins
ASSUME KeysAssumption ==
  /\ None \notin Keys
  /\ \A k \in Keys : k.coin \in Coins /\ k = [coin |-> k.coin, duration |-> k.duration, net |-> k.net]
ASSUME BoundsAssumption ==
  /\ Buffered \subseteq {"trade", "ml"}
  /\ MaxTrades \in Nat /\ None \notin Nat /\ None \notin Signal
  /\ UserStops \in BOOLEAN /\ MayStop \in BOOLEAN

VARIABLES
  source,   \* the socket: what it does, and the trade it handles
  at,       \* per stage, what its goroutine does
  hand,     \* per stage, the trade it handles
  window,   \* per processor and coin, iw.window and iw.count
  timer,    \* per processor and coin, the exec goroutine of the window
  message,  \* per processor and coin, the trades in the message being sent
  relay,    \* per processor and coin, the signal being sent
  echo,     \* per processor, the coins with a lastSignal
  worker,   \* per processor, the signal being processed
  todo,     \* keys col.push has not looked at yet
  full,     \* keys whose MultiBuffer is full
  trainer,  \* consumer of col.vectors: the keys it has not looked at yet
  enabled,  \* keys with Stats.Live set
  sent,     \* number of trades of the socket
  pushed,   \* ghost: per processor and coin, trades that went into a window
  handled,  \* ghost: per processor and coin, trades in the signals processed
  crashed   \* the process panicked

flow == <<source, at, hand, sent>>
windows == <<window, timer, message>>
relays == <<relay, echo>>
training == <<todo, full, trainer>>
ghosts == <<pushed, handled>>
vars == <<flow, windows, relays, worker, training, enabled, ghosts, crashed>>

PerCoin(x) == [b \in Buffered |-> [c \in Coins |-> x]]

\* Mutant: the training of the configured coins starts switched off.
InitOff ==
  /\ source = [at |-> "listen", coin |-> None] /\ sent = 0
  /\ at = [s \in Stages |-> "recv"] /\ hand = [s \in Stages |-> None]
  /\ window = PerCoin(None) /\ timer = PerCoin("none") /\ message = PerCoin(0)
  /\ relay = PerCoin(None) /\ echo = [b \in Buffered |-> {}]
  /\ worker = [b \in Buffered |-> None]
  /\ todo = {} /\ full = {} /\ trainer = [on |-> TRUE, left |-> {}]
  /\ enabled = {}
  /\ pushed = PerCoin(0) /\ handled = PerCoin(0)
  /\ crashed = FALSE

Init ==
  /\ source = [at |-> "listen", coin |-> None] /\ sent = 0
  /\ at = [s \in Stages |-> "recv"] /\ hand = [s \in Stages |-> None]
  /\ window = PerCoin(None) /\ timer = PerCoin("none") /\ message = PerCoin(0)
  /\ relay = PerCoin(None) /\ echo = [b \in Buffered |-> {}]
  /\ worker = [b \in Buffered |-> None]
  /\ todo = {} /\ full = {} /\ trainer = [on |-> TRUE, left |-> {}]
  /\ enabled = Keys
  /\ pushed = PerCoin(0) /\ handled = PerCoin(0)
  /\ crashed = FALSE

-----------------------------------------------------------------------------
(* The socket, the first stage and the output loop.                        *)

Trade(c) ==
  /\ source.at = "listen" /\ sent < MaxTrades
  /\ source' = [at |-> "offer", coin |-> c]
  /\ sent' = sent + 1
  /\ UNCHANGED <<at, hand, windows, relays, worker, training, enabled, ghosts, crashed>>

\* Mutant: the socket does not wait until the trade is processed.
OfferAhead ==
  /\ source.at = "offer" /\ at["first"] = "recv"
  /\ source' = [source EXCEPT !.at = "listen"]
  /\ at' = [at EXCEPT !["first"] = "count"]
  /\ hand' = [hand EXCEPT !["first"] = source.coin]
  /\ UNCHANGED <<sent, windows, relays, worker, training, enabled, ghosts, crashed>>

\* out <- signal, and then <-process
Offer ==
  /\ source.at = "offer" /\ at["first"] = "recv"
  /\ source' = [source EXCEPT !.at = "wait"]
  /\ at' = [at EXCEPT !["first"] = "count"]
  /\ hand' = [hand EXCEPT !["first"] = source.coin]
  /\ UNCHANGED <<sent, windows, relays, worker, training, enabled, ghosts, crashed>>

\* first and the output loop write the count and lost maps of the engine.
Count(s) ==
  /\ at[s] = "count"
  /\ at' = [at EXCEPT ![s] = "send"]
  /\ UNCHANGED <<source, hand, sent, windows, relays, worker, training, enabled, ghosts, crashed>>

Pass(s) ==
  /\ at[s] = "send" /\ at[After(s)] = "recv"
  /\ at' = [at EXCEPT ![s] = "recv",
                      ![After(s)] = IF After(s) = "output" THEN "count" ELSE "push"]
  /\ hand' = [hand EXCEPT ![s] = None, ![After(s)] = hand[s]]
  /\ UNCHANGED <<source, sent, windows, relays, worker, training, enabled, ghosts, crashed>>

Recall ==
  /\ at["output"] = "send" /\ source.at = "wait"
  /\ source' = [at |-> "listen", coin |-> None]
  /\ at' = [at EXCEPT !["output"] = "recv"]
  /\ hand' = [hand EXCEPT !["output"] = None]
  /\ UNCHANGED <<sent, windows, relays, worker, training, enabled, ghosts, crashed>>

-----------------------------------------------------------------------------
(* The windows.                                                            *)

Locked(b, c) == timer[b][c] \in {"clear", "send"}

\* SignalBuffer.Push makes the window of a new coin, its timer and its relay;
\* IntervalWindow.Push takes the lock to make sure there is a bucket ...
PushEnter(b) ==
  LET c == hand[b]
  IN  /\ at[b] = "push" /\ ~Locked(b, c)
      /\ timer' = IF timer[b][c] = "none" THEN [timer EXCEPT ![b][c] = "sleep"] ELSE timer
      /\ window' = IF window[b][c] = None THEN [window EXCEPT ![b][c] = 0] ELSE window
      /\ at' = [at EXCEPT ![b] = "add"]
      /\ UNCHANGED <<source, hand, sent, message, relays, worker, training, enabled, ghosts, crashed>>

\* ... and uses it after the lock is released: a flush in between leaves nil.
PushAdd(b) ==
  LET c == hand[b]
  IN  /\ at[b] = "add"
      /\ IF window[b][c] = None
         THEN crashed' = TRUE /\ UNCHANGED <<at, window, pushed>>
         ELSE /\ window' = [window EXCEPT ![b][c] = @ + 1]
              /\ pushed' = [pushed EXCEPT ![b][c] = @ + 1]
              /\ at' = [at EXCEPT ![b] = "send"]
              /\ UNCHANGED crashed
      /\ UNCHANGED <<source, hand, sent, timer, message, relays, worker, training, enabled, handled>>

\* Mutant: the trade that opened the bucket is not counted.
FlushOffByOne(b, c) ==
  /\ timer[b][c] = "sleep" /\ at[b] # "closed"
  /\ timer' = [timer EXCEPT ![b][c] = "clear"]
  /\ message' = [message EXCEPT ![b][c] = IF window[b][c] = None THEN 0 ELSE window[b][c] - 1]
  /\ UNCHANGED <<flow, window, relays, worker, training, enabled, ghosts, crashed>>

\* The interval is over: Flush takes the lock and reads the bucket.  A timer
\* that wakes after Close sees the flag and ends, or does not and sends on the
\* closed channel.
Flush(b, c) ==
  /\ timer[b][c] = "sleep"
  /\ IF at[b] = "closed"
     THEN /\ \/ timer' = [timer EXCEPT ![b][c] = "ended"] /\ UNCHANGED crashed
             \/ crashed' = TRUE /\ UNCHANGED timer
          /\ UNCHANGED message
     ELSE /\ timer' = [timer EXCEPT ![b][c] = IF window[b][c] \in {None, 0} THEN "send" ELSE "clear"]
          /\ message' = [message EXCEPT ![b][c] = IF window[b][c] = None THEN 0 ELSE window[b][c]]
          /\ UNCHANGED crashed
  /\ UNCHANGED <<flow, window, relays, worker, training, enabled, ghosts>>

\* Mutant: the bucket that was read stays the current one.
FlushKeep(b, c) ==
  /\ timer[b][c] = "clear"
  /\ timer' = [timer EXCEPT ![b][c] = "send"]
  /\ UNCHANGED <<flow, window, message, relays, worker, training, enabled, ghosts, crashed>>

\* What a Push added to the bucket meanwhile is dropped with it.
FlushClear(b, c) ==
  /\ timer[b][c] = "clear"
  /\ window' = [window EXCEPT ![b][c] = None]
  /\ timer' = [timer EXCEPT ![b][c] = "send"]
  /\ UNCHANGED <<flow, message, relays, worker, training, enabled, ghosts, crashed>>

\* bufferedProcessor takes the message, which ends the flush.  An empty one
\* repeats the last signal, flattened.
RelayTake(b, c) ==
  /\ timer[b][c] = "send"
  /\ IF at[b] = "closed"
     THEN crashed' = TRUE /\ UNCHANGED <<timer, message, relay, echo>>
     ELSE /\ relay[b][c] = None
          /\ timer' = [timer EXCEPT ![b][c] = "sleep"]
          /\ message' = [message EXCEPT ![b][c] = 0]
          /\ relay' = IF message[b][c] > 0 \/ c \in echo[b]
                      THEN [relay EXCEPT ![b][c] = [coin |-> c, trades |-> message[b][c]]]
                      ELSE relay
          /\ echo' = IF message[b][c] > 0 THEN [echo EXCEPT ![b] = @ \cup {c}] ELSE echo
          /\ UNCHANGED crashed
  /\ UNCHANGED <<flow, window, worker, training, enabled, ghosts>>

-----------------------------------------------------------------------------
(* The workers: the function p of the buffered processor.                  *)

WorkerTake(b, c) ==
  /\ relay[b][c] # None /\ worker[b] = None
  /\ worker' = [worker EXCEPT ![b] = relay[b][c]]
  /\ relay' = [relay EXCEPT ![b][c] = None]
  /\ todo' = IF b = "ml" THEN {k \in Keys : k.coin = c} ELSE todo
  /\ UNCHANGED <<flow, windows, echo, full, trainer, enabled, ghosts, crashed>>

\* The trade worker is done when the wallet is; the ml worker when col.push
\* looked at every key.
WorkerDone(b) ==
  /\ worker[b] # None
  /\ b = "ml" => todo = {}
  /\ handled' = [handled EXCEPT ![b][worker[b].coin] = @ + worker[b].trades]
  /\ worker' = [worker EXCEPT ![b] = None]
  /\ UNCHANGED <<flow, windows, relays, training, enabled, pushed, crashed>>

\* col.push: a key whose buffer was full gives a vector to the trainer.
Siblings(k) == {j \in Keys : j.coin = k.coin /\ j.duration = k.duration}
Collect(k) ==
  /\ k \in todo
  /\ todo' = todo \ {k}
  /\ \/ /\ k \notin full
        /\ full' \in {full, full \cup {k}}
        /\ UNCHANGED trainer
     \/ /\ k \in full /\ trainer.on /\ trainer.left = {}
        /\ trainer' = [trainer EXCEPT !.left = Siblings(k)]
        /\ UNCHANGED full
  /\ UNCHANGED <<flow, windows, relays, worker, enabled, ghosts, crashed>>

\* One key of the vector is trained; the goroutine returns at a key that is
\* switched off.
Train(k) ==
  /\ k \in trainer.left
  /\ trainer' = IF k \in enabled THEN [trainer EXCEPT !.left = @ \ {k}]
                                 ELSE [on |-> FALSE, left |-> {}]
  /\ UNCHANGED <<flow, windows, relays, worker, todo, full, enabled, ghosts, crashed>>

\* "?ml start" and "?ml stop"
EnableML(c, on) ==
  /\ on \/ UserStops
  /\ LET matched == {k \in Keys : c \in {AllCoins, k.coin}}
     IN  enabled' = IF on THEN enabled \cup matched ELSE enabled \ matched
  /\ UNCHANGED <<flow, windows, relays, worker, training, ghosts, crashed>>

-----------------------------------------------------------------------------
(* The end.                                                                *)

Interrupt ==
  /\ MayStop /\ source.at = "listen"
  /\ source' = [source EXCEPT !.at = "closed"]
  /\ UNCHANGED <<at, hand, sent, windows, relays, worker, training, enabled, ghosts, crashed>>

\* The deferred reconnect of the socket runs after an interrupt too; whatever
\* it does with the closed channel, a trade or a second interrupt, panics.
Reconnect ==
  /\ source.at = "closed"
  /\ crashed' = TRUE
  /\ UNCHANGED <<flow, windows, relays, worker, training, enabled, ghosts>>

\* Mutant: the first stage ends without closing its output.
InputClosedFirst(s) == s = "first" /\ source.at = "closed"

InputClosed(s) ==
  IF s = "first" THEN source.at = "closed"
  ELSE \E r \in Stages \ {"output"} : After(r) = s /\ at[r] = "closed"

\* The input is closed: a buffered stage closes its windows, a flush that is
\* sending panics, and every stage but the last one closes its output.
CloseStage(s) ==
  /\ at[s] = "recv" /\ InputClosed(s)
  /\ at' = [at EXCEPT ![s] = "closed"]
  /\ crashed' = (s \in Buffered /\ \E c \in Coins : timer[s][c] = "send")
  /\ UNCHANGED <<source, hand, sent, windows, relays, worker, training, enabled, ghosts>>

-----------------------------------------------------------------------------
Stage == \/ Offer \/ Recall
         \/ \E s \in {"first", "output"} : Count(s)
         \/ \E s \in Stages \ {"output"} : Pass(s)
         \/ \E b \in Buffered : PushEnter(b) \/ PushAdd(b)
         \/ \E s \in Stages : CloseStage(s)
Window(b, c) == Flush(b, c) \/ FlushClear(b, c) \/ RelayTake(b, c)

Next ==
  /\ ~crashed /\ at["output"] # "closed"
  /\ \/ \E c \in Coins : Trade(c)
     \/ Stage
     \/ \E b \in Buffered, c \in Coins : Window(b, c) \/ WorkerTake(b, c)
     \/ \E b \in Buffered : WorkerDone(b)
     \/ \E k \in Keys : Collect(k) \/ Train(k)
     \/ \E c \in Coins \cup {AllCoins}, on \in BOOLEAN : EnableML(c, on)
     \/ Interrupt
     \/ Reconnect

Spec == Init /\ [][Next]_vars

-----------------------------------------------------------------------------
(* Properties.                                                             *)

\* The states of the goroutines and of what they pass on.
TypeOK ==
  /\ source \in [at : {"listen", "offer", "wait", "closed"}, coin : Coins \cup {None}]
  /\ at \in [Stages -> {"recv", "count", "push", "add", "send", "closed"}]
  /\ hand \in [Stages -> Coins \cup {None}]
  /\ window \in [Buffered -> [Coins -> Nat \cup {None}]]
  /\ timer \in [Buffered -> [Coins -> {"none", "sleep", "clear", "send", "ended"}]]
  /\ message \in [Buffered -> [Coins -> Nat]]
  /\ relay \in [Buffered -> [Coins -> Signal \cup {None}]]
  /\ echo \in [Buffered -> SUBSET Coins]
  /\ worker \in [Buffered -> Signal \cup {None}]
  /\ todo \subseteq Keys /\ full \subseteq Keys /\ enabled \subseteq Keys
  /\ trainer \in [on : BOOLEAN, left : SUBSET Keys]
  /\ sent \in Nat /\ crashed \in BOOLEAN
  /\ pushed \in [Buffered -> [Coins -> Nat]] /\ handled \in [Buffered -> [Coins -> Nat]]

\* The first stage and the output loop never use the unguarded maps of the
\* engine at the same time: the recall keeps one trade in the pipeline.
MapsExclusive == ~(at["first"] = "count" /\ at["output"] = "count")

\* No processor sees a trade in two signals, whatever the races between Push,
\* Flush and the repeated signals of quiet intervals.
AtMostOnce == \A b \in Buffered, c \in Coins : handled[b][c] <= pushed[b][c]

\* "This will signal to ignore for processing": an interval without a trade
\* is not processed.
EmptyIntervalsIgnored == \A b \in Buffered : worker[b] # None => worker[b].trades > 0

\* The pipeline is not broken: a trade that entered it is acknowledged.
TradeAcknowledged == source.at = "wait" ~> source.at # "wait" \/ crashed

\* After an interrupt the engine's Run returns.
InterruptEnds == source.at = "closed" ~> at["output"] = "closed" \/ crashed

\* Every goroutine that can go on does, timers fire, and the wallet and the
\* training answer.  A mutex and a channel serve those that wait in order, so
\* a push gets the lock and a relay its turn.
FairSpec ==
  /\ Spec
  /\ WF_vars(~crashed /\ Stage)
  /\ \A b \in Buffered : SF_vars(~crashed /\ PushEnter(b)) /\ WF_vars(~crashed /\ WorkerDone(b))
  /\ \A b \in Buffered, c \in Coins :
       WF_vars(~crashed /\ Window(b, c)) /\ SF_vars(~crashed /\ WorkerTake(b, c))
  /\ \A k \in Keys : WF_vars(~crashed /\ Collect(k)) /\ WF_vars(~crashed /\ Train(k))

=============================================================================
