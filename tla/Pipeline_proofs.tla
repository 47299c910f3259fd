-------------------------- MODULE Pipeline_proofs ---------------------------
(***************************************************************************)
(* Proofs about Pipeline, for every choice of processors, coins and keys.  *)
(***************************************************************************)
EXTENDS Pipeline, TLAPS

USE CoinsAssumption, KeysAssumption, BoundsAssumption

Rest == {"recv", "closed"}

\* A stage that does something has a trade in hand.
InHand == \A s \in Stages : at[s] \notin Rest => hand[s] \in Coins

\* Then the source waits for the recall, and no other stage does anything.
OneTrade ==
  \A s \in Stages : at[s] \notin Rest =>
    source.at = "wait" /\ \A r \in Stages \ {s} : at[r] \in Rest

\* A trade that is offered is one.
Offered == source.at = "offer" => source.coin \in Coins

FlowInv == InHand /\ OneTrade /\ Offered

LEMMA StageFacts ==
  /\ "first" \in Stages /\ "output" \in Stages
  /\ Buffered \subseteq Stages \ {"first", "output"}
  /\ \A s \in Stages \ {"output"} : After(s) \in Stages /\ After(s) # s /\ After(s) # "first"
BY DEF Stages, After

\* One entry of a table per processor and coin is set.
LEMMA SetEntry ==
  ASSUME NEW S, NEW f \in [Buffered -> [Coins -> S]], NEW b \in Buffered, NEW c \in Coins,
         NEW v \in S
  PROVE  LET g == [f EXCEPT ![b][c] = v]
         IN  /\ g \in [Buffered -> [Coins -> S]]
             /\ g[b][c] = v
             /\ \A d \in Buffered, e \in Coins : d # b \/ e # c => g[d][e] = f[d][e]
<1> DEFINE row == [f[b] EXCEPT ![c] = v]
           g == [f EXCEPT ![b] = row]
<1>1. row \in [Coins -> S] /\ row[c] = v /\ \A e \in Coins \ {c} : row[e] = f[b][e]
  OBVIOUS
<1>2. g = [f EXCEPT ![b][c] = v]
  OBVIOUS
<1> HIDE DEF row
<1>3. g \in [Buffered -> [Coins -> S]] /\ g[b] = row /\ \A d \in Buffered \ {b} : g[d] = f[d]
  BY <1>1
<1> QED BY <1>1, <1>2, <1>3

-----------------------------------------------------------------------------
(* The flow of the trade.                                                  *)

LEMMA FlowInit == Init => TypeOK /\ FlowInv
<1>1. ASSUME Init PROVE TypeOK
  BY <1>1, StageFacts DEF Init, TypeOK, PerCoin, Signal
<1>2. ASSUME Init PROVE FlowInv
  BY <1>2 DEF Init, FlowInv, InHand, OneTrade, Offered, Rest
<1> QED BY <1>1, <1>2

\* A busy stage goes on with its trade.
LEMMA StageGoesOn ==
  ASSUME TypeOK, FlowInv, NEW s \in Stages, at[s] \notin Rest, NEW doing,
         at' = [at EXCEPT ![s] = doing], UNCHANGED <<source, hand>>
  PROVE  FlowInv'
<1>1. \A r \in Stages \ {s} : at'[r] = at[r]
  BY DEF TypeOK
<1>2. hand[s] \in Coins /\ source.at = "wait" /\ \A r \in Stages \ {s} : at[r] \in Rest
  BY DEF FlowInv, InHand, OneTrade
<1> QED BY <1>1, <1>2 DEF FlowInv, InHand, OneTrade, Offered

\* Steps of the windows, the workers and the training leave the flow alone.
LEMMA FlowUnchanged ==
  ASSUME FlowInv, UNCHANGED flow
  PROVE  FlowInv'
BY DEF FlowInv, InHand, OneTrade, Offered, flow

LEMMA FlowStep ==
  ASSUME TypeOK, FlowInv, [Next]_vars
  PROVE  FlowInv'
<1>1. ASSUME NEW c \in Coins, Trade(c) PROVE FlowInv'
  BY <1>1 DEF TypeOK, FlowInv, InHand, OneTrade, Offered, Trade, Rest
<1>2. CASE Offer
  <2>1. source'.at = "wait" /\ at' = [at EXCEPT !["first"] = "count"]
        /\ hand' = [hand EXCEPT !["first"] = source.coin]
    BY <1>2 DEF Offer, TypeOK
  <2>2. source.at = "offer" /\ source.coin \in Coins
    BY <1>2 DEF Offer, FlowInv, Offered
  <2>3. \A s \in Stages : at[s] \in Rest
    BY <2>2 DEF FlowInv, OneTrade
  <2> QED BY <2>1, <2>2, <2>3, StageFacts DEF TypeOK, FlowInv, InHand, OneTrade, Offered, Rest
<1>3. ASSUME NEW s \in {"first", "output"}, Count(s) PROVE FlowInv'
  <2>1. at[s] \notin Rest /\ UNCHANGED <<source, hand>> /\ at' = [at EXCEPT ![s] = "send"]
    BY <1>3 DEF Count, Rest
  <2> QED BY <2>1, StageFacts, StageGoesOn
<1>4. ASSUME NEW s \in Stages \ {"output"}, Pass(s) PROVE FlowInv'
  <2> DEFINE t == After(s)
             doing == IF t = "output" THEN "count" ELSE "push"
  <2>1. t \in Stages /\ t # s
    BY StageFacts
  <2>2. /\ at[s] = "send" /\ at[t] = "recv" /\ UNCHANGED source
        /\ at' = [at EXCEPT ![s] = "recv", ![t] = doing]
        /\ hand' = [hand EXCEPT ![s] = None, ![t] = hand[s]]
    BY <1>4 DEF Pass
  <2>3. /\ hand[s] \in Coins /\ source.at = "wait"
        /\ \A r \in Stages \ {s} : at[r] \in Rest
    BY <2>2 DEF FlowInv, InHand, OneTrade, Rest
  <2> HIDE DEF t
  <2>4. /\ at'[s] = "recv" /\ at'[t] = doing /\ hand'[t] \in Coins
        /\ \A r \in Stages \ {s, t} : at'[r] = at[r]
    BY <2>1, <2>2, <2>3 DEF TypeOK
  <2> HIDE DEF doing
  <2>6. \A r \in Stages \ {t} : at'[r] \in Rest
    BY <2>3, <2>4 DEF Rest
  <2>7. InHand'
    BY <2>4, <2>6 DEF InHand
  <2>8. OneTrade'
    <3>1. source'.at = "wait"
      BY <2>2, <2>3
    <3> QED BY <3>1, <2>6 DEF OneTrade
  <2> QED BY <2>2, <2>3, <2>7, <2>8 DEF FlowInv, Offered
<1>5. CASE Recall
  <2>1. /\ at["output"] = "send" /\ source' = [at |-> "listen", coin |-> None]
        /\ at' = [at EXCEPT !["output"] = "recv"] /\ hand' = [hand EXCEPT !["output"] = None]
    BY <1>5 DEF Recall
  <2>2. \A s \in Stages \ {"output"} : at[s] \in Rest
    BY <2>1, StageFacts DEF FlowInv, OneTrade, Rest
  <2>3. \A s \in Stages : at'[s] \in Rest
    BY <2>1, <2>2 DEF TypeOK, Rest
  <2> QED BY <2>1, <2>3 DEF FlowInv, InHand, OneTrade, Offered
<1>6. ASSUME NEW b \in Buffered, PushEnter(b) PROVE FlowInv'
  <2>1. at[b] \notin Rest /\ at' = [at EXCEPT ![b] = "add"] /\ UNCHANGED <<source, hand>>
    BY <1>6 DEF PushEnter, Rest
  <2> QED BY <2>1, StageFacts, StageGoesOn
<1>7. ASSUME NEW b \in Buffered, PushAdd(b) PROVE FlowInv'
  <2>1. at[b] \notin Rest /\ UNCHANGED <<source, hand>>
    BY <1>7 DEF PushAdd, Rest
  <2>2. CASE at' = [at EXCEPT ![b] = "send"]
    BY <2>1, <2>2, StageFacts, StageGoesOn
  <2>3. CASE at' = at
    BY <2>1, <2>3 DEF FlowInv, InHand, OneTrade, Offered
  <2> QED BY <1>7, <2>2, <2>3 DEF PushAdd
<1>8. ASSUME NEW s \in Stages, CloseStage(s) PROVE FlowInv'
  <2>1. at[s] = "recv" /\ UNCHANGED <<source, hand>> /\ at' = [at EXCEPT ![s] = "closed"]
    BY <1>8 DEF CloseStage
  <2> QED BY <2>1 DEF TypeOK, FlowInv, InHand, OneTrade, Offered, Rest
<1>9. CASE Interrupt
  <2>1. source.at = "listen" /\ UNCHANGED <<at, hand>> /\ source'.at = "closed"
    BY <1>9 DEF Interrupt, TypeOK
  <2> QED BY <2>1 DEF FlowInv, InHand, OneTrade, Offered
<1>10. ASSUME NEW b \in Buffered, NEW c \in Coins, Window(b, c) \/ WorkerTake(b, c)
       PROVE  FlowInv'
  BY <1>10, FlowUnchanged DEF Window, Flush, FlushClear, RelayTake, WorkerTake
<1>11. ASSUME NEW b \in Buffered, WorkerDone(b) PROVE FlowInv'
  BY <1>11, FlowUnchanged DEF WorkerDone
<1>12. ASSUME NEW k \in Keys, Collect(k) \/ Train(k) PROVE FlowInv'
  BY <1>12, FlowUnchanged DEF Collect, Train
<1>13. ASSUME NEW c \in Coins \cup {AllCoins}, NEW on \in BOOLEAN, EnableML(c, on) PROVE FlowInv'
  BY <1>13, FlowUnchanged DEF EnableML
<1>14. CASE Reconnect
  BY <1>14, FlowUnchanged DEF Reconnect
<1>15. CASE UNCHANGED vars
  BY <1>15, FlowUnchanged DEF vars
<1> QED BY <1>1, <1>2, <1>3, <1>4, <1>5, <1>6, <1>7, <1>8, <1>9, <1>10, <1>11, <1>12,
           <1>13, <1>14, <1>15 DEF Next, Stage

-----------------------------------------------------------------------------
(* Type correctness.                                                       *)

LEMMA TypeStep ==
  ASSUME TypeOK, FlowInv, [Next]_vars
  PROVE  TypeOK'
<1>1. ASSUME NEW c \in Coins, Trade(c) PROVE TypeOK'
  BY <1>1 DEF TypeOK, Trade, windows, relays, training, ghosts
<1>2. CASE Offer
  <2>1. source.coin \in Coins
    BY <1>2 DEF Offer, FlowInv, Offered
  <2> QED BY <1>2, <2>1 DEF TypeOK, Offer, windows, relays, training, ghosts
<1>3. ASSUME NEW s \in {"first", "output"}, Count(s) PROVE TypeOK'
  BY <1>3 DEF TypeOK, Count, windows, relays, training, ghosts
<1>4. ASSUME NEW s \in Stages \ {"output"}, Pass(s) PROVE TypeOK'
  BY <1>4, StageFacts DEF TypeOK, Pass, windows, relays, training, ghosts
<1>5. CASE Recall
  BY <1>5 DEF TypeOK, Recall, windows, relays, training, ghosts
<1>6. ASSUME NEW b \in Buffered, PushEnter(b) PROVE TypeOK'
  <2>1. hand[b] \in Coins
    BY <1>6, StageFacts DEF PushEnter, FlowInv, InHand, Rest
  <2>2. window' \in [Buffered -> [Coins -> Nat \cup {None}]]
    <3>1. window' = window \/ window' = [window EXCEPT ![b][hand[b]] = 0]
      BY <1>6 DEF PushEnter
    <3>2. CASE window' = window
      BY <3>2 DEF TypeOK
    <3>3. CASE window' = [window EXCEPT ![b][hand[b]] = 0]
      BY <3>3, <2>1, SetEntry DEF TypeOK
    <3> QED BY <3>1, <3>2, <3>3
  <2>3. timer' \in [Buffered -> [Coins -> {"none", "sleep", "clear", "send", "ended"}]]
    <3>1. timer' = timer \/ timer' = [timer EXCEPT ![b][hand[b]] = "sleep"]
      BY <1>6 DEF PushEnter
    <3>2. CASE timer' = timer
      BY <3>2 DEF TypeOK
    <3>3. CASE timer' = [timer EXCEPT ![b][hand[b]] = "sleep"]
      BY <3>3, <2>1, SetEntry DEF TypeOK
    <3> QED BY <3>1, <3>2, <3>3
  <2> QED BY <1>6, <2>2, <2>3 DEF TypeOK, PushEnter, relays, training, ghosts
<1>7. ASSUME NEW b \in Buffered, PushAdd(b) PROVE TypeOK'
  <2>1. hand[b] \in Coins
    BY <1>7, StageFacts DEF PushAdd, FlowInv, InHand, Rest
  <2>2. CASE window[b][hand[b]] = None
    BY <1>7, <2>2 DEF TypeOK, PushAdd, relays, training
  <2>3. CASE window[b][hand[b]] # None
    <3>1. window[b][hand[b]] \in Nat
      BY <2>1, <2>3 DEF TypeOK
    <3>2. window' \in [Buffered -> [Coins -> Nat \cup {None}]]
      <4>1. window' = [window EXCEPT ![b][hand[b]] = window[b][hand[b]] + 1]
        BY <1>7, <2>3 DEF PushAdd
      <4>2. window[b][hand[b]] + 1 \in Nat \cup {None}
        BY <3>1
      <4> QED BY <2>1, <4>1, <4>2, SetEntry DEF TypeOK
    <3>3. pushed' \in [Buffered -> [Coins -> Nat]]
      <4>1. pushed' = [pushed EXCEPT ![b][hand[b]] = pushed[b][hand[b]] + 1]
        BY <1>7, <2>3 DEF PushAdd
      <4>2. pushed[b][hand[b]] + 1 \in Nat
        BY <2>1 DEF TypeOK
      <4> QED BY <2>1, <4>1, <4>2, SetEntry DEF TypeOK
    <3> QED BY <1>7, <2>3, <3>2, <3>3 DEF TypeOK, PushAdd, relays, training
  <2> QED BY <2>2, <2>3
<1>8. ASSUME NEW s \in Stages, CloseStage(s) PROVE TypeOK'
  BY <1>8 DEF TypeOK, CloseStage, windows, relays, training, ghosts
<1>9. CASE Interrupt
  BY <1>9 DEF TypeOK, Interrupt, windows, relays, training, ghosts
<1>10. ASSUME NEW b \in Buffered, NEW c \in Coins, Flush(b, c) PROVE TypeOK'
  <2>1. message[b][c] \in Nat /\ window[b][c] \in Nat \cup {None}
    BY DEF TypeOK
  <2>2. timer' \in [Buffered -> [Coins -> {"none", "sleep", "clear", "send", "ended"}]]
    <3>1. PICK t \in {"ended", "send", "clear"} :
            timer' = timer \/ timer' = [timer EXCEPT ![b][c] = t]
      BY <1>10 DEF Flush
    <3>2. CASE timer' = timer
      BY <3>2 DEF TypeOK
    <3>3. CASE timer' = [timer EXCEPT ![b][c] = t]
      BY <3>3, SetEntry DEF TypeOK
    <3> QED BY <3>1, <3>2, <3>3
  <2>3. message' \in [Buffered -> [Coins -> Nat]]
    <3>1. PICK n \in Nat : message' = message \/ message' = [message EXCEPT ![b][c] = n]
      BY <1>10, <2>1 DEF Flush
    <3>2. CASE message' = message
      BY <3>2 DEF TypeOK
    <3>3. CASE message' = [message EXCEPT ![b][c] = n]
      BY <3>3, SetEntry DEF TypeOK
    <3> QED BY <3>1, <3>2, <3>3
  <2> QED BY <1>10, <2>2, <2>3 DEF TypeOK, Flush, flow, relays, training, ghosts
<1>11. ASSUME NEW b \in Buffered, NEW c \in Coins, FlushClear(b, c) PROVE TypeOK'
  <2>1. window' = [window EXCEPT ![b][c] = None] /\ timer' = [timer EXCEPT ![b][c] = "send"]
    BY <1>11 DEF FlushClear
  <2>2. window' \in [Buffered -> [Coins -> Nat \cup {None}]]
    BY <2>1, SetEntry DEF TypeOK
  <2>3. timer' \in [Buffered -> [Coins -> {"none", "sleep", "clear", "send", "ended"}]]
    BY <2>1, SetEntry DEF TypeOK
  <2> QED BY <1>11, <2>2, <2>3 DEF TypeOK, FlushClear, flow, relays, training, ghosts
<1>12. ASSUME NEW b \in Buffered, NEW c \in Coins, RelayTake(b, c) PROVE TypeOK'
  <2>1. [coin |-> c, trades |-> message[b][c]] \in Signal
    BY DEF TypeOK, Signal
  <2>2. relay' \in [Buffered -> [Coins -> Signal \cup {None}]]
    <3>1. relay' = relay \/ relay' = [relay EXCEPT ![b][c] = [coin |-> c, trades |-> message[b][c]]]
      BY <1>12 DEF RelayTake
    <3>2. CASE relay' = relay
      BY <3>2 DEF TypeOK
    <3>3. CASE relay' = [relay EXCEPT ![b][c] = [coin |-> c, trades |-> message[b][c]]]
      BY <3>3, <2>1, SetEntry DEF TypeOK
    <3> QED BY <3>1, <3>2, <3>3
  <2>3. echo' \in [Buffered -> SUBSET Coins]
    <3>1. echo' = echo \/ echo' = [echo EXCEPT ![b] = echo[b] \cup {c}]
      BY <1>12 DEF RelayTake
    <3>2. CASE echo' = echo
      BY <3>2 DEF TypeOK
    <3>3. CASE echo' = [echo EXCEPT ![b] = echo[b] \cup {c}]
      BY <3>3 DEF TypeOK
    <3> QED BY <3>1, <3>2, <3>3
  <2>4. message' \in [Buffered -> [Coins -> Nat]]
    <3>1. message' = message \/ message' = [message EXCEPT ![b][c] = 0]
      BY <1>12 DEF RelayTake
    <3>2. CASE message' = message
      BY <3>2 DEF TypeOK
    <3>3. CASE message' = [message EXCEPT ![b][c] = 0]
      BY <3>3, SetEntry DEF TypeOK
    <3> QED BY <3>1, <3>2, <3>3
  <2>5. timer' \in [Buffered -> [Coins -> {"none", "sleep", "clear", "send", "ended"}]]
    <3>1. timer' = timer \/ timer' = [timer EXCEPT ![b][c] = "sleep"]
      BY <1>12 DEF RelayTake
    <3>2. CASE timer' = timer
      BY <3>2 DEF TypeOK
    <3>3. CASE timer' = [timer EXCEPT ![b][c] = "sleep"]
      BY <3>3, SetEntry DEF TypeOK
    <3> QED BY <3>1, <3>2, <3>3
  <2>6. crashed' \in BOOLEAN
    BY <1>12 DEF TypeOK, RelayTake
  <2> QED BY <1>12, <2>2, <2>3, <2>4, <2>5, <2>6 DEF TypeOK, RelayTake, flow, training, ghosts
<1>13. ASSUME NEW b \in Buffered, NEW c \in Coins, WorkerTake(b, c) PROVE TypeOK'
  <2>1. relay[b][c] \in Signal
    BY <1>13 DEF TypeOK, WorkerTake
  <2>2. relay' = [relay EXCEPT ![b][c] = None]
    BY <1>13 DEF WorkerTake
  <2>3. relay' \in [Buffered -> [Coins -> Signal \cup {None}]]
    BY <2>2, SetEntry DEF TypeOK
  <2> QED BY <1>13, <2>1, <2>3 DEF TypeOK, WorkerTake, flow, windows, ghosts
<1>14. ASSUME NEW b \in Buffered, WorkerDone(b) PROVE TypeOK'
  <2>1. worker[b] \in Signal
    BY <1>14 DEF TypeOK, WorkerDone
  <2>2. worker[b].coin \in Coins /\ worker[b].trades \in Nat
    BY <2>1 DEF Signal
  <2>3. handled' \in [Buffered -> [Coins -> Nat]]
    <3> DEFINE n == handled[b][worker[b].coin] + worker[b].trades
    <3>1. handled' = [handled EXCEPT ![b][worker[b].coin] = n]
      BY <1>14 DEF WorkerDone
    <3>2. n \in Nat
      BY <2>2 DEF TypeOK
    <3> HIDE DEF n
    <3> QED BY <2>2, <3>1, <3>2, SetEntry DEF TypeOK
  <2> QED BY <1>14, <2>3 DEF TypeOK, WorkerDone, flow, windows, relays, training
<1>15. ASSUME NEW k \in Keys, Collect(k) PROVE TypeOK'
  <2>1. Siblings(k) \subseteq Keys
    BY DEF Siblings
  <2>2. trainer' = trainer \/ trainer' = [trainer EXCEPT !.left = Siblings(k)]
    BY <1>15 DEF Collect
  <2>3. trainer' \in [on : BOOLEAN, left : SUBSET Keys]
    BY <2>1, <2>2 DEF TypeOK
  <2>4. todo' \subseteq Keys /\ full' \subseteq Keys
    BY <1>15 DEF TypeOK, Collect
  <2> QED BY <1>15, <2>3, <2>4 DEF TypeOK, Collect, flow, windows, relays, ghosts
<1>16. ASSUME NEW k \in Keys, Train(k) PROVE TypeOK'
  BY <1>16 DEF TypeOK, Train, flow, windows, relays, ghosts
<1>17. ASSUME NEW c \in Coins \cup {AllCoins}, NEW on \in BOOLEAN, EnableML(c, on) PROVE TypeOK'
  BY <1>17 DEF TypeOK, EnableML, flow, windows, relays, training, ghosts
<1>18. CASE Reconnect
  BY <1>18 DEF TypeOK, Reconnect, flow, windows, relays, training, ghosts
<1>19. CASE UNCHANGED vars
  BY <1>19 DEF TypeOK, vars, flow, windows, relays, training, ghosts
<1> QED BY <1>1, <1>2, <1>3, <1>4, <1>5, <1>6, <1>7, <1>8, <1>9, <1>10, <1>11, <1>12, <1>13,
           <1>14, <1>15, <1>16, <1>17, <1>18, <1>19 DEF Next, Stage, Window

\* The pipeline is always in a state of its type, and its stages hand one
\* trade on at a time.
THEOREM FlowCorrect == Spec => [](TypeOK /\ FlowInv)
<1>1. TypeOK /\ FlowInv /\ [Next]_vars => (TypeOK /\ FlowInv)'
  BY TypeStep, FlowStep
<1> QED BY <1>1, FlowInit, PTL DEF Spec

\* The maps of the engine are never used by both goroutines at a time, for
\* any processors and any number of coins and trades: the source waits for
\* the recall before it offers the next trade.
THEOREM MapsAreExclusive == Spec => []MapsExclusive
<1>1. FlowInv => MapsExclusive
  BY StageFacts DEF FlowInv, OneTrade, Rest, MapsExclusive
<1> QED BY <1>1, FlowCorrect, PTL

-----------------------------------------------------------------------------
(* The trades of a signal are processed once.                              *)

\* Where the trades of a window that were not processed can be: the bucket,
\* which a flush that has read it still holds, and the message; the signal of
\* the relay; the signal of the worker.
Inside(b, c) ==
  IF timer[b][c] = "clear" THEN window[b][c]
  ELSE (IF window[b][c] = None THEN 0 ELSE window[b][c]) + message[b][c]
Relayed(b, c) == IF relay[b][c] = None THEN 0 ELSE relay[b][c].trades
Working(b, c) ==
  IF worker[b] = None THEN 0 ELSE IF worker[b].coin = c THEN worker[b].trades ELSE 0

\* A flush reads no more than there is, only a flush has a message, and a
\* relay sends the signals of its coin.
Shape(b, c) ==
  /\ timer[b][c] = "clear" => window[b][c] # None /\ message[b][c] <= window[b][c]
  /\ timer[b][c] \notin {"clear", "send"} => message[b][c] = 0
  /\ relay[b][c] # None => relay[b][c].coin = c

Counted(b, c) ==
  handled[b][c] + Working(b, c) + Relayed(b, c) + Inside(b, c) <= pushed[b][c]

CountInv == \A b \in Buffered, c \in Coins : Shape(b, c) /\ Counted(b, c)

\* The numbers of one processor and coin.
LEMMA EntryTypes ==
  ASSUME TypeOK, NEW b \in Buffered, NEW c \in Coins
  PROVE  /\ window[b][c] \in Nat \cup {None} /\ message[b][c] \in Nat
         /\ timer[b][c] \in {"none", "sleep", "clear", "send", "ended"}
         /\ relay[b][c] \in Signal \cup {None} /\ worker[b] \in Signal \cup {None}
         /\ handled[b][c] \in Nat /\ pushed[b][c] \in Nat
         /\ Working(b, c) \in Nat /\ Relayed(b, c) \in Nat
BY DEF TypeOK, Working, Relayed, Signal

\* What an action leaves alone stays counted.
LEMMA Elsewhere ==
  ASSUME NEW b \in Buffered, NEW c \in Coins, Shape(b, c), Counted(b, c),
         window'[b][c] = window[b][c], timer'[b][c] = timer[b][c],
         message'[b][c] = message[b][c], relay'[b][c] = relay[b][c],
         Working(b, c)' = Working(b, c), handled'[b][c] = handled[b][c],
         pushed'[b][c] = pushed[b][c]
  PROVE  Shape(b, c)' /\ Counted(b, c)'
BY DEF Shape, Counted, Relayed, Inside

LEMMA CountInit == Init => CountInv
BY DEF Init, CountInv, Shape, Counted, Working, Relayed, Inside, PerCoin

LEMMA CountUnchanged ==
  ASSUME CountInv, UNCHANGED <<windows, relays, worker, ghosts>>
  PROVE  CountInv'
BY DEF CountInv, Shape, Counted, Working, Relayed, Inside, windows, relays, ghosts

\* A nil window gets a bucket without trades.
LEMMA CountPushEnter ==
  ASSUME TypeOK, FlowInv, CountInv, NEW b \in Buffered, PushEnter(b)
  PROVE  CountInv'
<1> DEFINE c == hand[b]
<1>1. c \in Coins
  BY StageFacts DEF PushEnter, FlowInv, InHand, Rest
<1>2. /\ ~Locked(b, c) /\ UNCHANGED <<message, relay, worker, handled, pushed>>
      /\ timer' = IF timer[b][c] = "none" THEN [timer EXCEPT ![b][c] = "sleep"] ELSE timer
      /\ window' = IF window[b][c] = None THEN [window EXCEPT ![b][c] = 0] ELSE window
  BY DEF PushEnter, relays, ghosts
<1> HIDE DEF c
<1>3. /\ timer'[b][c] = IF timer[b][c] = "none" THEN "sleep" ELSE timer[b][c]
      /\ \A d \in Buffered, e \in Coins : d # b \/ e # c => timer'[d][e] = timer[d][e]
  BY <1>1, <1>2, SetEntry DEF TypeOK
<1>4. /\ window'[b][c] = IF window[b][c] = None THEN 0 ELSE window[b][c]
      /\ \A d \in Buffered, e \in Coins : d # b \/ e # c => window'[d][e] = window[d][e]
  BY <1>1, <1>2, SetEntry DEF TypeOK
<1>5. SUFFICES ASSUME NEW d \in Buffered, NEW e \in Coins PROVE Shape(d, e)' /\ Counted(d, e)'
  BY DEF CountInv
<1>6. CASE d = b /\ e = c
  BY <1>2, <1>3, <1>4, <1>6, EntryTypes
     DEF CountInv, Shape, Counted, Working, Relayed, Inside, Locked
<1>7. CASE d # b \/ e # c
  BY <1>2, <1>3, <1>4, <1>7, Elsewhere DEF CountInv, Working
<1> QED BY <1>6, <1>7

LEMMA CountPushAdd ==
  ASSUME TypeOK, FlowInv, CountInv, NEW b \in Buffered, PushAdd(b)
  PROVE  CountInv'
<1> DEFINE c == hand[b]
<1>1. c \in Coins
  BY StageFacts DEF PushAdd, FlowInv, InHand, Rest
<1>2. CASE window[b][c] = None
  BY <1>2, CountUnchanged DEF PushAdd, windows, ghosts
<1>3. CASE window[b][c] # None
  <2>1. /\ UNCHANGED <<timer, message, relay, worker, handled>>
        /\ window' = [window EXCEPT ![b][c] = window[b][c] + 1]
        /\ pushed' = [pushed EXCEPT ![b][c] = pushed[b][c] + 1]
    BY <1>3 DEF PushAdd, relays
  <2> HIDE DEF c
  <2>2. window[b][c] \in Nat /\ window[b][c] + 1 \in Nat \cup {None} /\ pushed[b][c] + 1 \in Nat
    BY <1>1, <1>3, EntryTypes
  <2>3. /\ window'[b][c] = window[b][c] + 1
        /\ \A d \in Buffered, e \in Coins : d # b \/ e # c => window'[d][e] = window[d][e]
    BY <1>1, <2>1, <2>2, SetEntry DEF TypeOK
  <2>4. /\ pushed'[b][c] = pushed[b][c] + 1
        /\ \A d \in Buffered, e \in Coins : d # b \/ e # c => pushed'[d][e] = pushed[d][e]
    BY <1>1, <2>1, <2>2, SetEntry DEF TypeOK
  <2>5. SUFFICES ASSUME NEW d \in Buffered, NEW e \in Coins PROVE Shape(d, e)' /\ Counted(d, e)'
    BY DEF CountInv
  <2>6. CASE d = b /\ e = c
    <3>1. Working(d, e)' = Working(d, e) /\ Relayed(d, e)' = Relayed(d, e)
      BY <2>1 DEF Working, Relayed
    <3>2. window'[b][c] # None
      BY <2>2, <2>3
    <3>3. Inside(d, e)' = Inside(d, e) + 1 /\ Inside(d, e) \in Nat
      BY <1>3, <2>1, <2>2, <2>3, <2>6, <3>2, EntryTypes DEF Inside
    <3>4. Counted(d, e)'
      BY <2>1, <2>4, <2>6, <3>1, <3>3, EntryTypes DEF CountInv, Counted
    <3>5. Shape(d, e)'
      BY <2>1, <2>2, <2>3, <2>6, <3>2, EntryTypes DEF CountInv, Shape
    <3> QED BY <3>4, <3>5
  <2>7. CASE d # b \/ e # c
    BY <2>1, <2>3, <2>4, <2>7, Elsewhere DEF CountInv, Working
  <2> QED BY <2>6, <2>7
<1> QED BY <1>2, <1>3

\* A flush reads the bucket, which stays until it is cleared.
LEMMA CountFlush ==
  ASSUME TypeOK, CountInv, NEW b \in Buffered, NEW c \in Coins, Flush(b, c)
  PROVE  CountInv'
<1> DEFINE read == IF window[b][c] = None THEN 0 ELSE window[b][c]
           next == IF window[b][c] \in {None, 0} THEN "send" ELSE "clear"
<1>1. timer[b][c] = "sleep" /\ UNCHANGED <<window, relay, worker, handled, pushed>>
  BY DEF Flush, relays, ghosts
<1>2. CASE at[b] = "closed"
  <2>1. UNCHANGED message /\ (timer' = timer \/ timer' = [timer EXCEPT ![b][c] = "ended"])
    BY <1>2 DEF Flush
  <2>2. CASE timer' = timer
    BY <1>1, <2>1, <2>2 DEF CountInv, Shape, Counted, Working, Relayed, Inside
  <2>3. CASE timer' = [timer EXCEPT ![b][c] = "ended"]
    <3>1. /\ timer'[b][c] = "ended"
          /\ \A d \in Buffered, e \in Coins : d # b \/ e # c => timer'[d][e] = timer[d][e]
      BY <2>3, SetEntry DEF TypeOK
    <3>2. SUFFICES ASSUME NEW d \in Buffered, NEW e \in Coins PROVE Shape(d, e)' /\ Counted(d, e)'
      BY DEF CountInv
    <3>3. CASE d = b /\ e = c
      BY <1>1, <2>1, <3>1, <3>3 DEF CountInv, Shape, Counted, Working, Relayed, Inside
    <3>4. CASE d # b \/ e # c
      BY <1>1, <2>1, <3>1, <3>4, Elsewhere DEF CountInv, Working
    <3> QED BY <3>3, <3>4
  <2> QED BY <2>1, <2>2, <2>3
<1>3. CASE at[b] # "closed"
  <2>1. timer' = [timer EXCEPT ![b][c] = next] /\ message' = [message EXCEPT ![b][c] = read]
    BY <1>3 DEF Flush
  <2>2. read \in Nat /\ next \in {"none", "sleep", "clear", "send", "ended"}
    BY EntryTypes
  <2> HIDE DEF read, next
  <2>3. /\ timer'[b][c] = next
        /\ \A d \in Buffered, e \in Coins : d # b \/ e # c => timer'[d][e] = timer[d][e]
    BY <2>1, <2>2, SetEntry DEF TypeOK
  <2>4. /\ message'[b][c] = read
        /\ \A d \in Buffered, e \in Coins : d # b \/ e # c => message'[d][e] = message[d][e]
    BY <2>1, <2>2, SetEntry DEF TypeOK
  <2>5. SUFFICES ASSUME NEW d \in Buffered, NEW e \in Coins PROVE Shape(d, e)' /\ Counted(d, e)'
    BY DEF CountInv
  <2>6. CASE d = b /\ e = c
    <3>1. message[b][c] = 0
      BY <1>1 DEF CountInv, Shape
    <3>2. Inside(b, c) = read
      BY <1>1, <3>1, EntryTypes DEF Inside, read
    <3>3. Inside(b, c)' = read
      BY <1>1, <2>3, <2>4, EntryTypes DEF Inside, read, next
    <3>4. Counted(b, c)'
      BY <1>1, <3>2, <3>3 DEF CountInv, Counted, Working, Relayed
    <3>5. Shape(b, c)'
      BY <1>1, <2>3, <2>4, EntryTypes DEF CountInv, Shape, read, next
    <3> QED BY <2>6, <3>4, <3>5
  <2>7. CASE d # b \/ e # c
    BY <1>1, <2>3, <2>4, <2>7, Elsewhere DEF CountInv, Working
  <2> QED BY <2>6, <2>7
<1> QED BY <1>2, <1>3

LEMMA CountFlushClear ==
  ASSUME TypeOK, CountInv, NEW b \in Buffered, NEW c \in Coins, FlushClear(b, c)
  PROVE  CountInv'
<1>1. /\ timer[b][c] = "clear" /\ UNCHANGED <<message, relay, worker, handled, pushed>>
      /\ window' = [window EXCEPT ![b][c] = None] /\ timer' = [timer EXCEPT ![b][c] = "send"]
  BY DEF FlushClear, relays, ghosts
<1>2. /\ window'[b][c] = None
      /\ \A d \in Buffered, e \in Coins : d # b \/ e # c => window'[d][e] = window[d][e]
  BY <1>1, SetEntry DEF TypeOK
<1>3. /\ timer'[b][c] = "send"
      /\ \A d \in Buffered, e \in Coins : d # b \/ e # c => timer'[d][e] = timer[d][e]
  BY <1>1, SetEntry DEF TypeOK
<1>4. SUFFICES ASSUME NEW d \in Buffered, NEW e \in Coins PROVE Shape(d, e)' /\ Counted(d, e)'
  BY DEF CountInv
<1>5. CASE d = b /\ e = c
  <2>1. window[b][c] \in Nat /\ message[b][c] <= window[b][c]
    BY <1>1, EntryTypes DEF CountInv, Shape
  <2>2. Inside(b, c) = window[b][c] /\ Inside(b, c)' = message[b][c]
    BY <1>1, <1>2, <1>3, EntryTypes DEF Inside
  <2>3. Counted(b, c)'
    BY <1>1, <2>1, <2>2, EntryTypes DEF CountInv, Counted, Working, Relayed
  <2>4. Shape(b, c)'
    BY <1>1, <1>2, <1>3 DEF CountInv, Shape
  <2> QED BY <1>5, <2>3, <2>4
<1>6. CASE d # b \/ e # c
  BY <1>1, <1>2, <1>3, <1>6, Elsewhere DEF CountInv, Working
<1> QED BY <1>5, <1>6

\* The trades of a message become those of the relay's signal; a repeated
\* signal has none.
LEMMA CountRelayTake ==
  ASSUME TypeOK, CountInv, NEW b \in Buffered, NEW c \in Coins, RelayTake(b, c)
  PROVE  CountInv'
<1>1. timer[b][c] = "send" /\ UNCHANGED <<window, worker, handled, pushed>>
  BY DEF RelayTake, ghosts
<1>2. CASE at[b] = "closed"
  BY <1>1, <1>2, CountUnchanged DEF RelayTake, windows, relays, ghosts
<1>3. CASE at[b] # "closed"
  <2> DEFINE signal == [coin |-> c, trades |-> message[b][c]]
             repeated == message[b][c] > 0 \/ c \in echo[b]
  <2>1. /\ relay[b][c] = None
        /\ timer' = [timer EXCEPT ![b][c] = "sleep"] /\ message' = [message EXCEPT ![b][c] = 0]
        /\ relay' = IF repeated THEN [relay EXCEPT ![b][c] = signal] ELSE relay
    BY <1>3 DEF RelayTake
  <2>2. message[b][c] \in Nat /\ signal \in Signal /\ signal # None
        /\ signal.coin = c /\ signal.trades = message[b][c]
    BY EntryTypes DEF Signal
  <2>3. /\ timer'[b][c] = "sleep"
        /\ \A d \in Buffered, e \in Coins : d # b \/ e # c => timer'[d][e] = timer[d][e]
    BY <2>1, SetEntry DEF TypeOK
  <2>4. /\ message'[b][c] = 0
        /\ \A d \in Buffered, e \in Coins : d # b \/ e # c => message'[d][e] = message[d][e]
    BY <2>1, SetEntry DEF TypeOK
  <2>5. ~repeated => message[b][c] = 0
    BY <2>2
  <2> HIDE DEF signal, repeated
  <2>6. /\ relay'[b][c] = IF repeated THEN signal ELSE None
        /\ \A d \in Buffered, e \in Coins : d # b \/ e # c => relay'[d][e] = relay[d][e]
    <3>1. CASE repeated
      <4>1. relay' = [relay EXCEPT ![b][c] = signal]
        BY <2>1, <3>1
      <4> QED BY <2>2, <3>1, <4>1, SetEntry DEF TypeOK
    <3>2. CASE ~repeated
      BY <2>1, <3>2
    <3> QED BY <3>1, <3>2
  <2>7. SUFFICES ASSUME NEW d \in Buffered, NEW e \in Coins PROVE Shape(d, e)' /\ Counted(d, e)'
    BY DEF CountInv
  <2>8. CASE d = b /\ e = c
    <3>1. Relayed(b, c) = 0 /\ Relayed(b, c)' = message[b][c]
      BY <2>1, <2>2, <2>5, <2>6 DEF Relayed
    <3> DEFINE bucket == IF window[b][c] = None THEN 0 ELSE window[b][c]
    <3>2. bucket \in Nat /\ Inside(b, c) = bucket + message[b][c] /\ Inside(b, c)' = bucket
      BY <1>1, <2>3, <2>4, EntryTypes DEF Inside
    <3> HIDE DEF bucket
    <3>3. Counted(b, c)'
      BY <1>1, <2>2, <3>1, <3>2, EntryTypes DEF CountInv, Counted, Working
    <3>4. Shape(b, c)'
      BY <2>2, <2>3, <2>4, <2>6 DEF Shape
    <3> QED BY <2>8, <3>3, <3>4
  <2>9. CASE d # b \/ e # c
    BY <1>1, <2>3, <2>4, <2>6, <2>9, Elsewhere DEF CountInv, Working
  <2> QED BY <2>8, <2>9
<1> QED BY <1>2, <1>3

LEMMA CountWorkerTake ==
  ASSUME TypeOK, CountInv, NEW b \in Buffered, NEW c \in Coins, WorkerTake(b, c)
  PROVE  CountInv'
<1>1. /\ relay[b][c] # None /\ worker[b] = None
      /\ UNCHANGED <<window, timer, message, handled, pushed>>
      /\ worker' = [worker EXCEPT ![b] = relay[b][c]] /\ relay' = [relay EXCEPT ![b][c] = None]
  BY DEF WorkerTake, windows, ghosts
<1>2. relay[b][c].coin = c
  BY <1>1 DEF CountInv, Shape
<1>3. /\ relay'[b][c] = None
      /\ \A d \in Buffered, e \in Coins : d # b \/ e # c => relay'[d][e] = relay[d][e]
  BY <1>1, SetEntry DEF TypeOK
<1>4. worker'[b] = relay[b][c] /\ \A d \in Buffered \ {b} : worker'[d] = worker[d]
  BY <1>1 DEF TypeOK
<1>5. SUFFICES ASSUME NEW d \in Buffered, NEW e \in Coins PROVE Shape(d, e)' /\ Counted(d, e)'
  BY DEF CountInv
<1>6. CASE d = b /\ e = c
  <2>1. /\ Working(b, c) = 0 /\ Working(b, c)' = Relayed(b, c) /\ Relayed(b, c)' = 0
        /\ Inside(b, c)' = Inside(b, c)
    BY <1>1, <1>2, <1>3, <1>4 DEF Working, Relayed, Inside
  <2>2. Counted(b, c)'
    BY <1>1, <2>1, EntryTypes DEF CountInv, Counted
  <2>3. Shape(b, c)'
    BY <1>1, <1>3 DEF CountInv, Shape
  <2> QED BY <1>6, <2>2, <2>3
<1>7. CASE d # b \/ e # c
  <2>1. Working(d, e)' = Working(d, e)
    BY <1>1, <1>2, <1>4, <1>7 DEF Working
  <2> QED BY <1>1, <1>3, <1>7, <2>1, Elsewhere DEF CountInv
<1> QED BY <1>6, <1>7

LEMMA CountWorkerDone ==
  ASSUME TypeOK, CountInv, NEW b \in Buffered, WorkerDone(b)
  PROVE  CountInv'
<1> DEFINE c == worker[b].coin
           n == handled[b][c] + worker[b].trades
<1>1. /\ worker[b] # None /\ UNCHANGED <<window, timer, message, relay, pushed>>
      /\ worker' = [worker EXCEPT ![b] = None] /\ handled' = [handled EXCEPT ![b][c] = n]
  BY DEF WorkerDone, windows, relays
<1>2. c \in Coins /\ worker[b].trades \in Nat
  BY <1>1 DEF TypeOK, Signal
<1>3. n \in Nat /\ Working(b, c) = worker[b].trades
  BY <1>1, <1>2 DEF TypeOK, Working
<1>4. worker'[b] = None /\ \A d \in Buffered \ {b} : worker'[d] = worker[d]
  BY <1>1 DEF TypeOK
<1>5. \A e \in Coins : e # c => Working(b, e) = 0
  BY <1>1 DEF Working
<1> HIDE DEF n, c
<1>6. /\ handled'[b][c] = n
      /\ \A d \in Buffered, e \in Coins : d # b \/ e # c => handled'[d][e] = handled[d][e]
  BY <1>1, <1>2, <1>3, SetEntry DEF TypeOK
<1>7. SUFFICES ASSUME NEW d \in Buffered, NEW e \in Coins PROVE Shape(d, e)' /\ Counted(d, e)'
  BY DEF CountInv
<1>8. CASE d = b /\ e = c
  <2>1. Working(d, e)' = 0 /\ Relayed(d, e)' = Relayed(d, e) /\ Inside(d, e)' = Inside(d, e)
    BY <1>1, <1>4, <1>8 DEF Working, Relayed, Inside
  <2>2. n = handled[d][e] + Working(d, e)
    BY <1>3, <1>8 DEF n
  <2>3. Counted(d, e)'
    BY <1>1, <1>6, <1>8, <2>1, <2>2, EntryTypes DEF CountInv, Counted
  <2>4. Shape(d, e)'
    BY <1>1 DEF CountInv, Shape
  <2> QED BY <2>3, <2>4
<1>9. CASE d # b \/ e # c
  <2>1. Working(d, e)' = Working(d, e)
    BY <1>4, <1>5, <1>9 DEF Working
  <2> QED BY <1>1, <1>6, <1>9, <2>1, Elsewhere DEF CountInv
<1> QED BY <1>8, <1>9

LEMMA CountStep ==
  ASSUME TypeOK, FlowInv, CountInv, [Next]_vars
  PROVE  CountInv'
<1>1. ASSUME NEW c \in Coins, Trade(c) PROVE CountInv'
  BY <1>1, CountUnchanged DEF Trade
<1>2. CASE Offer \/ Recall \/ Interrupt
  BY <1>2, CountUnchanged DEF Offer, Recall, Interrupt
<1>3. ASSUME NEW s \in Stages, Count(s) \/ Pass(s) \/ CloseStage(s) PROVE CountInv'
  BY <1>3, CountUnchanged DEF Count, Pass, CloseStage
<1>4. ASSUME NEW b \in Buffered, PushEnter(b) \/ PushAdd(b) PROVE CountInv'
  BY <1>4, CountPushEnter, CountPushAdd
<1>5. ASSUME NEW b \in Buffered, NEW c \in Coins, Window(b, c) \/ WorkerTake(b, c)
      PROVE  CountInv'
  BY <1>5, CountFlush, CountFlushClear, CountRelayTake, CountWorkerTake DEF Window
<1>6. ASSUME NEW b \in Buffered, WorkerDone(b) PROVE CountInv'
  BY <1>6, CountWorkerDone
<1>7. ASSUME NEW k \in Keys, Collect(k) \/ Train(k) PROVE CountInv'
  BY <1>7, CountUnchanged DEF Collect, Train
<1>8. ASSUME NEW c \in Coins \cup {AllCoins}, NEW on \in BOOLEAN, EnableML(c, on) PROVE CountInv'
  BY <1>8, CountUnchanged DEF EnableML
<1>9. CASE Reconnect
  BY <1>9, CountUnchanged DEF Reconnect
<1>10. CASE UNCHANGED vars
  BY <1>10, CountUnchanged DEF vars
<1> QED BY StageFacts, <1>1, <1>2, <1>3, <1>4, <1>5, <1>6, <1>7, <1>8, <1>9, <1>10 DEF Next, Stage

\* No processor sees a trade in two signals, for any processors, coins and
\* number of trades, although Push and Flush race for the bucket and quiet
\* intervals repeat the last signal.
THEOREM ProcessedOnce == Spec => []AtMostOnce
<1>1. TypeOK /\ CountInv => AtMostOnce
  <2>1. SUFFICES ASSUME TypeOK, CountInv, NEW b \in Buffered, NEW c \in Coins
                 PROVE  handled[b][c] <= pushed[b][c]
    BY DEF AtMostOnce
  <2>2. Inside(b, c) \in Nat
    BY <2>1, EntryTypes DEF CountInv, Shape, Inside
  <2> QED BY <2>1, <2>2, EntryTypes DEF CountInv, Counted
<1>2. TypeOK /\ FlowInv /\ CountInv /\ [Next]_vars => CountInv'
  BY CountStep
<1> QED BY <1>1, <1>2, CountInit, FlowCorrect, PTL DEF Spec

=============================================================================
