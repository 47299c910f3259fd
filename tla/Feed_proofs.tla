----------------------------- MODULE Feed_proofs ----------------------------
(***************************************************************************)
(* Proofs about Feed, for all coins, trades, limits and sizes, and any     *)
(* number of restarts and failed records.                                  *)
(***************************************************************************)
EXTENDS Feed, SequenceTheorems, WellFoundedInduction, TLAPS

-----------------------------------------------------------------------------
(* The inductive invariant.                                                *)

\* TypeOK in three parts.
MarketOK ==
  /\ source \in [kind : {"remote", "mock"}, served : [CoinSet -> Nat]]
  /\ market \in [CoinSet -> Nat] /\ since \in [CoinSet -> Nat]
  /\ \A c \in CoinSet : market[c] <= Len(Times[c]) /\ since[c] <= market[c]

HandsOK ==
  /\ poller \in [turn : DOMAIN Coins, pc : {"wait", "send"}, batch : Seq(Trade), index : Nat]
  /\ Len(poller.batch) <= BatchCap
  /\ control \in [pc : {"input", "output", "process", "closed"}, trade : Position,
                  current : Nat, limit : Limits]
  /\ history \in [pc : {"in", "add", "out", "closed"}, trade : Position]

DiskOK ==
  /\ trades \in Seq(Trade) /\ Len(trades) < FileSize
  /\ run \in 1 .. MaxRuns /\ faults \in 0 .. MaxFaults
  /\ \A k \in DOMAIN files : <<k[1], k[2]>> \in Buckets /\ k[3] \in 1 .. run
  /\ unstored \subseteq Trade

LEMMA TypesSplit == (TypeOK <=> MarketOK /\ HandsOK /\ DiskOK)
                    /\ (TypeOK' <=> MarketOK' /\ HandsOK' /\ DiskOK')
BY DEF TypeOK, MarketOK, HandsOK, DiskOK

Polling(c) == poller.pc = "send" /\ Coins[poller.turn] = c

\* How many trades of a coin the controller has taken.
Passed(c) == IF Polling(c) THEN poller.index - Len(poller.batch) ELSE since[c]

\* A trade of the coin is between the controller and the consumer.
Flight(c) == \/ control.pc = "output" /\ control.trade.coin = c
             \/ control.pc = "process" /\ history.trade.coin = c

Arrived(c) == IF Flight(c) THEN Passed(c) - 1 ELSE Passed(c)

Got(c) == {seen[j].n : j \in {k \in DOMAIN seen : seen[k].coin = c}}

\* The files the mock has served and the trades it is asked for agree.
Served(c) == IF source.served[c] * BatchCap < market[c] THEN source.served[c] * BatchCap
             ELSE market[c]
MockInv == source.kind = "mock" => \A c \in CoinSet :
  market[c] = Len(Times[c]) /\ (IF Polling(c) THEN poller.index ELSE since[c]) = Served(c)

\* What execute still has to send are the last trades up to the index.
PollInv == poller.pc = "send" =>
  /\ poller.index <= market[Coins[poller.turn]] /\ Len(poller.batch) <= poller.index
  /\ \A i \in 1 .. Len(poller.batch) :
       poller.batch[i] = [coin |-> Coins[poller.turn],
                          n |-> poller.index - Len(poller.batch) + i]

\* One trade is in flight, and it is the last one the controller has taken.
HandInv ==
  /\ control.pc = "input" => history.pc = "in"
  /\ control.pc = "output" =>
       history.pc = "in" /\ control.trade \in Trade /\ control.trade.n = Passed(control.trade.coin)
  /\ control.pc = "process" =>
       history.pc \in {"add", "out"} /\ history.trade \in Trade
       /\ history.trade.n = Passed(history.trade.coin)
  /\ control.pc = "closed" => history.pc \in {"in", "closed"}

SeenInv ==
  /\ seen \in Seq(Trade)
  /\ InOrder
  /\ control.pc # "closed" => \A c \in CoinSet : Got(c) = 1 .. Arrived(c)

FeedInv == MarketOK /\ HandsOK /\ DiskOK /\ MockInv /\ PollInv /\ HandInv /\ SeenInv

-----------------------------------------------------------------------------
(* Facts about the constants and operators.                                *)

LEMMA Constants ==
  /\ BatchCap \in Nat \ {0} /\ FileSize \in Nat \ {0} /\ MaxRuns \in Nat \ {0} /\ MaxFaults \in Nat
  /\ Len(Coins) \in Nat \ {0} /\ DOMAIN Coins = 1 .. Len(Coins)
  /\ \A i \in DOMAIN Coins : Coins[i] \in CoinSet
  /\ \A c \in CoinSet : Len(Times[c]) \in Nat /\ DOMAIN Times[c] = 1 .. Len(Times[c])
  /\ None \notin Trade
BY FeedAssumption, EmptySeq DEF CoinSet

LEMMA Trades ==
  /\ \A c \in CoinSet : \A n \in 1 .. Len(Times[c]) : [coin |-> c, n |-> n] \in Trade
  /\ \A t \in Trade : /\ t = [coin |-> t.coin, n |-> t.n] /\ t.coin \in CoinSet
                      /\ t.n \in 1 .. Len(Times[t.coin])
BY Constants DEF Trade

LEMMA Turns ==
  ASSUME NEW i \in DOMAIN Coins PROVE Turn(i) \in DOMAIN Coins
BY Constants DEF Turn

LEMMA Stores ==
  ASSUME NEW k, NEW r PROVE DOMAIN Store(files, k, r) = DOMAIN files \cup {k}
BY DEF Store

\* The set of numbers seen grows by the trade that is appended.
LEMMA GotAppend ==
  ASSUME seen \in Seq(Trade), NEW t \in Trade, seen' = Append(seen, t)
  PROVE  /\ seen' \in Seq(Trade) /\ Got(t.coin)' = Got(t.coin) \cup {t.n}
         /\ \A c \in CoinSet : c # t.coin => Got(c)' = Got(c)
<1>1. /\ seen' \in Seq(Trade) /\ DOMAIN seen' = DOMAIN seen \cup {Len(seen) + 1}
      /\ \A j \in DOMAIN seen : seen'[j] = seen[j]
      /\ seen'[Len(seen) + 1] = t /\ Len(seen) + 1 \notin DOMAIN seen
  BY AppendProperties, LenProperties
<1> QED BY <1>1 DEF Got

LEMMA OrderAppend ==
  ASSUME seen \in Seq(Trade), InOrder, NEW t \in Trade, seen' = Append(seen, t),
         Got(t.coin) = 1 .. t.n - 1
  PROVE  InOrder'
<1>1. /\ Len(seen) \in Nat /\ DOMAIN seen = 1 .. Len(seen)
      /\ DOMAIN seen' = 1 .. Len(seen) + 1
      /\ \A j \in 1 .. Len(seen) : seen'[j] = seen[j]
      /\ seen'[Len(seen) + 1] = t
  BY AppendProperties, LenProperties
<1>2. ASSUME NEW i \in 1 .. Len(seen)
      PROVE  {seen'[j].n : j \in {k \in 1 .. i - 1 : seen'[k].coin = seen'[i].coin}}
               = 1 .. seen'[i].n - 1
  <2>1. {seen'[j].n : j \in {k \in 1 .. i - 1 : seen'[k].coin = seen'[i].coin}}
          = {seen[j].n : j \in {k \in 1 .. i - 1 : seen[k].coin = seen[i].coin}}
    <3>1. \A j \in 1 .. i - 1 : seen'[j] = seen[j]
      BY <1>1
    <3> QED BY <1>1, <3>1
  <2> QED BY <1>1, <2>1 DEF InOrder
<1>3. {seen'[j].n : j \in {k \in 1 .. Len(seen) + 1 - 1 : seen'[k].coin = t.coin}} = Got(t.coin)
  BY <1>1 DEF Got
<1>4. ASSUME NEW i \in DOMAIN seen'
      PROVE  {seen'[j].n : j \in {k \in 1 .. i - 1 : seen'[k].coin = seen'[i].coin}}
               = 1 .. seen'[i].n - 1
  <2>1. CASE i = Len(seen) + 1
    BY <1>1, <1>3, <2>1
  <2>2. CASE i \in 1 .. Len(seen)
    BY ONLY <1>2, <2>2
  <2>3. i = Len(seen) + 1 \/ i \in 1 .. Len(seen)
    BY ONLY <1>1, i \in DOMAIN seen'
  <2> QED BY ONLY <2>1, <2>2, <2>3
<1> QED BY ONLY <1>4 DEF InOrder

-----------------------------------------------------------------------------
(* Every step keeps the invariant.                                         *)

LEMMA InitInv == Init => FeedInv
<1> SUFFICES ASSUME Init PROVE FeedInv
  OBVIOUS
<1>1. /\ source \in [kind : {"remote", "mock"}, served : {[c \in CoinSet |-> 0]}]
      /\ market = [c \in CoinSet |-> IF source.kind = "mock" THEN Len(Times[c]) ELSE 0]
      /\ since = [c \in CoinSet |-> 0] /\ poller = Idle(1) /\ history = Fresh
      /\ control \in [pc : {"input"}, trade : {None}, current : {0}, limit : Limits]
      /\ trades = <<>> /\ run = 1 /\ files = NoFiles /\ faults = 0
      /\ seen = <<>> /\ unstored = {}
  BY DEF Init
<1>2. 1 \in DOMAIN Coins
  BY Constants
<1>3. MarketOK /\ HandsOK /\ DiskOK
  <2>1. MarketOK
    BY <1>1, Constants DEF MarketOK
  <2>2. HandsOK
    BY <1>1, <1>2, Constants DEF HandsOK, Idle, Fresh, Position
  <2>3. DiskOK
    BY <1>1, Constants DEF DiskOK, NoFiles
  <2> QED BY <2>1, <2>2, <2>3
<1>4. MockInv /\ PollInv /\ HandInv
  BY <1>1, Constants DEF MockInv, PollInv, HandInv, Polling, Served, Idle, Fresh
<1>5. SeenInv
  <2>1. seen \in Seq(Trade) /\ DOMAIN seen = {} /\ InOrder
    BY <1>1 DEF InOrder
  <2>2. \A c \in CoinSet : Got(c) = {} /\ Arrived(c) = 0
    BY <1>1, <2>1 DEF Got, Arrived, Flight, Passed, Polling, Idle
  <2>3. 1 .. 0 = {}
    OBVIOUS
  <2> QED BY <2>1, <2>2, <2>3 DEF SeenInv
<1> QED BY <1>3, <1>4, <1>5 DEF FeedInv

LEMMA HappensInv ==
  ASSUME FeedInv, NEW c \in CoinSet, Happens(c)
  PROVE  FeedInv'
<1>1. /\ market[c] < Len(Times[c]) /\ market' = [market EXCEPT ![c] = @ + 1]
      /\ UNCHANGED <<source, since, poller, control, history, trades, run, files, batches,
                     faults, seen, unstored>>
  BY DEF Happens, goroutines
<1>2. MarketOK /\ HandsOK /\ DiskOK
  BY DEF FeedInv
<1>3. /\ market' \in [CoinSet -> Nat]
      /\ \A d \in CoinSet : market[d] <= market'[d] /\ market'[d] <= Len(Times[d])
      /\ \A d \in CoinSet : market[d] \in Nat /\ since[d] \in Nat /\ since[d] <= market[d]
  <2>1. \A d \in CoinSet : market'[d] = IF d = c THEN market[c] + 1 ELSE market[d]
    BY <1>1, <1>2 DEF MarketOK
  <2>2. market' = [d \in CoinSet |-> IF d = c THEN market[c] + 1 ELSE market[d]]
    BY <1>1, <1>2 DEF MarketOK
  <2>3. \A d \in CoinSet : /\ market[d] \in Nat /\ since[d] \in Nat /\ Len(Times[d]) \in Nat
                          /\ since[d] <= market[d] /\ market[d] <= Len(Times[d])
    BY <1>2, Constants DEF MarketOK
  <2>4. \A d \in CoinSet : market'[d] \in Nat /\ market[d] <= market'[d] /\ market'[d] <= Len(Times[d])
    BY <1>1, <2>1, <2>3
  <2>5. market' \in [CoinSet -> Nat]
    BY <2>1, <2>2, <2>4
  <2> QED BY <2>3, <2>4, <2>5
<1>7. MarketOK'
  <2>1. \A d \in CoinSet : since'[d] <= market'[d]
    BY <1>1, <1>3
  <2> QED BY <1>1, <1>2, <1>3, <2>1 DEF MarketOK
<1>8. HandsOK' /\ DiskOK'
  BY <1>1, <1>2 DEF HandsOK, DiskOK
<1>4. MockInv'
  BY <1>1 DEF FeedInv, MockInv
<1>5. PollInv'
  <2>1. poller.pc = "send" => Coins[poller.turn] \in CoinSet /\ poller.index \in Nat
    BY <1>2, Constants DEF HandsOK
  <2> QED BY <1>1, <1>3, <2>1 DEF FeedInv, PollInv
<1>6. HandInv' /\ SeenInv'
  BY <1>1 DEF FeedInv, HandInv, SeenInv, InOrder, Got, Arrived, Flight, Passed, Polling
<1> QED BY <1>4, <1>5, <1>6, <1>7, <1>8 DEF FeedInv

LEMMA PollFailedInv ==
  ASSUME FeedInv, PollFailed
  PROVE  FeedInv'
<1>1. /\ poller.pc = "wait" /\ poller' = Idle(Turn(poller.turn))
      /\ UNCHANGED <<source, market, since, control, history, trades, run, files, batches,
                     faults, seen, unstored>>
  BY DEF PollFailed, Retry
<1>2. poller.turn \in DOMAIN Coins /\ Turn(poller.turn) \in DOMAIN Coins
  BY Turns DEF FeedInv, HandsOK
<1>3. \A c \in CoinSet : /\ ~ Polling(c) /\ ~ Polling(c)' /\ Passed(c)' = Passed(c)
                         /\ Flight(c)' = Flight(c) /\ Arrived(c)' = Arrived(c) /\ Got(c)' = Got(c)
  BY <1>1 DEF Polling, Passed, Flight, Arrived, Got, Idle
<1>4. MarketOK' /\ HandsOK' /\ DiskOK'
  <2>1. MarketOK' /\ DiskOK'
    BY <1>1 DEF FeedInv, MarketOK, DiskOK
  <2>2. HandsOK'
    BY <1>1, <1>2, Constants DEF FeedInv, HandsOK, Idle
  <2> QED BY <2>1, <2>2
<1>5. MockInv' /\ PollInv'
  BY <1>1, <1>3 DEF FeedInv, MockInv, PollInv, Served, Idle
<1>6. HandInv'
  BY <1>1, <1>3, Trades DEF FeedInv, HandInv
<1>7. SeenInv'
  BY <1>1, <1>3 DEF FeedInv, SeenInv, InOrder
<1> QED BY <1>4, <1>5, <1>6, <1>7 DEF FeedInv

LEMMA PollStep ==
  ASSUME FeedInv, Poll
  PROVE  FeedInv'
<1> DEFINE c == Coins[poller.turn]
<1>1. /\ poller.pc = "wait" /\ ~ Exhausted(c)
      /\ poller' = [poller EXCEPT !.pc = "send", !.batch = Response(c), !.index = Index(c)]
      /\ source' = IF source.kind = "mock" THEN [source EXCEPT !.served[c] = @ + 1] ELSE source
      /\ UNCHANGED <<market, since, control, history, trades, run, files, batches, faults,
                     seen, unstored>>
  BY DEF Poll
<1>2. /\ poller.turn \in DOMAIN Coins /\ c \in CoinSet /\ market[c] \in Nat /\ since[c] \in Nat
      /\ since[c] <= market[c] /\ market[c] <= Len(Times[c]) /\ Len(Times[c]) \in Nat
      /\ source.kind \in {"remote", "mock"} /\ source.served \in [CoinSet -> Nat]
      /\ source = [kind |-> source.kind, served |-> source.served]
  BY Constants DEF FeedInv, MarketOK, HandsOK
<1> HIDE DEF c
<1>3. ~ Polling(c)
  BY <1>1 DEF Polling
<1>4. From(c) = since[c]
  <2>1. CASE source.kind = "mock"
    <3>1. since[c] = Served(c)
      BY <1>2, <1>3, <2>1 DEF FeedInv, MockInv
    <3>2. source.served[c] * BatchCap < market[c]
      BY <1>1, <1>2, <2>1, Constants DEF Exhausted
    <3> QED BY <2>1, <3>1, <3>2 DEF Served, From
  <2>2. CASE source.kind = "remote"
    BY <2>2 DEF From
  <2> QED BY <1>2, <2>1, <2>2
<1>5. /\ Reach(c) \in Nat /\ since[c] <= Reach(c) /\ Reach(c) <= market[c]
      /\ Reach(c) - since[c] <= BatchCap
  BY <1>2, <1>4, Constants DEF Reach
<1>6. /\ Response(c) \in Seq(Trade) /\ Len(Response(c)) = Reach(c) - since[c]
      /\ \A i \in 1 .. Reach(c) - since[c] :
           Response(c)[i] = [coin |-> c, n |-> since[c] + i]
  <2>1. Response(c) = [i \in 1 .. Reach(c) - since[c] |-> [coin |-> c, n |-> since[c] + i]]
    BY <1>4 DEF Response
  <2>2. ASSUME NEW i \in 1 .. Reach(c) - since[c] PROVE [coin |-> c, n |-> since[c] + i] \in Trade
    <3>1. since[c] + i \in 1 .. Len(Times[c])
      BY <1>2, <1>5
    <3> QED BY <1>2, <3>1, Trades
  <2>3. Reach(c) - since[c] \in Nat
    BY <1>2, <1>5
  <2> QED BY <2>1, <2>2, <2>3
<1>7. /\ poller' = [turn |-> poller.turn, pc |-> "send", batch |-> Response(c), index |-> Reach(c)]
      /\ Coins[poller'.turn] = c
  BY <1>1 DEF FeedInv, HandsOK, Index, c
<1>8. /\ source'.kind = source.kind /\ source' \in [kind : {"remote", "mock"}, served : [CoinSet -> Nat]]
      /\ \A d \in CoinSet : source'.served[d] =
           IF source.kind = "mock" /\ d = c THEN source.served[d] + 1 ELSE source.served[d]
  <2>1. CASE source.kind = "mock"
    <3>1. source' = [kind |-> source.kind, served |-> [source.served EXCEPT ![c] = @ + 1]]
      BY <1>1, <1>2, <2>1
    <3>2. [source.served EXCEPT ![c] = @ + 1] \in [CoinSet -> Nat]
      BY <1>2
    <3> QED BY <1>2, <2>1, <3>1, <3>2
  <2>2. CASE source.kind # "mock"
    BY <1>1, <1>2, <2>2
  <2> QED BY <2>1, <2>2
<1>9. \A d \in CoinSet : /\ Passed(d) = since[d] /\ Passed(d)' = since[d]
                         /\ Polling(d)' <=> d = c
                         /\ ~ Polling(d)
  <2>1. Reach(c) - (Reach(c) - since[c]) = since[c]
    BY <1>2, <1>5
  <2>2. poller'.pc = "send" /\ poller'.index - Len(poller'.batch) = since[c]
    BY <1>6, <1>7, <2>1
  <2> QED BY <1>1, <1>7, <2>2 DEF Passed, Polling
<1>10. MarketOK' /\ HandsOK' /\ DiskOK'
  <2>1. MarketOK' /\ DiskOK'
    BY <1>1, <1>8 DEF FeedInv, MarketOK, DiskOK
  <2>2. HandsOK'
    BY <1>1, <1>2, <1>5, <1>6, <1>7 DEF FeedInv, HandsOK
  <2> QED BY <2>1, <2>2
<1>11. MockInv'
  <2> SUFFICES ASSUME source.kind = "mock", NEW d \in CoinSet
               PROVE  /\ market'[d] = Len(Times[d])
                      /\ (IF Polling(d)' THEN poller'.index ELSE since'[d]) = Served(d)'
    BY <1>8 DEF MockInv
  <2>1. market'[d] = Len(Times[d]) /\ since[d] = Served(d)
    BY <1>1, <1>9 DEF FeedInv, MockInv
  <2>2. CASE d # c
    BY <1>1, <1>8, <1>9, <2>1, <2>2 DEF Served
  <2>3. CASE d = c
    <3>1. (source.served[c] + 1) * BatchCap = source.served[c] * BatchCap + BatchCap
      BY <1>2, Constants
    <3>2. From(c) = source.served[c] * BatchCap
      BY DEF From
    <3>3. Served(d)' = Reach(c)
      <4>1. source'.served[d] = source.served[c] + 1 /\ market'[d] = market[c]
        BY <1>1, <1>2, <1>8, <2>3
      <4>2. source'.served[d] * BatchCap = From(c) + BatchCap
        BY <3>1, <3>2, <4>1
      <4> QED BY <4>1, <4>2 DEF Served, Reach
    <3>4. Polling(d)' /\ poller'.index = Reach(c)
      BY <1>7, <1>9, <2>3
    <3> QED BY <2>1, <3>3, <3>4
  <2> QED BY <2>2, <2>3
<1>12. PollInv'
  <2>1. Reach(c) - (Reach(c) - since[c]) = since[c] /\ Reach(c) - since[c] <= Reach(c)
    BY <1>2, <1>5
  <2>2. /\ Coins[poller'.turn] = c /\ poller'.index = Reach(c) /\ poller'.batch = Response(c)
        /\ poller'.index - Len(poller'.batch) = since[c] /\ Len(poller'.batch) <= poller'.index
    BY <1>6, <1>7, <2>1
  <2>3. \A i \in 1 .. Len(poller'.batch) : poller'.batch[i] =
          [coin |-> Coins[poller'.turn], n |-> poller'.index - Len(poller'.batch) + i]
    BY <1>6, <2>2
  <2>4. poller'.index <= market'[Coins[poller'.turn]]
    BY <1>1, <1>5, <2>2
  <2> QED BY <2>2, <2>3, <2>4 DEF PollInv
<1>13. HandInv'
  BY <1>1, <1>9, Trades DEF FeedInv, HandInv
<1>14. SeenInv'
  BY <1>1, <1>9 DEF FeedInv, SeenInv, InOrder, Arrived, Flight, Got
<1> QED BY <1>10, <1>11, <1>12, <1>13, <1>14 DEF FeedInv

LEMMA AdvanceInv ==
  ASSUME FeedInv, Advance
  PROVE  FeedInv'
<1> DEFINE c == Coins[poller.turn]
<1>1. /\ poller.pc = "send" /\ poller.batch = <<>>
      /\ since' = [since EXCEPT ![c] = poller.index]
      /\ poller' = Idle(Turn(poller.turn))
      /\ UNCHANGED <<source, market, control, history, trades, run, files, batches, faults,
                     seen, unstored>>
  BY DEF Advance
<1>2. /\ poller.turn \in DOMAIN Coins /\ Turn(poller.turn) \in DOMAIN Coins /\ c \in CoinSet
      /\ poller.index \in Nat /\ poller.index <= market[c]
  BY <1>1, Constants, Turns DEF FeedInv, HandsOK, PollInv
<1>3. /\ since' \in [CoinSet -> Nat] /\ since'[c] = poller.index
      /\ \A d \in CoinSet : d # c => since'[d] = since[d]
  BY <1>1, <1>2 DEF FeedInv, MarketOK
<1>4. Len(poller.batch) = 0
  BY <1>1
<1>5. \A d \in CoinSet : /\ Polling(d) <=> d = c
                         /\ ~ Polling(d)'
                         /\ Passed(d)' = Passed(d)
  BY <1>1, <1>2, <1>3, <1>4 DEF Polling, Passed, Idle
<1>6. MarketOK' /\ HandsOK' /\ DiskOK'
  <2>1. MarketOK' /\ DiskOK'
    BY <1>1, <1>2, <1>3 DEF FeedInv, MarketOK, DiskOK
  <2>2. HandsOK'
    BY <1>1, <1>2, Constants DEF FeedInv, HandsOK, Idle
  <2> QED BY <2>1, <2>2
<1>7. MockInv' /\ PollInv'
  BY <1>1, <1>3, <1>5 DEF FeedInv, MockInv, PollInv, Served, Idle
<1>8. HandInv'
  BY <1>1, <1>5, Trades DEF FeedInv, HandInv
<1>9. SeenInv'
  BY <1>1, <1>5 DEF FeedInv, SeenInv, InOrder, Arrived, Flight, Got
<1> QED BY <1>6, <1>7, <1>8, <1>9 DEF FeedInv

LEMMA DelegateInv ==
  ASSUME FeedInv, Delegate
  PROVE  FeedInv'
<1>0. PICK c \in CoinSet, l \in Nat : c = Coins[poller.turn] /\ l = Len(poller.batch)
  BY Constants, LenProperties DEF FeedInv, HandsOK
<1>1. /\ poller.pc = "send" /\ poller.batch # <<>> /\ control.pc = "input"
      /\ poller' = [poller EXCEPT !.batch = Tail(@)]
      /\ control' = IF StopExecution(control.current + 1)
           THEN [control EXCEPT !.current = @ + 1, !.pc = "closed"]
           ELSE [control EXCEPT !.current = @ + 1, !.pc = "output", !.trade = Head(poller.batch)]
      /\ UNCHANGED <<source, market, since, history, trades, run, files, batches, faults,
                     seen, unstored>>
  BY DEF Delegate
<1>2. /\ poller.turn \in DOMAIN Coins /\ c \in CoinSet /\ poller.batch \in Seq(Trade)
      /\ poller.index \in Nat /\ l <= BatchCap /\ l <= poller.index
      /\ \A i \in 1 .. l : poller.batch[i] = [coin |-> c, n |-> poller.index - l + i]
      /\ poller.index <= market[c]
  BY <1>0, <1>1, Constants DEF FeedInv, HandsOK, PollInv
<1>3. /\ l \in Nat \ {0} /\ Head(poller.batch) = poller.batch[1] /\ Head(poller.batch) \in Trade
      /\ Tail(poller.batch) \in Seq(Trade) /\ Len(Tail(poller.batch)) = l - 1
      /\ \A i \in 1 .. l - 1 : Tail(poller.batch)[i] = poller.batch[i + 1]
  BY <1>0, <1>1, <1>2, HeadTailProperties, EmptySeq, LenProperties
<1>4. /\ poller' = [turn |-> poller.turn, pc |-> "send", batch |-> Tail(poller.batch),
                    index |-> poller.index]
      /\ Coins[poller'.turn] = c /\ Len(poller'.batch) = l - 1
  BY <1>0, <1>1, <1>3 DEF FeedInv, HandsOK
<1>5. /\ history.pc = "in" /\ history' = history
      /\ control = [pc |-> control.pc, trade |-> control.trade, current |-> control.current,
                    limit |-> control.limit]
      /\ control.trade \in Position /\ control.current \in Nat /\ control.limit \in Limits
      /\ l \in Int /\ poller.index \in Int
  BY <1>1, <1>2, <1>3 DEF FeedInv, HandInv, HandsOK
<1>5a. \/ control' = [pc |-> "closed", trade |-> control.trade, current |-> control.current + 1,
                     limit |-> control.limit] /\ StopExecution(control.current + 1)
       \/ control' = [pc |-> "output", trade |-> Head(poller.batch),
                     current |-> control.current + 1, limit |-> control.limit]
          /\ ~ StopExecution(control.current + 1)
  <2>1. CASE StopExecution(control.current + 1)
    <3>1. control' = [control EXCEPT !.current = @ + 1, !.pc = "closed"]
      BY <1>1, <2>1
    <3> QED BY <1>5, <2>1, <3>1
  <2>2. CASE ~ StopExecution(control.current + 1)
    <3>1. control' = [control EXCEPT !.current = @ + 1, !.pc = "output",
                                     !.trade = Head(poller.batch)]
      BY <1>1, <2>2
    <3> QED BY <1>5, <2>2, <3>1
  <2> QED BY <2>1, <2>2
<1>6. MarketOK' /\ HandsOK' /\ DiskOK'
  <2>1. MarketOK' /\ DiskOK'
    BY <1>1 DEF FeedInv, MarketOK, DiskOK
  <2>2. poller' \in [turn : DOMAIN Coins, pc : {"wait", "send"}, batch : Seq(Trade), index : Nat]
        /\ Len(poller'.batch) <= BatchCap
    BY <1>2, <1>3, <1>4, Constants
  <2>3. control' \in [pc : {"input", "output", "process", "closed"}, trade : Position,
                      current : Nat, limit : Limits]
    BY <1>3, <1>5, <1>5a DEF Position
  <2> QED BY <1>5, <2>1, <2>2, <2>3 DEF FeedInv, HandsOK
<1>7. /\ \A d \in CoinSet : (Polling(d) <=> d = c) /\ (Polling(d)' <=> d = c)
      /\ \A d \in CoinSet : d # c => Passed(d)' = Passed(d)
      /\ Passed(c) = poller.index - l /\ Passed(c)' = poller.index - l + 1
  <2>1. \A d \in CoinSet : (Polling(d) <=> d = c) /\ (Polling(d)' <=> d = c)
    BY <1>0, <1>1, <1>4 DEF Polling
  <2>2. poller.index - (l - 1) = poller.index - l + 1 /\ poller'.index = poller.index
    BY <1>2, <1>3, <1>4
  <2>3. \A d \in CoinSet : d # c => Passed(d)' = Passed(d)
    BY <1>1, <2>1 DEF Passed
  <2>4. Passed(c) = poller.index - l
    BY <1>0, <1>2, <2>1 DEF Passed
  <2>5. Passed(c)' = poller'.index - Len(poller'.batch)
    BY <1>2, <2>1 DEF Passed
  <2> QED BY <1>4, <2>1, <2>2, <2>3, <2>4, <2>5
<1>8. MockInv'
  BY <1>1, <1>4, <1>7 DEF FeedInv, MockInv, Served
<1>9. PollInv'
  <2>1. ASSUME NEW i \in 1 .. l - 1
        PROVE  poller'.batch[i] = [coin |-> c, n |-> poller.index - (l - 1) + i]
    <3>1. i \in Int /\ 1 <= i /\ i <= l - 1
      BY <1>5
    <3>2. i + 1 \in 1 .. l /\ poller.index - l + (i + 1) = poller.index - (l - 1) + i
      BY <1>5, <3>1
    <3> QED BY <1>2, <1>3, <1>4, <3>2
  <2>2. l - 1 <= poller.index
    BY <1>2, <1>3
  <2> QED BY <1>1, <1>2, <1>4, <2>1, <2>2 DEF PollInv
<1>10. CASE StopExecution(control.current + 1)
  <2>1. control'.pc = "closed"
    BY <1>10, <1>5a
  <2>2. HandInv'
    BY <1>5, <2>1 DEF HandInv
  <2>3. SeenInv'
    BY <1>1, <2>1 DEF FeedInv, SeenInv, InOrder
  <2> QED BY <1>6, <1>8, <1>9, <2>2, <2>3 DEF FeedInv
<1>11. CASE ~ StopExecution(control.current + 1)
  <2>1. /\ control'.pc = "output" /\ control'.trade \in Trade
        /\ control'.trade.coin = c /\ control'.trade.n = poller.index - l + 1
    <3>1. control'.pc = "output" /\ control'.trade = poller.batch[1]
      BY <1>3, <1>11, <1>5a
    <3>2. poller.batch[1] = [coin |-> c, n |-> poller.index - l + 1]
      <4>1. 1 \in 1 .. l
        BY <1>3
      <4> QED BY <1>2, <4>1
    <3> QED BY <1>3, <3>1, <3>2
  <2>2. HandInv'
    <3>1. control.trade.n' = Passed(control.trade.coin)'
      BY <1>7, <2>1
    <3> QED BY <1>5, <2>1, <3>1 DEF HandInv
  <2>3. \A d \in CoinSet : Arrived(d)' = Arrived(d)
    <3>1. \A d \in CoinSet : ~ Flight(d) /\ (Flight(d)' <=> d = c)
      BY <1>1, <2>1 DEF Flight
    <3>2. (poller.index - l + 1) - 1 = poller.index - l
      BY <1>2, <1>3
    <3>3. ASSUME NEW d \in CoinSet PROVE Arrived(d)' = Arrived(d)
      <4>1. CASE d = c
        <5>1. Arrived(d) = poller.index - l /\ Arrived(d)' = Passed(d)' - 1
          BY <1>7, <3>1, <4>1 DEF Arrived
        <5> QED BY <1>7, <3>2, <4>1, <5>1
      <4>2. CASE d # c
        BY <1>7, <3>1, <4>2 DEF Arrived
      <4> QED BY <4>1, <4>2
    <3> QED BY <3>3
  <2>4. SeenInv'
    BY <1>1, <2>3 DEF FeedInv, SeenInv, InOrder, Got
  <2> QED BY <1>6, <1>8, <1>9, <2>2, <2>4 DEF FeedInv
<1> QED BY <1>10, <1>11

\* What a step leaves alone that only moves the trade in flight.
LEMMA HandStep ==
  ASSUME FeedInv, UNCHANGED <<source, market, since, poller>>
  PROVE  /\ MarketOK' /\ MockInv' /\ PollInv'
         /\ \A c \in CoinSet : Passed(c)' = Passed(c)
BY DEF FeedInv, MarketOK, MockInv, PollInv, Passed, Polling, Served

\* The file a trade is stored in, whatever is written to it.
LEMMA FilesOK ==
  ASSUME \A k \in DOMAIN files : <<k[1], k[2]>> \in Buckets /\ k[3] \in 1 .. run,
         run \in 1 .. MaxRuns, NEW t \in Trade, NEW r,
         files' = Store(files, FileOf(t), r)
  PROVE  \A k \in DOMAIN files' : <<k[1], k[2]>> \in Buckets /\ k[3] \in 1 .. run
<1>1. DOMAIN files' = DOMAIN files \cup {FileOf(t)}
  BY Stores
<1>2. /\ FileOf(t)[1] = t.coin /\ FileOf(t)[2] = Key(t) /\ FileOf(t)[3] = run
      /\ <<t.coin, Key(t)>> \in Buckets
  BY DEF FileOf, Buckets
<1>3. run \in 1 .. run
  BY Constants
<1> QED BY <1>1, <1>2, <1>3

LEMMA HistoryInv ==
  ASSUME FeedInv, HistoryTake \/ HistoryAdd \/ HistoryAddFailed \/ HistoryClose
  PROVE  FeedInv'
<1>0. /\ UNCHANGED <<source, market, since, poller, trades, run, seen>>
      /\ HandsOK /\ DiskOK /\ HandInv /\ SeenInv
  BY DEF HistoryTake, HistoryAdd, HistoryAddFailed, HistoryClose, FeedInv
<1>1. /\ MarketOK' /\ MockInv' /\ PollInv'
      /\ \A c \in CoinSet : Passed(c)' = Passed(c)
  BY <1>0, HandStep
<1>2. CASE HistoryTake
  <2>1. /\ control.pc = "output" /\ history' = [pc |-> "add", trade |-> control.trade]
        /\ control' = [control EXCEPT !.pc = "process", !.trade = None]
        /\ control.trade \in Trade /\ control.trade.n = Passed(control.trade.coin)
        /\ UNCHANGED <<files, faults, unstored>>
    BY <1>0, <1>2 DEF HistoryTake, HandInv
  <2>2. HandsOK' /\ DiskOK'
    BY <1>0, <2>1 DEF HandsOK, DiskOK, Position
  <2>3. control'.pc = "process"
    BY <1>0, <2>1 DEF HandsOK
  <2>4. HandInv'
    BY <1>1, <2>1, <2>3, Trades DEF HandInv
  <2>5. \A c \in CoinSet : (Flight(c)' <=> Flight(c)) /\ Arrived(c)' = Arrived(c)
    BY <1>1, <2>1, <2>3 DEF Flight, Arrived
  <2>6. SeenInv'
    BY <1>0, <2>1, <2>5 DEF SeenInv, InOrder, Got
  <2> QED BY <1>1, <2>2, <2>4, <2>6 DEF FeedInv
<1>3. ASSUME history.pc = "add", history' = [history EXCEPT !.pc = "out"], control' = control
      PROVE  HandInv' /\ SeenInv'
  <2>1. control.pc = "process" /\ history'.pc = "out" /\ history'.trade = history.trade
    BY <1>0, <1>3 DEF HandInv, HandsOK
  <2>2. HandInv'
    BY <1>0, <1>1, <1>3, <2>1, Trades DEF HandInv
  <2>3. \A c \in CoinSet : Arrived(c)' = Arrived(c)
    BY <1>1, <1>3, <2>1 DEF Flight, Arrived
  <2> QED BY <1>0, <1>3, <2>2, <2>3 DEF SeenInv, InOrder, Got
<1>4. CASE HistoryAdd
  <2>1. /\ history.pc = "add" /\ history' = [history EXCEPT !.pc = "out"]
        /\ files' = Store(files, FileOf(history.trade), history.trade)
        /\ UNCHANGED <<control, faults, unstored>>
    BY <1>4 DEF HistoryAdd
  <2>2. history.trade \in Trade
    BY <1>0, <2>1 DEF HandInv, HandsOK
  <2>3. HandsOK'
    BY <1>0, <2>1 DEF HandsOK
  <2>4. DiskOK'
    BY <1>0, <2>1, <2>2, FilesOK DEF DiskOK
  <2> QED BY <1>1, <1>3, <2>1, <2>3, <2>4 DEF FeedInv
<1>5. CASE HistoryAddFailed
  <2>1. /\ history.pc = "add" /\ history' = [history EXCEPT !.pc = "out"]
        /\ files' \in {files, Store(files, FileOf(history.trade), Partial)}
        /\ faults < MaxFaults /\ faults' = faults + 1
        /\ unstored' = unstored \cup {history.trade}
        /\ UNCHANGED control
    BY <1>5 DEF HistoryAddFailed
  <2>2. history.trade \in Trade
    BY <1>0, <2>1 DEF HandInv, HandsOK
  <2>3. HandsOK'
    BY <1>0, <2>1 DEF HandsOK
  <2>4. \A k \in DOMAIN files' : <<k[1], k[2]>> \in Buckets /\ k[3] \in 1 .. run
    BY <1>0, <2>1, <2>2, FilesOK DEF DiskOK
  <2>5. DiskOK'
    BY <1>0, <2>1, <2>2, <2>4, Constants DEF DiskOK
  <2> QED BY <1>1, <1>3, <2>1, <2>3, <2>5 DEF FeedInv
<1>6. CASE HistoryClose
  <2>1. /\ control.pc = "closed" /\ history' = [history EXCEPT !.pc = "closed"]
        /\ UNCHANGED <<control, files, faults, unstored>>
    BY <1>6 DEF HistoryClose
  <2>2. HandsOK' /\ DiskOK'
    BY <1>0, <2>1 DEF HandsOK, DiskOK
  <2>3. HandInv'
    BY <1>0, <2>1, <2>2 DEF HandInv, HandsOK
  <2>4. SeenInv'
    BY <1>0, <2>1 DEF SeenInv, InOrder
  <2> QED BY <1>1, <2>2, <2>3, <2>4 DEF FeedInv
<1> QED BY <1>2, <1>4, <1>5, <1>6

\* Between a full batch and the next, the batch stays short of FileSize.
LEMMA ConsumeInv ==
  ASSUME FeedInv, Consume
  PROVE  FeedInv'
<1>0. PICK t \in Trade : t = history.trade
  BY DEF FeedInv, HandInv, Consume, Offered
<1>1. /\ history.pc = "out" /\ control.pc = "process" /\ seen' = Append(seen, t)
      /\ trades' = <<>> \/ (trades' = Append(trades, t) /\ ~ Full(Append(trades, t)))
      /\ history' = Fresh /\ control' = [control EXCEPT !.pc = "input"]
      /\ UNCHANGED <<source, market, since, poller, run, files, faults, unstored>>
  BY <1>0 DEF Consume, Offered
<1>2. /\ MarketOK' /\ MockInv' /\ PollInv' /\ \A c \in CoinSet : Passed(c)' = Passed(c)
      /\ HandsOK /\ DiskOK /\ HandInv /\ SeenInv /\ MarketOK /\ PollInv
  BY <1>1, HandStep DEF FeedInv
<1>3. t \in Trade /\ t.n = Passed(t.coin) /\ t.coin \in CoinSet
  BY <1>0, <1>1, <1>2, Trades DEF HandInv
<1>4. control'.pc = "input" /\ HandsOK'
  BY <1>1, <1>2 DEF HandsOK, Fresh, Position
<1>5. trades' \in Seq(Trade) /\ Len(trades') < FileSize
  <2>1. CASE trades' = <<>>
    BY <2>1, Constants
  <2>2. CASE trades' = Append(trades, t) /\ ~ Full(Append(trades, t))
    <3>1. trades' \in Seq(Trade) /\ Len(trades') \in Nat
      BY <1>2, <1>3, <2>2 DEF DiskOK
    <3> QED BY <2>2, <3>1, Constants DEF Full
  <2> QED BY <1>1, <2>1, <2>2
<1>6. DiskOK'
  BY <1>1, <1>2, <1>5 DEF DiskOK
<1>7. HandInv'
  BY <1>1, <1>4 DEF HandInv, Fresh
<1>8. /\ \A c \in CoinSet : ~ Flight(c)' /\ (Flight(c) <=> c = t.coin)
      /\ \A c \in CoinSet : Arrived(c)' = Passed(c)
      /\ Arrived(t.coin) = Passed(t.coin) - 1
      /\ \A c \in CoinSet : c # t.coin => Arrived(c) = Passed(c)
  <2>1. \A c \in CoinSet : ~ Flight(c)' /\ (Flight(c) <=> c = t.coin)
    BY <1>0, <1>1, <1>4 DEF Flight
  <2> QED BY <1>2, <1>3, <2>1 DEF Arrived
<1>9. Got(t.coin) = 1 .. t.n - 1 /\ \A c \in CoinSet : Got(c) = 1 .. Arrived(c)
  BY <1>1, <1>2, <1>3, <1>8 DEF SeenInv
<1>10. SeenInv'
  <2>1. seen' \in Seq(Trade) /\ InOrder'
    BY <1>1, <1>2, <1>3, <1>9, GotAppend, OrderAppend DEF SeenInv
  <2>2. /\ Got(t.coin)' = Got(t.coin) \cup {t.n}
        /\ \A c \in CoinSet : c # t.coin => Got(c)' = Got(c)
    BY <1>1, <1>2, <1>3, GotAppend DEF SeenInv
  <2>3. (1 .. t.n - 1) \cup {t.n} = 1 .. t.n
    BY <1>3, Trades, Constants
  <2>4. \A c \in CoinSet : Got(c)' = 1 .. Arrived(c)'
    <3>1. Got(t.coin)' = 1 .. t.n /\ Arrived(t.coin)' = Passed(t.coin) /\ t.n = Passed(t.coin)
      BY <1>3, <1>8, <1>9, <2>2, <2>3
    <3>2. ASSUME NEW c \in CoinSet, c # t.coin PROVE Got(c)' = 1 .. Arrived(c)'
      BY <1>8, <1>9, <2>2, <3>2
    <3> QED BY <3>1, <3>2
  <2> QED BY <2>1, <2>4 DEF SeenInv
<1> QED BY <1>2, <1>4, <1>6, <1>7, <1>10 DEF FeedInv

LEMMA RestartInv ==
  ASSUME FeedInv, Restart
  PROVE  FeedInv'
<1>1. /\ run < MaxRuns /\ run' = run + 1
      /\ source' = [source EXCEPT !.served = [c \in CoinSet |-> 0]]
      /\ since' = [c \in CoinSet |-> 0] /\ poller' = Idle(1) /\ history' = Fresh
      /\ control' = [control EXCEPT !.pc = "input", !.trade = None, !.current = 0]
      /\ trades' = <<>> /\ seen' = <<>>
      /\ UNCHANGED <<market, files, batches, faults, unstored>>
  BY DEF Restart
<1>2. MarketOK /\ HandsOK /\ DiskOK /\ MockInv
  BY DEF FeedInv
<1>3. 1 \in DOMAIN Coins
  BY Constants
<1>4. /\ source' = [kind |-> source.kind, served |-> [c \in CoinSet |-> 0]]
      /\ source.kind \in {"remote", "mock"}
      /\ control' = [pc |-> "input", trade |-> None, current |-> 0, limit |-> control.limit]
      /\ control.limit \in Limits
  BY <1>1, <1>2 DEF MarketOK, HandsOK
<1>5. \A c \in CoinSet : market[c] \in Nat
  BY <1>2 DEF MarketOK
<1>6. MarketOK' /\ HandsOK' /\ DiskOK'
  <2>1. MarketOK'
    <3>1. source' \in [kind : {"remote", "mock"}, served : [CoinSet -> Nat]]
      BY <1>4
    <3>2. since' \in [CoinSet -> Nat] /\ \A c \in CoinSet : since'[c] <= market[c]
      BY <1>1, <1>5
    <3> QED BY <1>1, <1>2, <3>1, <3>2 DEF MarketOK
  <2>2. HandsOK'
    BY <1>1, <1>3, <1>4, Constants DEF HandsOK, Idle, Fresh, Position
  <2>3. run' \in 1 .. MaxRuns /\ 1 .. run \subseteq 1 .. run'
    BY <1>1, <1>2, Constants DEF DiskOK
  <2>4. \A k \in DOMAIN files' : <<k[1], k[2]>> \in Buckets /\ k[3] \in 1 .. run'
    BY <1>1, <1>2, <2>3 DEF DiskOK
  <2>5. trades' \in Seq(Trade) /\ Len(trades') < FileSize
    BY <1>1, Constants
  <2>6. DiskOK'
    BY <1>1, <1>2, <2>3, <2>4, <2>5 DEF DiskOK
  <2> QED BY <2>1, <2>2, <2>6
<1>7. \A c \in CoinSet : ~ Polling(c)' /\ Passed(c)' = 0 /\ ~ Flight(c)' /\ Arrived(c)' = 0
  BY <1>1, <1>4 DEF Polling, Passed, Flight, Arrived, Idle
<1>8. MockInv'
  <2> SUFFICES ASSUME source.kind = "mock", NEW c \in CoinSet
               PROVE  market'[c] = Len(Times[c]) /\ since'[c] = Served(c)'
    BY <1>4, <1>7 DEF MockInv
  <2>1. source'.served[c] * BatchCap = 0
    BY <1>4, Constants
  <2>2. Served(c)' = 0
    BY <1>1, <1>5, <2>1 DEF Served
  <2> QED BY <1>1, <1>2, <2>2 DEF MockInv
<1>9. PollInv' /\ HandInv'
  BY <1>1, <1>4 DEF PollInv, HandInv, Idle, Fresh
<1>10. SeenInv'
  <2>1. seen' \in Seq(Trade) /\ DOMAIN seen' = {} /\ InOrder'
    BY <1>1 DEF InOrder
  <2>2. \A c \in CoinSet : Got(c)' = {}
    BY <2>1 DEF Got
  <2>3. 1 .. 0 = {}
    OBVIOUS
  <2> QED BY <1>7, <2>1, <2>2, <2>3 DEF SeenInv
<1> QED BY <1>6, <1>8, <1>9, <1>10 DEF FeedInv

LEMMA StutterInv ==
  ASSUME FeedInv, UNCHANGED vars
  PROVE  FeedInv'
<1>1. /\ UNCHANGED <<source, market, since, poller>> /\ UNCHANGED <<control, history, trades, run>>
      /\ UNCHANGED <<files, batches, faults, seen, unstored>>
  BY DEF vars, goroutines
<1>2. MarketOK' /\ MockInv' /\ PollInv' /\ \A c \in CoinSet : Passed(c)' = Passed(c)
  BY <1>1, HandStep
<1>3. HandsOK' /\ DiskOK'
  BY <1>1 DEF FeedInv, HandsOK, DiskOK
<1>4. HandInv'
  BY <1>1, <1>2, Trades DEF FeedInv, HandInv
<1>5. SeenInv'
  BY <1>1, <1>2 DEF FeedInv, SeenInv, InOrder, Got, Arrived, Flight
<1> QED BY <1>2, <1>3, <1>4, <1>5 DEF FeedInv

LEMMA NextInv == FeedInv /\ [Next]_vars => FeedInv'
BY HappensInv, PollFailedInv, PollStep, AdvanceInv, DelegateInv, HistoryInv, ConsumeInv,
   RestartInv, StutterInv DEF Next

LEMMA Invariance == Spec => []FeedInv
<1>1. Init => FeedInv
  BY InitInv
<1>2. FeedInv /\ [Next]_vars => FeedInv'
  BY NextInv
<1> QED BY <1>1, <1>2, PTL DEF Spec

-----------------------------------------------------------------------------
(* The theorems.                                                           *)

\* Types and bounds of the feed: execute never holds more trades than a response
\* has, the batch processor never more than a file takes, and every file of the
\* registry is named for a bucket of a trade and a start of the process.
THEOREM TypeCorrect == Spec => []TypeOK
<1>1. FeedInv => TypeOK
  BY TypesSplit DEF FeedInv
<1> QED BY <1>1, Invariance, PTL

\* The consumer sees the trades of a coin in order, without hole and without
\* repetition, for every number of coins, trades and restarts, from the exchange
\* and from the mock: since is moved when the last trade of a response was taken,
\* by as many trades as were taken.
THEOREM ArrivesInOrder == Spec => []InOrder
<1>1. FeedInv => InOrder
  BY DEF FeedInv, SeenInv
<1> QED BY <1>1, Invariance, PTL

-----------------------------------------------------------------------------
(* The files of the batch processor.                                       *)

\* Batch b of what was seen.
Chunk(s, b) == [i \in 1 .. FileSize |-> s[(b - 1) * FileSize + i]]

\* What was seen are the first full batches and then the trades at hand.
Filled(full, s, t, bs) ==
  /\ full \in Nat /\ Len(s) = full * FileSize + Len(t)
  /\ \A i \in 1 .. Len(t) : t[i] = s[full * FileSize + i]
  /\ \A b \in 1 .. full : /\ FileName(Chunk(s, b)) \in DOMAIN bs
                          /\ bs[FileName(Chunk(s, b))] = Chunk(s, b)

BatchInv == \E full \in Nat : Filled(full, seen, trades, batches)

LEMMA Multiples ==
  ASSUME NEW a \in Nat, NEW b \in Nat, NEW f \in Nat \ {0}
  PROVE  /\ a * f \in Nat /\ (a + 1) * f = a * f + f /\ (a - 1) * f = a * f - f
         /\ a <= b => a * f <= b * f
<1>1. a <= b => a * f <= b * f
  <2> SUFFICES ASSUME a <= b PROVE a * f <= b * f
    OBVIOUS
  <2> PICK d \in Nat : b = a + d
    <3>1. b - a \in Nat /\ b = a + (b - a)
      OBVIOUS
    <3> QED BY <3>1
  <2>1. b * f = a * f + d * f /\ d * f >= 0
    OBVIOUS
  <2> QED BY <2>1
<1> QED BY <1>1

\* How many batches are full.
LEMMA FullBatches ==
  ASSUME NEW full \in Nat, NEW f \in Nat \ {0}, NEW r \in 0 .. f - 1, NEW n, n = full * f + r
  PROVE  n \div f = full
<1> PICK d : d = n \div f
  OBVIOUS
<1>0. n \in Nat /\ full * f <= n /\ n < (full + 1) * f
  BY Multiples
<1>1. d \in Nat /\ d * f <= n /\ n < (d + 1) * f
  BY <1>0
<1>2. ~(d + 1 <= full)
  <2> SUFFICES ASSUME d + 1 <= full PROVE FALSE
    OBVIOUS
  <2>1. (d + 1) * f <= full * f
    BY <1>1, Multiples
  <2>2. (d + 1) * f \in Nat /\ full * f \in Nat
    BY <1>1, Multiples
  <2> QED BY <1>0, <1>1, <2>1, <2>2
<1>3. ~(full + 1 <= d)
  <2> SUFFICES ASSUME full + 1 <= d PROVE FALSE
    OBVIOUS
  <2>1. (full + 1) * f <= d * f
    BY <1>1, Multiples
  <2>2. (full + 1) * f \in Nat /\ d * f \in Nat
    BY <1>1, Multiples
  <2> QED BY <1>0, <1>1, <2>1, <2>2
<1> QED BY <1>1, <1>2, <1>3

\* Nothing is seen twice.
LEMMA SeenOnce ==
  ASSUME NEW s \in Seq(Trade), NEW i \in DOMAIN s, NEW j \in DOMAIN s, i < j,
         {s[k].n : k \in {l \in 1 .. j - 1 : s[l].coin = s[j].coin}} = 1 .. s[j].n - 1
  PROVE  s[i] # s[j]
<1> SUFFICES ASSUME s[i] = s[j] PROVE FALSE
  OBVIOUS
<1>1. i \in {l \in 1 .. j - 1 : s[l].coin = s[j].coin}
  OBVIOUS
<1>2. s[i].n \in 1 .. s[j].n - 1
  BY <1>1
<1>3. s[j] \in Trade
  OBVIOUS
<1>4. s[j].n \in Nat
  BY <1>3, Trades, Constants
<1> QED BY <1>2, <1>4

\* The batches before keep what they are, and the one that is full is new.
LEMMA ChunkKept ==
  ASSUME NEW s \in Seq(Trade), NEW t \in Trade, NEW b \in Nat \ {0}, b * FileSize <= Len(s)
  PROVE  Chunk(Append(s, t), b) = Chunk(s, b)
<1> PICK f \in Nat \ {0} : f = FileSize
  BY Constants
<1> PICK m \in Nat : m = (b - 1) * f /\ m + f = b * f
  BY Multiples
<1> PICK u : u = Append(s, t)
  OBVIOUS
<1>1. \A i \in 1 .. f : m + i \in 1 .. Len(s)
  OBVIOUS
<1>2. \A k \in 1 .. Len(s) : u[k] = s[k]
  OBVIOUS
<1>3. \A i \in 1 .. f : u[m + i] = s[m + i]
  BY <1>1, <1>2
<1> QED BY <1>3 DEF Chunk

LEMMA BatchConsumed ==
  ASSUME FeedInv, BatchInv, Consume, FeedInv'
  PROVE  BatchInv'
<1> PICK f \in Nat \ {0} : f = FileSize
  BY Constants
<1> PICK t \in Trade : t = history.trade
  BY DEF FeedInv, HandInv, Consume, Offered
<1> PICK full \in Nat : Filled(full, seen, trades, batches)
  BY DEF BatchInv
<1> PICK m \in Nat : m = full * f /\ (full + 1) * f = m + f
  BY Multiples
<1> PICK batch : batch = Append(trades, t)
  OBVIOUS
<1> PICK s : s = Append(seen, t)
  OBVIOUS
<1>1. /\ seen' = s /\ trades \in Seq(Trade) /\ Len(trades) < f /\ seen \in Seq(Trade)
      /\ Len(trades) \in Nat
  BY DEF Consume, FeedInv, DiskOK, SeenInv
<1>2. Len(seen) = m + Len(trades) /\ \A i \in 1 .. Len(trades) : trades[i] = seen[m + i]
  BY DEF Filled
<1>3. /\ batch \in Seq(Trade) /\ Len(batch) = Len(trades) + 1 /\ s \in Seq(Trade)
      /\ Len(s) = Len(seen) + 1 /\ s[Len(s)] = t /\ batch[Len(batch)] = t
      /\ (\A k \in 1 .. Len(seen) : s[k] = seen[k]) /\ \A k \in 1 .. Len(trades) : batch[k] = trades[k]
  BY <1>1
<1>4. Len(s) = m + Len(batch) /\ \A i \in 1 .. Len(batch) : batch[i] = s[m + i]
  <2>1. Len(s) = m + Len(batch)
    BY <1>1, <1>2, <1>3
  <2>2. ASSUME NEW i \in 1 .. Len(batch) PROVE batch[i] = s[m + i]
    <3>1. CASE i = Len(batch)
      BY <1>3, <2>1, <3>1
    <3>2. CASE i # Len(batch)
      <4>1. i \in 1 .. Len(trades) /\ m + i \in 1 .. Len(seen)
        BY <1>1, <1>2, <1>3, <3>2
      <4> QED BY <1>2, <1>3, <4>1
    <3> QED BY <3>1, <3>2
  <2> QED BY <2>1, <2>2
<1>5. ASSUME NEW b \in 1 .. full
      PROVE  /\ Chunk(s, b) = Chunk(seen, b) /\ FileName(Chunk(s, b)) \in DOMAIN batches
             /\ batches[FileName(Chunk(s, b))] = Chunk(s, b)
  <2>1. b \in Nat \ {0} /\ b * f <= full * f
    BY Multiples
  <2>2. b * FileSize <= Len(seen)
    <3> PICK p \in Nat : p = b * f
      BY Multiples
    <3>1. p <= m
      BY <2>1
    <3>2. p <= Len(seen)
      BY ONLY <1>1, <1>2, <3>1, m \in Nat, p \in Nat
    <3> QED BY <3>2
  <2>3. Chunk(s, b) = Chunk(seen, b)
    BY <1>1, <2>1, <2>2, ChunkKept
  <2> QED BY <2>3 DEF Filled
<1>6. CASE ~Full(batch)
  <2>1. trades' = batch /\ batches' = batches
    BY <1>6 DEF Consume
  <2>2. Filled(full, s, batch, batches)
    BY <1>4, <1>5 DEF Filled
  <2> QED BY <1>1, <2>1, <2>2 DEF BatchInv
<1>7. CASE Full(batch)
  <2>1. /\ trades' = <<>>
        /\ batches' = [b \in DOMAIN batches \cup {FileName(batch)} |->
                         IF b = FileName(batch) THEN batch ELSE batches[b]]
    BY <1>7 DEF Consume
  <2>2. Len(batch) = f
    BY <1>1, <1>3, <1>7 DEF Full
  <2>3. Chunk(s, full + 1) = batch
    <3>1. batch = [i \in 1 .. f |-> batch[i]]
      <4>1. batch \in Seq(Trade) /\ Len(batch) = f
        BY <1>3, <2>2
      <4>2. DOMAIN batch = 1 .. f /\ batch = [i \in DOMAIN batch |-> batch[i]]
        BY ONLY <4>1, f \in Nat \ {0}
      <4> QED BY ONLY <4>2
    <3>2. (full + 1) - 1 = full
      OBVIOUS
    <3>3. Chunk(s, full + 1) = [i \in 1 .. f |-> s[m + i]]
      BY <3>2 DEF Chunk
    <3>4. \A i \in 1 .. f : batch[i] = s[m + i]
      BY <1>4, <2>2
    <3> QED BY ONLY <3>1, <3>3, <3>4
  <2>4. ASSUME NEW b \in 1 .. full PROVE FileName(Chunk(s, b)) # FileName(batch)
    <3> PICK l \in Nat : l = (b - 1) * f /\ l + f = b * f
      BY Multiples
    <3>1. l + f <= m
      BY Multiples
    <3> PICK i, j : i = l + 1 /\ j = m + 1
      OBVIOUS
    <3>2. i \in DOMAIN s /\ j \in DOMAIN s /\ i < j
      <4>1. DOMAIN s = 1 .. Len(s) /\ Len(s) = m + Len(trades) + 1
        BY <1>1, <1>2, <1>3
      <4> QED BY ONLY <1>1, <3>1, <4>1, i = l + 1, j = m + 1, l \in Nat, m \in Nat, f \in Nat \ {0}
    <3>3. InOrder' /\ seen' = s
      BY <1>1 DEF FeedInv, SeenInv
    <3>4. {s[k].n : k \in {o \in 1 .. j - 1 : s[o].coin = s[j].coin}} = 1 .. s[j].n - 1
      <4>1. \A d \in DOMAIN s :
              {s[k].n : k \in {o \in 1 .. d - 1 : s[o].coin = s[d].coin}} = 1 .. s[d].n - 1
        <5>1. \A d \in DOMAIN seen' :
                {seen'[k].n : k \in {o \in 1 .. d - 1 : seen'[o].coin = seen'[d].coin}} = 1 .. seen'[d].n - 1
          BY ONLY <3>3 DEF InOrder
        <5>2. seen' = s
          BY <3>3
        <5> QED BY ONLY <5>1, <5>2
      <4> QED BY ONLY <3>2, <4>1
    <3>5. s[i] # s[j]
      <4>1. s \in Seq(Trade)
        BY <1>3
      <4> QED BY ONLY <3>2, <3>4, <4>1, SeenOnce
    <3>6. Chunk(s, b)[1] = s[i] /\ batch[1] = s[j]
      <4>1. 1 \in 1 .. f /\ 1 \in 1 .. Len(batch)
        BY <2>2
      <4> QED BY <1>4, <4>1 DEF Chunk
    <3> QED BY <3>5, <3>6 DEF FileName
  <2>5. Filled(full + 1, s, <<>>, batches')
    <3>1. Len(s) = (full + 1) * FileSize + Len(<<>>)
      <4>1. Len(s) = m + f
        BY <1>4, <2>2
      <4>2. (full + 1) * FileSize = m + f
        OBVIOUS
      <4> QED BY ONLY <4>1, <4>2, m \in Nat, f \in Nat
    <3>3. \A i \in 1 .. Len(<<>>) : <<>>[i] = s[(full + 1) * FileSize + i]
      OBVIOUS
    <3>4. full + 1 \in Nat
      OBVIOUS
    <3>2. ASSUME NEW b \in 1 .. full + 1
          PROVE  /\ FileName(Chunk(s, b)) \in DOMAIN batches'
                 /\ batches'[FileName(Chunk(s, b))] = Chunk(s, b)
      <4>1. CASE b = full + 1
        BY <2>1, <2>3, <4>1
      <4>2. CASE b \in 1 .. full
        BY <1>5, <2>1, <2>4, <4>2
      <4> QED BY <4>1, <4>2
    <3> QED BY ONLY <3>1, <3>2, <3>3, <3>4 DEF Filled
  <2> QED BY <1>1, <2>1, <2>5, full + 1 \in Nat DEF BatchInv
<1> QED BY <1>6, <1>7

LEMMA BatchStep ==
  ASSUME FeedInv, BatchInv, [Next]_vars, FeedInv'
  PROVE  BatchInv'
<1>1. CASE UNCHANGED <<seen, trades, batches>>
  BY <1>1 DEF BatchInv
<1>2. CASE Restart
  <2>1. seen' = <<>> /\ trades' = <<>>
    BY <1>2 DEF Restart
  <2>2. Filled(0, <<>>, <<>>, batches')
    BY Constants DEF Filled
  <2> QED BY <2>1, <2>2 DEF BatchInv
<1>3. CASE (\E c \in CoinSet : Happens(c)) \/ PollFailed \/ Poll \/ Advance \/ Delegate \/ HistoryTake
           \/ HistoryAdd \/ HistoryAddFailed \/ HistoryClose
  BY <1>1, <1>3 DEF Happens, PollFailed, Poll, Advance, Delegate, HistoryTake, HistoryAdd,
       HistoryAddFailed, HistoryClose, goroutines
<1> QED BY <1>1, <1>2, <1>3, BatchConsumed DEF Next, vars, goroutines

LEMMA BatchStart == Init => BatchInv
<1> SUFFICES ASSUME Init PROVE BatchInv
  OBVIOUS
<1>1. Filled(0, <<>>, <<>>, batches)
  BY Constants DEF Filled
<1> QED BY <1>1 DEF Init, BatchInv

\* What the batch processor wrote and what it holds are the trades of this run,
\* none between two files, none twice: a name of a file is that of its first
\* and last trade, so no later batch of the run can overwrite it.
THEOREM BatchesComplete == Spec => []BatchesExact
<1>1. FeedInv /\ BatchInv => BatchesExact
  <2> SUFFICES ASSUME FeedInv, BatchInv PROVE BatchesExact
    OBVIOUS
  <2> PICK f \in Nat \ {0} : f = FileSize
    BY Constants
  <2> PICK full \in Nat : Filled(full, seen, trades, batches)
    BY DEF BatchInv
  <2> PICK m \in Nat : m = full * f
    BY Multiples
  <2>1. /\ seen \in Seq(Trade) /\ trades \in Seq(Trade) /\ Len(trades) \in 0 .. f - 1
        /\ Len(seen) = m + Len(trades) /\ \A i \in 1 .. Len(trades) : trades[i] = seen[m + i]
    BY DEF FeedInv, DiskOK, SeenInv, Filled
  <2>2. Len(seen) \div FileSize = full
    BY <2>1, FullBatches
  <2>3. trades = SubSeq(seen, full * FileSize + 1, Len(seen))
    <3> PICK u : u = SubSeq(seen, m + 1, Len(seen))
      OBVIOUS
    <3>1. u \in Seq(Trade) /\ Len(u) = Len(trades) /\ \A i \in 1 .. Len(u) : u[i] = seen[m + i]
      BY <2>1
    <3>2. u = trades
      BY <2>1, <3>1
    <3> QED BY <3>2
  <2>4. ASSUME NEW b \in 1 .. full
        PROVE  SubSeq(seen, (b - 1) * FileSize + 1, b * FileSize) = Chunk(seen, b)
    <3> PICK l \in Nat : l = (b - 1) * f /\ l + f = b * f
      BY Multiples
    <3>1. l + f <= m
      BY Multiples
    <3> PICK u : u = SubSeq(seen, l + 1, l + f)
      OBVIOUS
    <3>2. u \in Seq(Trade) /\ Len(u) = f /\ \A i \in 1 .. f : u[i] = seen[l + i]
      <4>1. l + f <= Len(seen) /\ Len(seen) \in Nat
        <5>1. Len(trades) \in Nat /\ Len(seen) = m + Len(trades)
          BY <2>1
        <5> QED BY ONLY <3>1, <5>1, l \in Nat, f \in Nat, m \in Nat
      <4>2. l + 1 \in 1 .. Len(seen) + 1 /\ l + f \in l .. Len(seen)
        BY ONLY <4>1, l \in Nat, f \in Nat
      <4>3. (l + f) - (l + 1) + 1 = f /\ \A i \in Nat : (l + 1) + i - 1 = l + i
        BY ONLY l \in Nat, f \in Nat
      <4> QED BY ONLY <2>1, <4>1, <4>2, <4>3, l \in Nat, f \in Nat \ {0}, u = SubSeq(seen, l + 1, l + f)
    <3>3. u = [i \in 1 .. f |-> seen[l + i]]
      <4>1. DOMAIN u = 1 .. f /\ u = [i \in DOMAIN u |-> u[i]]
        BY ONLY <3>2, f \in Nat
      <4> QED BY ONLY <3>2, <4>1
    <3> QED BY <3>3 DEF Chunk
  <2> QED BY <2>2, <2>3, <2>4 DEF BatchesExact, Filled
<1>2. Init => FeedInv /\ BatchInv
  BY InitInv, BatchStart
<1>3. FeedInv /\ BatchInv /\ [Next]_vars => (FeedInv /\ BatchInv)'
  BY NextInv, BatchStep
<1> QED BY <1>1, <1>2, <1>3, PTL DEF Spec

-----------------------------------------------------------------------------
(* Walks: what is read of files, in the order of their names.              *)

\* A set of natural numbers has a smallest.
LEMMA Least ==
  ASSUME NEW T, T \subseteq Nat, T # {}
  PROVE  \E x \in T : \A y \in T : x <= y
<1> DEFINE R == {ss \in Nat \X Nat : ss[1] < ss[2]}
<1>1. IsWellFoundedOn(R, Nat)
  BY NatLessThanWellFounded, Zenon DEF OpToRel
<1> HIDE DEF R
<1>2. PICK x \in T : \A y \in T : ~(<<y, x>> \in R)
  BY <1>1, WFMin
<1>3. ASSUME NEW y \in T PROVE x <= y
  <2>1. <<y, x>> \notin R
    BY <1>2
  <2> QED BY <2>1 DEF R
<1> QED BY <1>3

\* A set of natural numbers up to n has a greatest.
LEMMA Greatest ==
  ASSUME NEW n \in Nat, NEW S, S \subseteq 0 .. n, S # {}
  PROVE  Max(S) \in S /\ \A x \in S : x <= Max(S)
<1> DEFINE T == {k \in Nat : \A x \in S : x <= k}
<1>1. n \in T
  OBVIOUS
<1>2. PICK m \in T : \A y \in T : m <= y
  BY <1>1, Least
<1>3. m \in S
  <2>1. SUFFICES ASSUME m \notin S PROVE FALSE
    OBVIOUS
  <2>2. m - 1 \in T
    <3>1. \A x \in S : x <= m /\ x # m /\ x \in Nat
      BY <1>2, <2>1
    <3>2. m # 0
      <4> PICK x \in S : TRUE
        OBVIOUS
      <4>1. x \in Nat /\ x <= m /\ x # m
        BY <3>1
      <4> QED BY ONLY <4>1
    <3>3. m - 1 \in Nat /\ \A x \in S : x <= m - 1
      BY <1>2, <3>1, <3>2
    <3> QED BY <3>3
  <2> QED BY <1>2, <2>2
<1>4. m \in S /\ \A y \in S : m >= y
  BY <1>2, <1>3
<1> QED BY <1>4 DEF Max

\* What a name holds.
Content(f, n) == IF n \in DOMAIN f THEN f[n] ELSE <<>>

\* Every name holds elements of V.
Holds(f, V) == \A n \in DOMAIN f : f[n] \in Seq(V)

IsWalk(w, f, m) ==
  w = [n \in 0 .. m |-> (IF n = 0 THEN <<>> ELSE w[n - 1]) \o Content(f, n)]

LEMMA WalkedIs ==
  ASSUME NEW f, DOMAIN f # {}
  PROVE  Walked(f) = (CHOOSE w : IsWalk(w, f, Max(DOMAIN f)))[Max(DOMAIN f)]
BY DEF Walked, IsWalk, Content

LEMMA WalkNext ==
  ASSUME NEW f, NEW m \in Nat \ {0}, NEW g, IsWalk(g, f, m - 1)
  PROVE  \E w : IsWalk(w, f, m)
<1> DEFINE w == [n \in 0 .. m |-> IF n = m THEN g[m - 1] \o Content(f, m) ELSE g[n]]
<1>0. \A n \in 0 .. m - 1 : g[n] = (IF n = 0 THEN <<>> ELSE g[n - 1]) \o Content(f, n)
  BY DEF IsWalk
<1>1. ASSUME NEW n \in 0 .. m
      PROVE  w[n] = (IF n = 0 THEN <<>> ELSE w[n - 1]) \o Content(f, n)
  <2>1. CASE n = m
    <3>1. w[n] = g[m - 1] \o Content(f, m) /\ w[n - 1] = g[m - 1] /\ n # 0
      BY <2>1
    <3> QED BY <2>1, <3>1
  <2>2. CASE n # m
    <3>1. n \in 0 .. m - 1 /\ w[n] = g[n] /\ (n # 0 => w[n - 1] = g[n - 1])
      BY <2>2
    <3> QED BY <1>0, <3>1
  <2> QED BY <2>1, <2>2
<1>2. w = [n \in 0 .. m |-> w[n]]
  OBVIOUS
<1> HIDE DEF w
<1>3. IsWalk(w, f, m)
  BY <1>1, <1>2 DEF IsWalk
<1> QED BY <1>3

LEMMA WalkExists ==
  ASSUME NEW f, NEW m \in Nat
  PROVE  \E w : IsWalk(w, f, m)
<1> DEFINE T == {k \in Nat : ~\E w : IsWalk(w, f, k)}
<1>1. SUFFICES ASSUME T # {} PROVE FALSE
  OBVIOUS
<1>2. PICK k \in T : \A y \in T : k <= y
  <2>1. T \subseteq Nat
    OBVIOUS
  <2> HIDE DEF T
  <2> QED BY <1>1, <2>1, Least
<1>3. k # 0
  <2> DEFINE w == [n \in 0 .. 0 |-> <<>> \o Content(f, n)]
  <2>1. w = [n \in 0 .. 0 |-> (IF n = 0 THEN <<>> ELSE w[n - 1]) \o Content(f, n)]
    OBVIOUS
  <2>2. IsWalk(w, f, 0)
    BY <2>1 DEF IsWalk
  <2> HIDE DEF w
  <2> QED BY <2>2
<1>4. k - 1 \notin T /\ k - 1 \in Nat
  BY <1>2, <1>3
<1>5. PICK g : IsWalk(g, f, k - 1)
  BY <1>4
<1> QED BY <1>2, <1>3, <1>5, WalkNext

LEMMA WalkAt ==
  ASSUME NEW f, NEW m \in Nat, NEW w, IsWalk(w, f, m)
  PROVE  /\ w[0] = <<>> \o Content(f, 0)
         /\ \A n \in 1 .. m : w[n] = w[n - 1] \o Content(f, n)
<1>1. \A n \in 0 .. m : w[n] = (IF n = 0 THEN <<>> ELSE w[n - 1]) \o Content(f, n)
  BY DEF IsWalk
<1>2. 0 \in 0 .. m /\ \A n \in 1 .. m : n \in 0 .. m /\ n # 0
  OBVIOUS
<1> QED BY ONLY <1>1, <1>2

LEMMA ContentTyped ==
  ASSUME NEW f, NEW V, Holds(f, V), NEW n
  PROVE  Content(f, n) \in Seq(V)
BY DEF Content, Holds

LEMMA WalkTyped ==
  ASSUME NEW f, NEW V, Holds(f, V), NEW m \in Nat, NEW w, IsWalk(w, f, m)
  PROVE  \A n \in 0 .. m : w[n] \in Seq(V)
<1> DEFINE T == {k \in 0 .. m : w[k] \notin Seq(V)}
<1>1. SUFFICES ASSUME T # {} PROVE FALSE
  OBVIOUS
<1>2. PICK k \in T : \A y \in T : k <= y
  <2>1. T \subseteq Nat
    OBVIOUS
  <2> HIDE DEF T
  <2> QED BY <1>1, <2>1, Least
<1>3. Content(f, k) \in Seq(V) /\ Content(f, 0) \in Seq(V)
  BY ContentTyped
<1>4. CASE k = 0
  BY <1>2, <1>3, <1>4, WalkAt, ConcatProperties
<1>5. CASE k # 0
  <2>1. k \in 1 .. m /\ k - 1 \in 0 .. m /\ k - 1 \notin T
    BY <1>2, <1>5
  <2>2. w[k - 1] \in Seq(V) /\ w[k] = w[k - 1] \o Content(f, k)
    BY <2>1, WalkAt
  <2>3. w[k] \in Seq(V)
    BY ONLY <1>3, <2>2, ConcatProperties
  <2>4. w[k] \notin Seq(V)
    BY <1>2
  <2> QED BY ONLY <2>3, <2>4
<1> QED BY <1>4, <1>5

\* Two walks over the same names are the same so far.
LEMMA WalkSame ==
  ASSUME NEW f, NEW g, NEW n \in Nat, NEW m \in Nat, n <= m, NEW k \in Nat, n <= k,
         NEW w, IsWalk(w, f, m), NEW v, IsWalk(v, g, k),
         \A i \in 0 .. n : Content(f, i) = Content(g, i)
  PROVE  w[n] = v[n]
<1> DEFINE T == {i \in 0 .. n : w[i] # v[i]}
<1>1. SUFFICES ASSUME T # {} PROVE FALSE
  OBVIOUS
<1>2. PICK i \in T : \A y \in T : i <= y
  <2>1. T \subseteq Nat
    OBVIOUS
  <2> HIDE DEF T
  <2> QED BY <1>1, <2>1, Least
<1>3. CASE i = 0
  BY <1>2, <1>3, WalkAt
<1>4. CASE i # 0
  <2>1. i \in 1 .. m /\ i \in 1 .. k /\ i - 1 \in 0 .. n /\ i - 1 \notin T
    BY <1>2, <1>4
  <2>2. w[i] = w[i - 1] \o Content(f, i) /\ v[i] = v[i - 1] \o Content(g, i)
    BY <2>1, WalkAt
  <2> QED BY <1>2, <2>1, <2>2
<1> QED BY <1>3, <1>4

\* Names that do not exist add nothing.
LEMMA WalkBeyond ==
  ASSUME NEW f, NEW V, Holds(f, V), NEW m \in Nat, NEW n \in 0 .. m, NEW w, IsWalk(w, f, m),
         \A i \in n + 1 .. m : Content(f, i) = <<>>
  PROVE  w[m] = w[n]
<1> DEFINE T == {i \in n .. m : w[i] # w[n]}
<1>1. SUFFICES ASSUME T # {} PROVE FALSE
  OBVIOUS
<1>2. PICK i \in T : \A y \in T : i <= y
  <2>1. T \subseteq Nat
    OBVIOUS
  <2> HIDE DEF T
  <2> QED BY <1>1, <2>1, Least
<1>3. i # n
  BY <1>2
<1>4. i \in 1 .. m /\ i \in n + 1 .. m /\ i - 1 \in n .. m /\ i - 1 \notin T /\ i - 1 \in 0 .. m
  BY <1>2, <1>3
<1>5. w[i] = w[i - 1] \o <<>>
  <2>1. w[i] = w[i - 1] \o Content(f, i)
    BY ONLY <1>4, m \in Nat, IsWalk(w, f, m), WalkAt
  <2>2. Content(f, i) = <<>>
    BY <1>4
  <2> QED BY ONLY <2>1, <2>2
<1>6. w[i - 1] \in Seq(V)
  BY <1>4, WalkTyped
<1> QED BY <1>2, <1>4, <1>5, <1>6, ConcatEmptySeq

LEMMA WalkedEmpty ==
  ASSUME NEW f, DOMAIN f = {}
  PROVE  Walked(f) = <<>>
BY DEF Walked

LEMMA WalkedAt ==
  ASSUME NEW f, NEW V, Holds(f, V), NEW b \in Nat, DOMAIN f \subseteq 0 .. b,
         NEW w, IsWalk(w, f, b)
  PROVE  Walked(f) = w[b] /\ w[b] \in Seq(V)
<1>0. w[b] \in Seq(V)
  BY WalkTyped
<1>1. CASE DOMAIN f = {}
  <2>1. \A i \in 0 .. b : Content(f, i) = <<>>
    BY <1>1 DEF Content
  <2>2. w[b] = w[0] /\ w[0] = <<>> \o <<>>
    <3>1. w[b] = w[0]
      BY <2>1, WalkBeyond
    <3> QED BY <2>1, <3>1, WalkAt
  <2>3. <<>> \o <<>> = <<>>
    BY EmptySeq, ConcatEmptySeq
  <2> QED BY <1>0, <1>1, <2>2, <2>3, WalkedEmpty
<1>2. CASE DOMAIN f # {}
  <2> PICK m : m = Max(DOMAIN f)
    OBVIOUS
  <2>1. m \in DOMAIN f /\ m \in 0 .. b /\ m \in Nat /\ \A x \in DOMAIN f : x <= m
    BY <1>2, Greatest
  <2> PICK v : v = CHOOSE u : IsWalk(u, f, m)
    OBVIOUS
  <2>2. IsWalk(v, f, m)
    BY <2>1, WalkExists
  <2>3. Walked(f) = v[m]
    BY <1>2, WalkedIs
  <2>4. v[m] = w[m]
    <3>1. m <= m /\ m <= b /\ \A i \in 0 .. m : Content(f, i) = Content(f, i)
      BY <2>1
    <3> QED BY <2>1, <2>2, <3>1, WalkSame
  <2>5. w[b] = w[m]
    <3>1. \A i \in m + 1 .. b : Content(f, i) = <<>>
      BY <2>1 DEF Content
    <3> QED BY <2>1, <3>1, WalkBeyond
  <2> QED BY <1>0, <2>3, <2>4, <2>5
<1> QED BY <1>1, <1>2

\* The last name comes last.
LEMMA WalkedLast ==
  ASSUME NEW f, NEW g, NEW V, Holds(f, V), Holds(g, V), NEW b \in Nat,
         DOMAIN f \subseteq 0 .. b, DOMAIN g \subseteq 0 .. b, Content(g, b) = <<>>,
         \A i \in 0 .. b : i # b => Content(f, i) = Content(g, i)
  PROVE  Walked(f) = Walked(g) \o Content(f, b)
<1> PICK w : IsWalk(w, f, b)
  BY WalkExists
<1> PICK v : IsWalk(v, g, b)
  BY WalkExists
<1>1. Walked(f) = w[b] /\ Walked(g) = v[b]
  BY WalkedAt
<1>2. CASE b = 0
  <2>1. w[b] = <<>> \o Content(f, b) /\ v[b] = <<>> \o <<>>
    BY <1>2, WalkAt
  <2>2. <<>> \o <<>> = <<>>
    BY EmptySeq, ConcatEmptySeq
  <2> QED BY <1>1, <2>1, <2>2
<1>3. CASE b # 0
  <2>1. b \in 1 .. b /\ b - 1 \in Nat /\ b - 1 <= b /\ b - 1 \in 0 .. b
    BY <1>3
  <2>2. w[b] = w[b - 1] \o Content(f, b) /\ v[b] = v[b - 1] \o <<>>
    <3>1. \A i \in 1 .. b : w[i] = w[i - 1] \o Content(f, i)
      BY ONLY b \in Nat, IsWalk(w, f, b), WalkAt
    <3>2. \A i \in 1 .. b : v[i] = v[i - 1] \o Content(g, i)
      BY ONLY b \in Nat, IsWalk(v, g, b), WalkAt
    <3>3. Content(g, b) = <<>>
      OBVIOUS
    <3> QED BY ONLY <2>1, <3>1, <3>2, <3>3
  <2>3. w[b - 1] = v[b - 1]
    <3>1. \A i \in 0 .. b - 1 : Content(f, i) = Content(g, i)
      OBVIOUS
    <3> QED BY <2>1, <3>1, WalkSame
  <2>4. v[b - 1] \o <<>> = v[b - 1]
    BY <2>1, WalkTyped, ConcatEmptySeq
  <2> QED BY <1>1, <2>2, <2>3, <2>4
<1> QED BY <1>2, <1>3

LEMMA ToSetConcat ==
  ASSUME NEW V, NEW s \in Seq(V), NEW t \in Seq(V)
  PROVE  ToSet(s \o t) = ToSet(s) \cup ToSet(t)
<1> PICK u : u = s \o t
  OBVIOUS
<1>1. /\ u \in Seq(V) /\ Len(u) = Len(s) + Len(t)
      /\ \A i \in 1 .. Len(s) + Len(t) : u[i] = IF i <= Len(s) THEN s[i] ELSE t[i - Len(s)]
  BY ConcatProperties
<1>2. /\ DOMAIN u = 1 .. Len(s) + Len(t) /\ DOMAIN s = 1 .. Len(s) /\ DOMAIN t = 1 .. Len(t)
      /\ Len(s) \in Nat /\ Len(t) \in Nat
  BY <1>1
<1>3. ASSUME NEW i \in DOMAIN u PROVE u[i] \in ToSet(s) \cup ToSet(t)
  <2>1. CASE i <= Len(s)
    BY <1>1, <1>2, <2>1 DEF ToSet
  <2>2. CASE ~(i <= Len(s))
    <3>1. i - Len(s) \in DOMAIN t /\ u[i] = t[i - Len(s)]
      BY <1>1, <1>2, <2>2
    <3> QED BY <3>1 DEF ToSet
  <2> QED BY <2>1, <2>2
<1>4. ASSUME NEW i \in DOMAIN s PROVE s[i] \in ToSet(u)
  <2>1. i \in DOMAIN u /\ u[i] = s[i]
    BY <1>1, <1>2
  <2> QED BY <2>1 DEF ToSet
<1>5. ASSUME NEW i \in DOMAIN t PROVE t[i] \in ToSet(u)
  <2> PICK j : j = Len(s) + i
    OBVIOUS
  <2>1. j \in 1 .. Len(s) + Len(t) /\ ~(j <= Len(s)) /\ j - Len(s) = i
    BY <1>2
  <2>2. j \in DOMAIN u /\ u[j] = t[i]
    BY <1>1, <1>2, <2>1
  <2> QED BY <2>2 DEF ToSet
<1>6. ToSet(u) \subseteq ToSet(s) \cup ToSet(t)
  BY <1>3 DEF ToSet
<1>7. ToSet(s) \subseteq ToSet(u) /\ ToSet(t) \subseteq ToSet(u)
  BY <1>4, <1>5 DEF ToSet
<1> QED BY <1>6, <1>7

\* What is read is what the names hold.
LEMMA WalkedHas ==
  ASSUME NEW f, NEW V, Holds(f, V), NEW b \in Nat, DOMAIN f \subseteq 0 .. b
  PROVE  /\ Walked(f) \in Seq(V)
         /\ ToSet(Walked(f)) = UNION {ToSet(f[n]) : n \in DOMAIN f}
<1> PICK w : IsWalk(w, f, b)
  BY WalkExists
<1>1. Walked(f) = w[b] /\ w[b] \in Seq(V)
  BY WalkedAt
<1> DEFINE T == {k \in 0 .. b : ToSet(w[k]) # UNION {ToSet(Content(f, n)) : n \in 0 .. k}}
<1>2. T = {}
  <2>1. SUFFICES ASSUME T # {} PROVE FALSE
    OBVIOUS
  <2>2. PICK k \in T : \A y \in T : k <= y
    <3>1. T \subseteq Nat
      OBVIOUS
    <3> HIDE DEF T
    <3> QED BY <2>1, <3>1, Least
  <2>3. Content(f, k) \in Seq(V) /\ Content(f, 0) \in Seq(V)
    BY ContentTyped
  <2>4. CASE k = 0
    <3>1. w[k] = Content(f, 0)
      BY <2>3, <2>4, WalkAt, ConcatEmptySeq
    <3>2. 0 .. k = {0}
      BY <2>4
    <3> QED BY <2>2, <3>1, <3>2
  <2>5. CASE k # 0
    <3>1. k \in 1 .. b /\ k - 1 \in 0 .. b /\ k - 1 \notin T /\ 0 .. k = (0 .. k - 1) \cup {k}
      BY <2>2, <2>5
    <3>2. ToSet(w[k - 1]) = UNION {ToSet(Content(f, n)) : n \in 0 .. k - 1}
      BY <3>1
    <3>3. w[k - 1] \in Seq(V) /\ w[k] = w[k - 1] \o Content(f, k)
      <4>1. \A n \in 0 .. b : w[n] \in Seq(V)
        BY WalkTyped
      <4>2. \A n \in 1 .. b : w[n] = w[n - 1] \o Content(f, n)
        BY WalkAt
      <4> QED BY ONLY <3>1, <4>1, <4>2
    <3>4. ToSet(w[k]) = ToSet(w[k - 1]) \cup ToSet(Content(f, k))
      BY <2>3, <3>3, ToSetConcat
    <3>5. ToSet(w[k]) = UNION {ToSet(Content(f, n)) : n \in 0 .. k}
      BY ONLY <3>1, <3>2, <3>4
    <3> QED BY <2>2, <3>5
  <2> QED BY <2>4, <2>5
<1>3. ToSet(w[b]) = UNION {ToSet(Content(f, n)) : n \in 0 .. b}
  BY <1>2
<1>4. \A n \in 0 .. b : ToSet(Content(f, n)) = IF n \in DOMAIN f THEN ToSet(f[n]) ELSE {}
  BY DEF Content, ToSet
<1> QED BY <1>1, <1>3, <1>4

-----------------------------------------------------------------------------
(* What is selected of a sequence.                                         *)

Chosen(s, S) == [i \in DOMAIN s |-> IF s[i] \in S THEN <<s[i]>> ELSE <<>>]

LEMMA OnlyEmpty == \A S : Only(<<>>, S) = <<>>
<1> SUFFICES ASSUME NEW S PROVE Only(<<>>, S) = <<>>
  OBVIOUS
<1>1. Only(<<>>, S) = Walked(Chosen(<<>>, S)) /\ DOMAIN Chosen(<<>>, S) = {}
  BY DEF Only, Chosen
<1> QED BY <1>1, WalkedEmpty

LEMMA ChosenHolds ==
  ASSUME NEW V, NEW s \in Seq(V), NEW S
  PROVE  /\ Only(s, S) = Walked(Chosen(s, S)) /\ Len(s) \in Nat
         /\ DOMAIN Chosen(s, S) = 1 .. Len(s) /\ DOMAIN Chosen(s, S) \subseteq 0 .. Len(s)
         /\ Holds(Chosen(s, S), S) /\ Holds(Chosen(s, S), V)
         /\ \A i \in 1 .. Len(s) : ToSet(Chosen(s, S)[i]) = {s[i]} \cap S
<1>1. Only(s, S) = Walked(Chosen(s, S))
  BY DEF Only, Chosen
<1>2. DOMAIN s = 1 .. Len(s) /\ Len(s) \in Nat /\ DOMAIN Chosen(s, S) = 1 .. Len(s)
  BY DEF Chosen
<1>3. ASSUME NEW i \in 1 .. Len(s)
      PROVE  /\ Chosen(s, S)[i] \in Seq(S) /\ Chosen(s, S)[i] \in Seq(V)
             /\ ToSet(Chosen(s, S)[i]) = {s[i]} \cap S
  <2>1. Chosen(s, S)[i] = IF s[i] \in S THEN <<s[i]>> ELSE <<>>
    BY <1>2 DEF Chosen
  <2>2. CASE s[i] \in S
    <3>1. s[i] \in V /\ Chosen(s, S)[i] = <<s[i]>>
      BY <2>1, <2>2
    <3> PICK x : x = s[i]
      OBVIOUS
    <3>2. <<x>> \in Seq(S) /\ <<x>> \in Seq(V) /\ ToSet(<<x>>) = {x}
      BY <2>2, <3>1 DEF ToSet
    <3> QED BY <2>2, <3>1, <3>2
  <2>3. CASE s[i] \notin S
    <3>1. Chosen(s, S)[i] = <<>> /\ ToSet(<<>>) = {}
      BY <2>1, <2>3 DEF ToSet
    <3> QED BY <2>3, <3>1
  <2> QED BY <2>2, <2>3
<1> QED BY <1>1, <1>2, <1>3 DEF Holds

LEMMA OnlyHas ==
  ASSUME NEW V, NEW s \in Seq(V), NEW S
  PROVE  Only(s, S) \in Seq(S) /\ ToSet(Only(s, S)) = ToSet(s) \cap S
<1> PICK f : f = Chosen(s, S)
  OBVIOUS
<1> PICK n \in Nat : n = Len(s)
  OBVIOUS
<1>1. /\ Only(s, S) = Walked(f) /\ DOMAIN f = 1 .. n /\ DOMAIN f \subseteq 0 .. n /\ Holds(f, S)
      /\ \A i \in 1 .. n : ToSet(f[i]) = {s[i]} \cap S
  <2>1. /\ Only(s, S) = Walked(Chosen(s, S)) /\ DOMAIN Chosen(s, S) = 1 .. Len(s)
        /\ DOMAIN Chosen(s, S) \subseteq 0 .. Len(s) /\ Holds(Chosen(s, S), S)
        /\ \A i \in 1 .. Len(s) : ToSet(Chosen(s, S)[i]) = {s[i]} \cap S
    BY ONLY s \in Seq(V), ChosenHolds
  <2> QED BY ONLY <2>1, f = Chosen(s, S), n = Len(s)
<1>2. Walked(f) \in Seq(S) /\ ToSet(Walked(f)) = UNION {ToSet(f[i]) : i \in DOMAIN f}
  BY <1>1, WalkedHas
<1>3. UNION {ToSet(f[i]) : i \in DOMAIN f} = ToSet(s) \cap S
  <2>1. ToSet(s) = {s[i] : i \in 1 .. n}
    BY DEF ToSet
  <2> QED BY ONLY <1>1, <2>1
<1> QED BY <1>1, <1>2, <1>3

LEMMA AppendIs ==
  ASSUME NEW V, NEW s \in Seq(V), NEW x \in V
  PROVE  s \o <<x>> = Append(s, x)
<1>1. <<x>> \in Seq(V) /\ Len(<<x>>) = 1 /\ <<x>>[1] = x
  OBVIOUS
<1> PICK t \in Seq(V) : t = <<x>>
  BY <1>1
<1> PICK u : u = s \o t
  OBVIOUS
<1> PICK v : v = Append(s, x)
  OBVIOUS
<1>2. /\ u \in Seq(V) /\ Len(u) = Len(s) + 1 /\ Len(s) \in Nat
      /\ \A i \in 1 .. Len(s) + 1 : u[i] = IF i <= Len(s) THEN s[i] ELSE t[i - Len(s)]
  BY <1>1, ConcatProperties
<1>3. /\ v \in Seq(V) /\ Len(v) = Len(s) + 1 /\ v[Len(s) + 1] = x
      /\ \A i \in 1 .. Len(s) : v[i] = s[i]
  OBVIOUS
<1>4. \A i \in 1 .. Len(u) : u[i] = v[i]
  <2> SUFFICES ASSUME NEW i \in 1 .. Len(u) PROVE u[i] = v[i]
    OBVIOUS
  <2>1. CASE i <= Len(s)
    BY <1>2, <1>3, <2>1
  <2>2. CASE ~(i <= Len(s))
    <3>1. i = Len(s) + 1 /\ i - Len(s) = 1
      BY <1>2, <2>2
    <3> QED BY <1>1, <1>2, <1>3, <2>2, <3>1
  <2> QED BY <2>1, <2>2
<1>5. u = v
  BY <1>2, <1>3, <1>4, SeqEqual
<1> QED BY <1>5

LEMMA ConcatAppend ==
  ASSUME NEW V, NEW s \in Seq(V), NEW t \in Seq(V), NEW x \in V
  PROVE  s \o Append(t, x) = Append(s \o t, x)
<1>1. <<x>> \in Seq(V)
  OBVIOUS
<1>2. Append(t, x) = t \o <<x>>
  BY AppendIs
<1>3. s \o (t \o <<x>>) = (s \o t) \o <<x>>
  BY <1>1, ConcatAssociative
<1>4. s \o t \in Seq(V)
  BY ConcatProperties
<1>5. (s \o t) \o <<x>> = Append(s \o t, x)
  BY <1>4, AppendIs
<1> QED BY <1>2, <1>3, <1>5

LEMMA OnlyAppend ==
  ASSUME NEW V, NEW s \in Seq(V), NEW e \in V, NEW S
  PROVE  Only(Append(s, e), S) = IF e \in S THEN Append(Only(s, S), e) ELSE Only(s, S)
<1>0. Append(s, e) \in Seq(V)
  OBVIOUS
<1> PICK u \in Seq(V) : u = Append(s, e)
  BY <1>0
<1> PICK n \in Nat : n = Len(s)
  OBVIOUS
<1> PICK b \in Nat : b = n + 1
  OBVIOUS
<1> PICK f : f = Chosen(u, S)
  OBVIOUS
<1> PICK g : g = Chosen(s, S)
  OBVIOUS
<1>1. Len(u) = b /\ u[b] = e /\ \A i \in 1 .. n : u[i] = s[i]
  OBVIOUS
<1>2. /\ Only(u, S) = Walked(f) /\ DOMAIN f = 1 .. b /\ DOMAIN f \subseteq 0 .. b
      /\ Holds(f, S)
  BY <1>1, ChosenHolds
<1>3. /\ Only(s, S) = Walked(g) /\ DOMAIN g = 1 .. n /\ DOMAIN g \subseteq 0 .. n /\ Holds(g, S)
  BY ChosenHolds
<1>4. DOMAIN g \subseteq 0 .. b /\ b \notin DOMAIN g /\ b \in DOMAIN f
  BY <1>2, <1>3
<1>5. Content(g, b) = <<>> /\ Content(f, b) = IF e \in S THEN <<e>> ELSE <<>>
  <2>1. DOMAIN u = 1 .. b
    BY <1>1
  <2>2. f[b] = IF e \in S THEN <<e>> ELSE <<>>
    BY <1>1, <1>4, <2>1 DEF Chosen
  <2> QED BY <1>4, <2>2 DEF Content
<1>6. \A i \in 0 .. b : i # b => Content(f, i) = Content(g, i)
  <2> SUFFICES ASSUME NEW i \in 0 .. b, i # b PROVE Content(f, i) = Content(g, i)
    OBVIOUS
  <2>1. CASE i = 0
    BY <1>2, <1>3, <2>1 DEF Content
  <2>2. CASE i # 0
    <3>1. i \in 1 .. n /\ i \in DOMAIN f /\ i \in DOMAIN g /\ u[i] = s[i]
      BY <1>1, <1>2, <1>3, <2>2
    <3>2. i \in DOMAIN u /\ i \in DOMAIN s
      BY <1>1, <3>1
    <3>3. f[i] = g[i]
      BY <3>1, <3>2 DEF Chosen
    <3> QED BY <3>1, <3>3 DEF Content
  <2> QED BY <2>1, <2>2
<1>7. Walked(f) = Walked(g) \o Content(f, b)
  BY ONLY <1>2, <1>3, <1>4, <1>5, <1>6, b \in Nat, WalkedLast
<1>8. Walked(g) \in Seq(S)
  BY <1>3, OnlyHas
<1>9. CASE e \in S
  BY <1>2, <1>3, <1>5, <1>7, <1>8, <1>9, AppendIs
<1>10. CASE e \notin S
  BY <1>2, <1>3, <1>5, <1>7, <1>8, <1>10, ConcatEmptySeq
<1> QED BY <1>9, <1>10

-----------------------------------------------------------------------------
(* What the registry holds.                                                *)

Record == Trade \cup Undecodable

\* The files of a label hold trades of its coin and time, and are not empty.
RegistryInv == \A k \in DOMAIN files :
  /\ k = <<k[1], k[2], k[3]>>
  /\ files[k] \in Seq(Record) /\ files[k] # <<>>
  /\ \A t \in ToSet(files[k]) \cap Trade : t.coin = k[1] /\ Key(t) = k[2]

Held(c, l) == [h \in Hashes(files, c, l) |-> files[<<c, l, h>>]]

LEMMA HashesAre ==
  ASSUME RegistryInv, DiskOK, NEW c, NEW l
  PROVE  /\ run \in Nat /\ Hashes(files, c, l) \subseteq 0 .. run
         /\ \A h : h \in Hashes(files, c, l) <=> <<c, l, h>> \in DOMAIN files
         /\ Holds(Held(c, l), Record) /\ DOMAIN Held(c, l) = Hashes(files, c, l)
<1>1. run \in Nat /\ \A k \in DOMAIN files : k[3] \in 0 .. run
  <2>0. run \in Nat
    <3>1. run \in 1 .. MaxRuns /\ MaxRuns \in Nat
      BY Constants DEF DiskOK
    <3> QED BY ONLY <3>1
  <2>1. run \in Nat /\ \A k \in DOMAIN files : k[3] \in 1 .. run
    BY <2>0 DEF DiskOK
  <2>2. 1 .. run \subseteq 0 .. run
    BY <2>1
  <2> QED BY <2>1, <2>2
<1>2. \A h \in Hashes(files, c, l) : h \in 0 .. run /\ <<c, l, h>> \in DOMAIN files
  <2> SUFFICES ASSUME NEW h \in Hashes(files, c, l) PROVE h \in 0 .. run /\ <<c, l, h>> \in DOMAIN files
    OBVIOUS
  <2> PICK k \in DOMAIN files : k[1] = c /\ k[2] = l /\ h = k[3]
    BY DEF Hashes
  <2>1. k = <<k[1], k[2], k[3]>>
    BY DEF RegistryInv
  <2>2. <<c, l, h>> \in DOMAIN files
    BY ONLY <2>1, k \in DOMAIN files, k[1] = c /\ k[2] = l /\ h = k[3]
  <2> QED BY <1>1, <2>2
<1>3. ASSUME NEW h, <<c, l, h>> \in DOMAIN files PROVE h \in Hashes(files, c, l)
  <2> PICK k : k = <<c, l, h>>
    OBVIOUS
  <2>1. k \in DOMAIN files /\ k[1] = c /\ k[2] = l /\ k[3] = h
    BY <1>3
  <2> QED BY <2>1 DEF Hashes
<1>4. DOMAIN Held(c, l) = Hashes(files, c, l)
  BY DEF Held
<1>5. Holds(Held(c, l), Record)
  BY <1>2, <1>4 DEF Holds, Held, RegistryInv
<1> QED BY <1>1, <1>2, <1>3, <1>4, <1>5

\* What is read of a label are the records of its files.
LEMMA RecordsHave ==
  ASSUME RegistryInv, DiskOK, NEW c, NEW l
  PROVE  /\ Records(files, c, l) \in Seq(Record)
         /\ \A r : r \in ToSet(Records(files, c, l)) <=>
                     \E k \in DOMAIN files : k[1] = c /\ k[2] = l /\ r \in ToSet(files[k])
<1> PICK f : f = Held(c, l)
  OBVIOUS
<1>1. /\ Records(files, c, l) = Walked(f) /\ run \in Nat /\ DOMAIN f \subseteq 0 .. run
      /\ Holds(f, Record) /\ DOMAIN f = Hashes(files, c, l)
  BY HashesAre DEF Records, Held
<1>2. Walked(f) \in Seq(Record) /\ ToSet(Walked(f)) = UNION {ToSet(f[h]) : h \in DOMAIN f}
  BY <1>1, WalkedHas
<1>3. \A h \in DOMAIN f : <<c, l, h>> \in DOMAIN files /\ f[h] = files[<<c, l, h>>]
  BY <1>1, HashesAre DEF Held
<1>4. ASSUME NEW r, NEW h \in DOMAIN f, r \in ToSet(f[h])
      PROVE  \E k \in DOMAIN files : k[1] = c /\ k[2] = l /\ r \in ToSet(files[k])
  <2> PICK k : k = <<c, l, h>>
    OBVIOUS
  <2>1. k \in DOMAIN files /\ k[1] = c /\ k[2] = l /\ r \in ToSet(files[k])
    BY <1>3, <1>4
  <2> QED BY <2>1
<1>5. ASSUME NEW r, NEW k \in DOMAIN files, k[1] = c, k[2] = l, r \in ToSet(files[k])
      PROVE  \E h \in DOMAIN f : r \in ToSet(f[h])
  <2>1. k = <<c, l, k[3]>>
    BY <1>5 DEF RegistryInv
  <2>2. k[3] \in DOMAIN f
    BY <1>1, <2>1, HashesAre
  <2> QED BY <1>3, <1>5, <2>1, <2>2
<1> QED BY <1>1, <1>2, <1>4, <1>5

\* What Store does to the file.
LEMMA Stored1 ==
  ASSUME RegistryInv, NEW k, NEW r \in Record
  PROVE  /\ k \notin DOMAIN files => Store(files, k, r)[k] = <<r>>
         /\ k \in DOMAIN files /\ Last(files[k]) # Partial =>
              Store(files, k, r)[k] = Append(files[k], r)
         /\ k \in DOMAIN files /\ Last(files[k]) = Partial =>
              \E g \in Seq(Record) :
                /\ files[k] = Append(g, Partial)
                /\ Store(files, k, r)[k] = Append(g, IF r = Partial THEN Partial ELSE Garbled)
         /\ \A f \in DOMAIN files \ {k} : Store(files, k, r)[f] = files[f]
<1>1. ASSUME k \in DOMAIN files, Last(files[k]) = Partial
      PROVE  \E g \in Seq(Record) :
                /\ files[k] = Append(g, Partial)
                /\ Store(files, k, r)[k] = Append(g, IF r = Partial THEN Partial ELSE Garbled)
  <2> PICK s \in Seq(Record) : s = files[k] /\ s # <<>>
    BY <1>1 DEF RegistryInv
  <2> PICK g : g = Front(s)
    OBVIOUS
  <2>1. g \in Seq(Record) /\ Append(g, s[Len(s)]) = s
    BY DEF Front
  <2>2. s[Len(s)] = Partial
    BY <1>1 DEF Last
  <2>3. Store(files, k, r)[k] = Append(g, IF r = Partial THEN Partial ELSE Garbled)
    BY <1>1 DEF Store
  <2> QED BY <2>1, <2>2, <2>3
<1>2. k \notin DOMAIN files => Store(files, k, r)[k] = <<r>>
  BY DEF Store
<1>3. k \in DOMAIN files /\ Last(files[k]) # Partial =>
        Store(files, k, r)[k] = Append(files[k], r)
  BY DEF Store
<1>4. \A f \in DOMAIN files \ {k} : Store(files, k, r)[f] = files[f]
  BY DEF Store
<1> QED BY <1>1, <1>2, <1>3, <1>4

LEMMA ToSetAppend ==
  ASSUME NEW V, NEW s \in Seq(V), NEW x \in V
  PROVE  ToSet(Append(s, x)) = ToSet(s) \cup {x}
<1>1. <<x>> \in Seq(V) /\ ToSet(<<x>>) = {x}
  BY DEF ToSet
<1>2. ToSet(s \o <<x>>) = ToSet(s) \cup ToSet(<<x>>)
  <2> PICK u : u = <<x>>
    OBVIOUS
  <2>1. u \in Seq(V)
    BY <1>1
  <2>2. ToSet(s \o u) = ToSet(s) \cup ToSet(u)
    BY ONLY <2>1, s \in Seq(V), ToSetConcat
  <2> QED BY ONLY <2>2, u = <<x>>
<1>3. Append(s, x) = s \o <<x>>
  BY AppendIs
<1> QED BY <1>1, <1>2, <1>3

\* No trade is lost from a file, and none comes but the one that is stored.
LEMMA StoredTrades ==
  ASSUME RegistryInv, NEW k, NEW r \in Record, NEW t \in Trade
  PROVE  /\ Store(files, k, r)[k] \in Seq(Record) /\ Store(files, k, r)[k] # <<>>
         /\ t \in ToSet(Store(files, k, r)[k]) =>
              (t = r \/ (k \in DOMAIN files /\ t \in ToSet(files[k])))
         /\ k \in DOMAIN files /\ t \in ToSet(files[k]) => t \in ToSet(Store(files, k, r)[k])
<1> PICK s : s = Store(files, k, r)[k]
  OBVIOUS
<1>0. Partial \in Record /\ Garbled \in Record /\ t # Partial /\ t # Garbled
  BY FeedAssumption DEF Record, Undecodable
<1>1. CASE k \notin DOMAIN files
  <2>1. s = <<r>>
    BY <1>1, Stored1
  <2>2. s \in Seq(Record) /\ s # <<>> /\ ToSet(s) = {r}
    BY <2>1 DEF ToSet
  <2> QED BY <1>1, <2>2
<1>2. CASE k \in DOMAIN files /\ Last(files[k]) # Partial
  <2>1. s = Append(files[k], r) /\ files[k] \in Seq(Record)
    BY <1>2, Stored1 DEF RegistryInv
  <2>2. s \in Seq(Record) /\ s # <<>> /\ ToSet(s) = ToSet(files[k]) \cup {r}
    BY <2>1, ToSetAppend
  <2> QED BY <1>2, <2>2
<1>3. CASE k \in DOMAIN files /\ Last(files[k]) = Partial
  <2> PICK g \in Seq(Record) :
        files[k] = Append(g, Partial) /\ s = Append(g, IF r = Partial THEN Partial ELSE Garbled)
    BY <1>3, Stored1
  <2> PICK x \in Record : s = Append(g, x) /\ x # t
    BY <1>0
  <2>1. s \in Seq(Record) /\ s # <<>> /\ ToSet(s) = ToSet(g) \cup {x}
    BY ToSetAppend
  <2>2. ToSet(files[k]) = ToSet(g) \cup {Partial}
    BY <1>0, ToSetAppend
  <2>3. x # t /\ Partial # t
    BY <1>0
  <2>4. t \in ToSet(s) <=> t \in ToSet(g)
    BY ONLY <2>1, <2>3
  <2>5. t \in ToSet(files[k]) <=> t \in ToSet(g)
    BY ONLY <2>2, <2>3
  <2>6. k \in DOMAIN files
    BY <1>3
  <2> HIDE DEF ToSet
  <2>7. s = Store(files, k, r)[k]
    OBVIOUS
  <2> QED BY ONLY <2>1, <2>4, <2>5, <2>6, <2>7
<1> QED BY <1>1, <1>2, <1>3

LEMMA RegistryStored ==
  ASSUME RegistryInv, NEW t \in Trade, NEW r \in Record, r \in Trade => r = t,
         files' = Store(files, FileOf(t), r)
  PROVE  /\ RegistryInv'
         /\ \A k \in DOMAIN files : k \in DOMAIN files'
                                    /\ ToSet(files[k]) \cap Trade \subseteq ToSet(files'[k])
<1> PICK k : k = FileOf(t)
  OBVIOUS
<1>0. k = <<t.coin, Key(t), run>> /\ k[1] = t.coin /\ k[2] = Key(t) /\ k[3] = run
  BY DEF FileOf
<1>1. DOMAIN files' = DOMAIN files \cup {k} /\ \A f \in DOMAIN files \ {k} : files'[f] = files[f]
  <2>1. files' = Store(files, k, r)
    OBVIOUS
  <2>2. DOMAIN Store(files, k, r) = DOMAIN files \cup {k}
    BY Stores
  <2>3. \A f \in DOMAIN files \ {k} : Store(files, k, r)[f] = files[f]
    BY Stored1
  <2> QED BY ONLY <2>1, <2>2, <2>3
<1>2. /\ files'[k] \in Seq(Record) /\ files'[k] # <<>>
      /\ \A u \in Trade : u \in ToSet(files'[k]) => (u = t \/ (k \in DOMAIN files /\ u \in ToSet(files[k])))
      /\ \A u \in Trade : k \in DOMAIN files /\ u \in ToSet(files[k]) => u \in ToSet(files'[k])
  BY StoredTrades
<1>3. ASSUME NEW f \in DOMAIN files'
      PROVE  /\ f = <<f[1], f[2], f[3]>> /\ files'[f] \in Seq(Record) /\ files'[f] # <<>>
             /\ \A u \in ToSet(files'[f]) \cap Trade : u.coin = f[1] /\ Key(u) = f[2]
  <2>1. CASE f = k
    <3>1. f = <<f[1], f[2], f[3]>>
      BY <1>0, <2>1
    <3>2. \A u \in ToSet(files'[f]) \cap Trade : u.coin = f[1] /\ Key(u) = f[2]
      BY <1>0, <1>2, <2>1 DEF RegistryInv
    <3> QED BY <1>2, <2>1, <3>1, <3>2
  <2>2. CASE f # k
    BY <1>1, <2>2 DEF RegistryInv
  <2> QED BY <2>1, <2>2
<1>4. RegistryInv'
  BY <1>3 DEF RegistryInv, Key, Time
<1>5. ASSUME NEW f \in DOMAIN files
      PROVE  f \in DOMAIN files' /\ ToSet(files[f]) \cap Trade \subseteq ToSet(files'[f])
  BY <1>1, <1>2
<1> QED BY <1>4, <1>5

LEMMA RegistryStep ==
  ASSUME FeedInv, RegistryInv, [Next]_vars
  PROVE  RegistryInv'
<1>1. CASE UNCHANGED files
  BY <1>1 DEF RegistryInv
<1>2. CASE HistoryAdd
  <2> PICK t \in Trade : t = history.trade /\ files' = Store(files, FileOf(t), t)
    BY <1>2 DEF FeedInv, HandInv, HandsOK, HistoryAdd
  <2> QED BY RegistryStored DEF Record
<1>3. CASE HistoryAddFailed
  <2> PICK t \in Trade : t = history.trade
    BY <1>3 DEF FeedInv, HandInv, HandsOK, HistoryAddFailed
  <2>1. files' = files \/ files' = Store(files, FileOf(t), Partial)
    BY <1>3 DEF HistoryAddFailed
  <2>2. Partial \in Record /\ Partial \notin Trade
    BY FeedAssumption DEF Record, Undecodable
  <2> QED BY <1>1, <2>1, <2>2, RegistryStored
<1>4. CASE (\E c \in CoinSet : Happens(c)) \/ PollFailed \/ Poll \/ Advance \/ Delegate \/ HistoryTake
           \/ HistoryClose \/ Consume \/ Restart
  BY <1>1, <1>4 DEF Happens, PollFailed, Poll, Advance, Delegate, HistoryTake, HistoryClose,
       Consume, Restart
<1> QED BY <1>1, <1>2, <1>3, <1>4 DEF Next, vars

LEMMA RegistryStart == Init => RegistryInv
BY DEF Init, RegistryInv, NoFiles

LEMMA RegistryAlways == Spec => [](FeedInv /\ RegistryInv)
<1>1. Init => FeedInv /\ RegistryInv
  BY InitInv, RegistryStart
<1>2. FeedInv /\ RegistryInv /\ [Next]_vars => (FeedInv /\ RegistryInv)'
  BY NextInv, RegistryStep
<1> QED BY <1>1, <1>2, PTL DEF Spec

-----------------------------------------------------------------------------
(* A trade the consumer has seen is in the registry.                       *)

OnDisk(t) == \E k \in DOMAIN files : k[1] = t.coin /\ k[2] = Key(t) /\ t \in ToSet(files[k])

Excused(t) == \E u \in unstored : u.coin = t.coin /\ Key(u) = Key(t) /\ u.n <= t.n

Secured(t) == OnDisk(t) \/ Excused(t)

\* A record of the file that was not written, of a trade that came before.
Torn(k) == \E u \in unstored :
  /\ u.coin = k[1] /\ Key(u) = k[2]
  /\ u \in ToSet(seen) \/ (history.pc = "out" /\ u = history.trade)

SeenSecured == \A i \in DOMAIN seen : Secured(seen[i])

HandSecured == history.pc = "out" => Secured(history.trade)

\* A file of this run ends in part of a record only after a failure of this run.
TornInv == \A k \in DOMAIN files : k[3] = run /\ Last(files[k]) = Partial => Torn(k)

StoredInv == SeenSecured /\ HandSecured /\ TornInv

\* Nothing a step does takes a trade from the disk.
Grown == /\ unstored \subseteq unstored'
         /\ \A k \in DOMAIN files : k \in DOMAIN files'
                                    /\ ToSet(files[k]) \cap Trade \subseteq ToSet(files'[k])

LEMMA FilesGrow ==
  ASSUME FeedInv, RegistryInv, [Next]_vars
  PROVE  Grown
<1>1. CASE UNCHANGED files /\ unstored \subseteq unstored'
  BY <1>1 DEF Grown
<1>2. CASE HistoryAdd
  <2> PICK t \in Trade : t = history.trade /\ files' = Store(files, FileOf(t), t)
    BY <1>2 DEF FeedInv, HandInv, HandsOK, HistoryAdd
  <2>1. unstored' = unstored
    BY <1>2 DEF HistoryAdd
  <2> QED BY <2>1, RegistryStored DEF Record, Grown
<1>3. CASE HistoryAddFailed
  <2> PICK t \in Trade : t = history.trade
    BY <1>3 DEF FeedInv, HandInv, HandsOK, HistoryAddFailed
  <2>1. /\ files' = files \/ files' = Store(files, FileOf(t), Partial)
        /\ unstored \subseteq unstored'
    BY <1>3 DEF HistoryAddFailed
  <2>2. Partial \in Record /\ Partial \notin Trade
    BY FeedAssumption DEF Record, Undecodable
  <2> QED BY <1>1, <2>1, <2>2, RegistryStored DEF Grown
<1>4. CASE (\E c \in CoinSet : Happens(c)) \/ PollFailed \/ Poll \/ Advance \/ Delegate \/ HistoryTake
           \/ HistoryClose \/ Consume \/ Restart
  BY <1>1, <1>4 DEF Happens, PollFailed, Poll, Advance, Delegate, HistoryTake, HistoryClose,
       Consume, Restart
<1>5. CASE UNCHANGED vars
  BY <1>1, <1>5 DEF vars
<1> QED BY <1>2, <1>3, <1>4, <1>5 DEF Next

LEMMA SecuredKept ==
  ASSUME Grown, NEW t \in Trade, Secured(t)
  PROVE  Secured(t)'
<1>1. CASE OnDisk(t)
  <2> PICK k \in DOMAIN files : k[1] = t.coin /\ k[2] = Key(t) /\ t \in ToSet(files[k])
    BY <1>1 DEF OnDisk
  <2>1. k \in DOMAIN files' /\ t \in ToSet(files'[k])
    BY DEF Grown
  <2>2. Key(t)' = Key(t)
    BY DEF Key, Time
  <2>3. OnDisk(t)'
    BY <2>1, <2>2 DEF OnDisk
  <2> QED BY <2>3 DEF Secured
<1>2. CASE Excused(t)
  BY <1>2 DEF Grown, Excused, Secured, Key, Time
<1> QED BY <1>1, <1>2 DEF Secured

\* A trade is stored, or an earlier one of its file was not.
LEMMA AddSecures ==
  ASSUME FeedInv, RegistryInv, StoredInv, HistoryAdd
  PROVE  Secured(history.trade)'
<1> PICK t \in Trade : t = history.trade /\ files' = Store(files, FileOf(t), t)
  BY DEF FeedInv, HandInv, HandsOK, HistoryAdd
<1> PICK k : k = FileOf(t)
  OBVIOUS
<1>0. k[1] = t.coin /\ k[2] = Key(t) /\ k[3] = run /\ k \in DOMAIN files'
      /\ history'.trade = t /\ unstored' = unstored /\ Key(t)' = Key(t) /\ t \in Record
  <2>1. k[1] = t.coin /\ k[2] = Key(t) /\ k[3] = run
    BY DEF FileOf
  <2>2. DOMAIN files' = DOMAIN files \cup {k}
    BY Stores
  <2>3. history'.trade = t /\ unstored' = unstored
    BY DEF HistoryAdd, FeedInv, HandsOK
  <2>4. Key(t)' = Key(t)
    BY DEF Key, Time
  <2> QED BY <2>1, <2>2, <2>3, <2>4 DEF Record
<1>1. CASE k \notin DOMAIN files \/ Last(files[k]) # Partial
  <2>1. k \notin DOMAIN files => files'[k] = <<t>>
    BY <1>0, Stored1
  <2>2. k \in DOMAIN files => files'[k] = Append(files[k], t) /\ files[k] \in Seq(Record)
    BY <1>0, <1>1, Stored1 DEF RegistryInv
  <2>3. ASSUME k \in DOMAIN files PROVE t \in ToSet(files'[k])
    <3> PICK s \in Seq(Record) : s = files[k] /\ files'[k] = Append(s, t)
      BY <2>2, <2>3
    <3>1. ToSet(Append(s, t)) = ToSet(s) \cup {t}
      BY <1>0, ToSetAppend
    <3> QED BY <3>1
  <2>4. t \in ToSet(<<t>>)
    BY DEF ToSet
  <2>5. t \in ToSet(files'[k])
    BY <2>1, <2>3, <2>4
  <2> QED BY <1>0, <2>5 DEF Secured, OnDisk
<1>2. CASE k \in DOMAIN files /\ Last(files[k]) = Partial
  <2>1. Torn(k) /\ history.pc = "add"
    BY <1>0, <1>2 DEF StoredInv, TornInv, HistoryAdd
  <2> PICK u \in unstored : u.coin = k[1] /\ Key(u) = k[2] /\ u \in ToSet(seen)
    BY <2>1 DEF Torn
  <2>5. t.coin \in CoinSet /\ t.n \in Nat
    BY Trades, Constants
  <2>6. control.pc = "process"
    BY <2>1 DEF FeedInv, HandInv, HandsOK
  <2>2. t.coin \in CoinSet /\ control.pc = "process" /\ t.n = Passed(t.coin)
        /\ Got(t.coin) = 1 .. Arrived(t.coin) /\ Flight(t.coin) /\ t.n \in Nat
    BY <2>5, <2>6 DEF FeedInv, HandInv, SeenInv, Flight
  <2>3. u.n \in 1 .. t.n - 1
    <3>1. u.n \in Got(t.coin)
      BY <1>0 DEF Got, ToSet
    <3> QED BY <2>2, <3>1 DEF Arrived
  <2>4. u.n <= t.n /\ Key(u)' = Key(u)
    BY <2>2, <2>3 DEF Key, Time
  <2> QED BY <1>0, <2>4 DEF Secured, Excused
<1> QED BY <1>1, <1>2

\* A file that is torn before a step is torn after it.
LEMMA TornKept ==
  ASSUME NEW k, Torn(k), unstored \subseteq unstored',
         \A u \in ToSet(seen) : u \in ToSet(seen'),
         history.pc = "out" =>
           (history.trade \in ToSet(seen')
            \/ (history'.pc = "out" /\ history'.trade = history.trade))
  PROVE  Torn(k)'
<1> PICK u \in unstored : /\ u.coin = k[1] /\ Key(u) = k[2]
                          /\ u \in ToSet(seen) \/ (history.pc = "out" /\ u = history.trade)
  BY DEF Torn
<1>1. Key(u)' = Key(u)
  BY DEF Key, Time
<1>2. u \in ToSet(seen') \/ (history'.pc = "out" /\ u = history'.trade)
  OBVIOUS
<1>3. u \in unstored' /\ ToSet(seen)' = ToSet(seen')
  BY DEF ToSet
<1> QED BY <1>1, <1>2, <1>3 DEF Torn

LEMMA SeenKept ==
  ASSUME FeedInv, SeenSecured, Grown, seen' = seen
  PROVE  SeenSecured'
<1>1. ASSUME NEW i \in DOMAIN seen PROVE Secured(seen[i])'
  <2> PICK x \in Trade : x = seen[i] /\ x = seen'[i]
    BY DEF FeedInv, SeenInv
  <2>1. Secured(x)'
    BY SecuredKept DEF SeenSecured
  <2> QED BY <2>1 DEF Secured, OnDisk, Excused, Key, Time
<1> QED BY <1>1 DEF SeenSecured

LEMMA LastAppend ==
  ASSUME NEW V, NEW s \in Seq(V), NEW x \in V
  PROVE  Last(Append(s, x)) = x
BY DEF Last

\* What a record does that is written whole.
LEMMA StoredAdd ==
  ASSUME FeedInv, RegistryInv, StoredInv, Grown, HistoryAdd
  PROVE  StoredInv'
<1> PICK t \in Trade : t = history.trade /\ files' = Store(files, FileOf(t), t)
  BY DEF FeedInv, HandInv, HandsOK, HistoryAdd
<1> PICK k : k = FileOf(t)
  OBVIOUS
<1>0. t \in Record /\ t # Partial
  BY FeedAssumption DEF Record, Undecodable
<1>1. /\ unstored' = unstored /\ seen' = seen /\ run' = run /\ history.pc = "add"
      /\ DOMAIN files' = DOMAIN files \cup {k}
  BY Stores DEF HistoryAdd
<1>2. SeenSecured'
  BY <1>1, SeenKept DEF StoredInv
<1>3. HandSecured'
  BY AddSecures DEF HandSecured
<1>4. ASSUME NEW f \in DOMAIN files', f[3] = run', Last(files'[f]) = Partial
      PROVE  Torn(f)'
  <2>1. CASE f # k \/ (k \in DOMAIN files /\ Last(files[k]) = Partial)
    <3>1. f \in DOMAIN files /\ Last(files[f]) = Partial
      <4>1. f # k => f \in DOMAIN files /\ files'[f] = files[f]
        BY <1>0, <1>1, Stored1
      <4> QED BY <1>4, <2>1, <4>1
    <3>2. Torn(f)
      BY <1>1, <1>4, <3>1 DEF StoredInv, TornInv
    <3>3. /\ unstored \subseteq unstored' /\ \A u \in ToSet(seen) : u \in ToSet(seen')
          /\ ~ (history.pc = "out")
      BY <1>1
    <3> HIDE DEF ToSet
    <3> QED BY <3>2, <3>3, TornKept
  <2>2. CASE k \notin DOMAIN files
    <3>1. files'[k] = <<t>>
      BY <1>0, <2>2, Stored1
    <3>2. Last(<<t>>) = t
      BY DEF Last
    <3> QED BY <1>0, <1>4, <2>1, <3>1, <3>2
  <2>3. CASE k \in DOMAIN files /\ Last(files[k]) # Partial
    <3> PICK s \in Seq(Record) : files'[k] = Append(s, t)
      BY <1>0, <2>3, Stored1 DEF RegistryInv
    <3>1. Last(files'[k]) = t
      BY <1>0, LastAppend
    <3> QED BY <1>0, <1>4, <2>1, <3>1
  <2> QED BY <2>1, <2>2, <2>3
<1> QED BY <1>2, <1>3, <1>4 DEF StoredInv, TornInv

\* What a record does that is not written, or in part.
LEMMA StoredAddFailed ==
  ASSUME FeedInv, RegistryInv, StoredInv, Grown, HistoryAddFailed
  PROVE  StoredInv'
<1> PICK t \in Trade : t = history.trade
  BY DEF FeedInv, HandInv, HandsOK, HistoryAddFailed
<1> PICK k : k = FileOf(t)
  OBVIOUS
<1>0. k[1] = t.coin /\ k[2] = Key(t) /\ Partial \in Record /\ t.n \in Nat
  BY Trades, Constants DEF FileOf, Record, Undecodable
<1>1. /\ unstored' = unstored \cup {t} /\ seen' = seen /\ run' = run /\ history.pc = "add"
      /\ history'.pc = "out" /\ history'.trade = t
      /\ files' = files \/ files' = Store(files, k, Partial)
  BY DEF HistoryAddFailed, FeedInv, HandsOK
<1>2. Key(t)' = Key(t)
  BY DEF Key, Time
<1>3. SeenSecured'
  BY <1>1, SeenKept DEF StoredInv
<1>4. HandSecured'
  <2>1. Excused(t)'
    BY <1>0, <1>1, <1>2 DEF Excused
  <2> QED BY <1>1, <2>1 DEF HandSecured, Secured, OnDisk, Excused, Key, Time
<1>5. ASSUME NEW f \in DOMAIN files', f[3] = run', Last(files'[f]) = Partial
      PROVE  Torn(f)'
  <2>1. CASE f = k
    BY <1>0, <1>1, <1>2, <2>1 DEF Torn
  <2>2. CASE f # k
    <3>1. f \in DOMAIN files /\ files'[f] = files[f]
      <4>1. CASE files' = files
        BY <4>1
      <4>2. CASE files' = Store(files, k, Partial)
        <5>1. DOMAIN files' = DOMAIN files \cup {k}
          BY <4>2, Stores
        <5>2. \A g \in DOMAIN files \ {k} : Store(files, k, Partial)[g] = files[g]
          BY <1>0, Stored1
        <5> QED BY <2>2, <4>2, <5>1, <5>2
      <4> QED BY <1>1, <4>1, <4>2
    <3>2. Torn(f)
      BY <1>1, <1>5, <3>1 DEF StoredInv, TornInv
    <3>3. /\ unstored \subseteq unstored' /\ \A u \in ToSet(seen) : u \in ToSet(seen')
          /\ ~ (history.pc = "out")
      BY <1>1
    <3> HIDE DEF ToSet
    <3> QED BY <3>2, <3>3, TornKept
  <2> QED BY <2>1, <2>2
<1> QED BY <1>3, <1>4, <1>5 DEF StoredInv, TornInv

\* What becomes of it when the consumer takes the trade.
LEMMA StoredConsume ==
  ASSUME FeedInv, StoredInv, Grown, Consume
  PROVE  StoredInv'
<1> PICK t \in Trade : t = history.trade
  BY DEF FeedInv, HandInv, Consume
<1>1. /\ seen' = Append(seen, t) /\ seen \in Seq(Trade) /\ history.pc = "out"
      /\ unstored' = unstored /\ run' = run /\ files' = files /\ history'.pc = "in"
  BY DEF Consume, Offered, Fresh, FeedInv, SeenInv
<1>2. SeenSecured'
  <2>1. ASSUME NEW i \in DOMAIN seen' PROVE Secured(seen[i])'
    <3> PICK x \in Trade : x = seen'[i] /\ Secured(x)
      BY <1>1 DEF StoredInv, SeenSecured, HandSecured
    <3>1. Secured(x)'
      BY SecuredKept
    <3> QED BY <3>1 DEF Secured, OnDisk, Excused, Key, Time
  <2> QED BY <2>1 DEF SeenSecured
<1>3. HandSecured'
  BY <1>1 DEF HandSecured
<1>4. ASSUME NEW f \in DOMAIN files', f[3] = run', Last(files'[f]) = Partial
      PROVE  Torn(f)'
  <2>1. Torn(f)
    BY <1>1, <1>4 DEF StoredInv, TornInv
  <2>2. ToSet(seen') = ToSet(seen) \cup {t}
    BY <1>1, ToSetAppend
  <2> HIDE DEF ToSet
  <2> QED BY <1>1, <2>1, <2>2, TornKept
<1> QED BY <1>2, <1>3, <1>4 DEF StoredInv, TornInv

\* A run begins with files of its own.
LEMMA StoredRestart ==
  ASSUME FeedInv, StoredInv, Grown, Restart
  PROVE  StoredInv'
<1>1. seen' = <<>> /\ history'.pc = "in" /\ run' = run + 1 /\ files' = files
  BY DEF Restart, Fresh
<1>2. SeenSecured' /\ HandSecured'
  BY <1>1 DEF SeenSecured, HandSecured
<1>3. ASSUME NEW k \in DOMAIN files' PROVE k[3] # run'
  <2>1. k[3] \in 1 .. run /\ run \in 1 .. MaxRuns /\ MaxRuns \in Nat
    BY <1>1, Constants DEF FeedInv, DiskOK
  <2> QED BY ONLY <1>1, <2>1
<1> QED BY <1>2, <1>3 DEF StoredInv, TornInv

\* The steps that neither store nor consume.
LEMMA StoredRest ==
  ASSUME FeedInv, StoredInv, Grown, UNCHANGED <<seen, files, unstored, run>>,
         history' = history \/ (history.pc = "in" /\ history'.pc \in {"add", "closed"})
  PROVE  StoredInv'
<1>1. SeenSecured'
  BY SeenKept DEF StoredInv
<1>2. HandSecured'
  <2>1. CASE history' = history /\ history.pc = "out"
    BY <2>1 DEF StoredInv, HandSecured, Secured, OnDisk, Excused, Key, Time
  <2> QED BY <2>1 DEF HandSecured
<1>3. ASSUME NEW f \in DOMAIN files', f[3] = run', Last(files'[f]) = Partial
      PROVE  Torn(f)'
  <2>1. Torn(f)
    BY <1>3 DEF StoredInv, TornInv
  <2>2. \A u \in ToSet(seen) : u \in ToSet(seen')
    OBVIOUS
  <2> HIDE DEF ToSet
  <2> QED BY <2>1, <2>2, TornKept
<1> QED BY <1>1, <1>2, <1>3 DEF StoredInv, TornInv

LEMMA StoredStep ==
  ASSUME FeedInv, RegistryInv, StoredInv, [Next]_vars
  PROVE  StoredInv'
<1>1. Grown
  BY FilesGrow
<1>2. CASE (\E c \in CoinSet : Happens(c)) \/ PollFailed \/ Poll \/ Advance \/ Delegate
           \/ HistoryTake \/ HistoryClose \/ UNCHANGED vars
  <2>1. UNCHANGED <<seen, files, unstored, run>>
    BY <1>2 DEF Happens, PollFailed, Poll, Advance, Delegate, HistoryTake, HistoryClose, vars,
         goroutines
  <2>2. history' = history \/ (history.pc = "in" /\ history'.pc \in {"add", "closed"})
    BY <1>2 DEF Happens, PollFailed, Poll, Advance, Delegate, HistoryTake, HistoryClose, vars,
         goroutines, FeedInv, HandsOK
  <2> QED BY <1>1, <2>1, <2>2, StoredRest
<1> QED BY <1>1, <1>2, StoredAdd, StoredAddFailed, StoredConsume, StoredRestart DEF Next

LEMMA StoredStart == Init => StoredInv
BY DEF Init, StoredInv, SeenSecured, HandSecured, TornInv, NoFiles, Fresh

\* A trade the consumer has seen is in the registry, also after a restart, unless its
\* record or an earlier one of the same file could not be written: History.Process
\* adds to the registry before it forwards.
THEOREM SeenIsStored == Spec => []StoredFirst
<1>1. Init => FeedInv /\ RegistryInv /\ StoredInv
  BY InitInv, RegistryStart, StoredStart
<1>2. FeedInv /\ RegistryInv /\ StoredInv /\ [Next]_vars => (FeedInv /\ RegistryInv /\ StoredInv)'
  BY NextInv, RegistryStep, StoredStep
<1>3. FeedInv /\ RegistryInv /\ StoredInv => StoredFirst
  <2> SUFFICES ASSUME FeedInv, RegistryInv, StoredInv, NEW i \in DOMAIN seen,
                      NEW kept, kept = Records(files, seen[i].coin, Key(seen[i]))
               PROVE  \/ \E j \in DOMAIN kept : kept[j] = seen[i]
                      \/ Excused(seen[i])
    BY DEF StoredFirst, GetAll, Decoded, Excused
  <2> PICK t \in Trade : t = seen[i]
    BY DEF FeedInv, SeenInv
  <2>1. Secured(t)
    BY DEF StoredInv, SeenSecured
  <2>2. CASE OnDisk(t)
    <3>1. t \in ToSet(kept)
      BY <2>2, RecordsHave DEF OnDisk, FeedInv
    <3> QED BY <3>1 DEF ToSet
  <2> QED BY <2>1, <2>2 DEF Secured
<1> QED BY <1>1, <1>2, <1>3, PTL DEF Spec

-----------------------------------------------------------------------------
(* A replay has no hole.                                                   *)

LEMMA Monotone ==
  ASSUME NEW a \in Trade, NEW b \in Trade, a.coin = b.coin, a.n < b.n
  PROVE  Time(a) < Time(b) /\ Key(a) <= Key(b) /\ Key(a) \in Nat /\ Key(b) \in Nat
         /\ Time(a) \in Nat /\ Time(b) \in Nat
<1>1. Time(a) \in Nat /\ Time(b) \in Nat /\ Time(a) < Time(b)
  <2> PICK c \in CoinSet : c = a.coin /\ c = b.coin
    BY Trades
  <2>1. a.n \in DOMAIN Times[c] /\ b.n \in DOMAIN Times[c]
    BY Trades, Constants
  <2>2. Times[c] \in Seq(Nat) /\ Times[c][a.n] < Times[c][b.n]
    BY <2>1, FeedAssumption
  <2> QED BY <2>1, <2>2 DEF Time
<1>2. \A x, y \in Nat : x < y => x \div 4 <= y \div 4 /\ x \div 4 \in Nat /\ y \div 4 \in Nat
  OBVIOUS
<1> QED BY <1>1, <1>2 DEF Key

\* The labels of a coin end with that of its last trade.
LEMMA LabelsBounded ==
  ASSUME DiskOK, NEW c \in CoinSet
  PROVE  \E b \in Nat : Labels(files, c) \subseteq 0 .. b
<1>1. \A t \in Trade : Time(t) \in Nat /\ Key(t) \in Nat /\ Key(t) <= Time(t)
  <2>1. \A t \in Trade : Time(t) \in Nat
    BY Trades, FeedAssumption DEF Time
  <2>2. \A x \in Nat : x \div 4 \in Nat /\ x \div 4 <= x
    OBVIOUS
  <2> QED BY <2>1, <2>2 DEF Key
<1>2. ASSUME NEW l \in Labels(files, c) PROVE \E t \in Trade : t.coin = c /\ Key(t) = l
  <2> PICK k \in DOMAIN files : k[1] = c /\ k[2] = l
    BY DEF Labels
  <2> PICK t \in Trade : <<k[1], k[2]>> = <<t.coin, Key(t)>>
    BY DEF DiskOK, Buckets
  <2> QED OBVIOUS
<1>3. CASE Labels(files, c) = {}
  BY <1>3
<1>4. CASE Labels(files, c) # {}
  <2> PICK m : m = Len(Times[c])
    OBVIOUS
  <2>1. m \in Nat /\ \A t \in Trade : t.coin = c => t.n \in 1 .. m
    BY Constants, Trades
  <2>2. \E t \in Trade : t.coin = c
    BY <1>2, <1>4
  <2>3. m \in 1 .. m
    BY <2>1, <2>2
  <2> PICK u \in Trade : u.coin = c /\ u.n = m
    <3> PICK u : u = [coin |-> c, n |-> m]
      OBVIOUS
    <3>1. u \in Trade /\ u.coin = c /\ u.n = m
      BY <2>3, Trades
    <3> QED BY <3>1
  <2>4. ASSUME NEW t \in Trade, t.coin = c PROVE Key(t) \in 0 .. Time(u)
    <3>1. CASE t.n = m
      BY <1>1, <2>4, <3>1, Trades
    <3>2. CASE t.n < m
      <4>1. Time(t) < Time(u)
        BY <2>4, <3>2, Monotone
      <4> QED BY <1>1, <4>1
    <3> QED BY <2>1, <2>4, <3>1, <3>2
  <2> QED BY <1>1, <1>2, <2>4
<1> QED BY <1>3, <1>4

\* What is read of the labels that are kept: the records of their files.
LEMMA GetForHas ==
  ASSUME RegistryInv, DiskOK, NEW c \in CoinSet, NEW kept
  PROVE  /\ GetFor(files, c, kept).values \in Seq(Record)
         /\ \A t \in Trade : t \in ToSet(GetFor(files, c, kept).values) <=>
              /\ t.coin = c /\ Key(t) \in kept
              /\ \E k \in DOMAIN files : k[1] = c /\ t \in ToSet(files[k])
<1> DEFINE g == [l \in Labels(files, c) \cap kept |-> Records(files, c, l)]
<1>1. PICK b \in Nat : Labels(files, c) \subseteq 0 .. b
  BY LabelsBounded
<1>2. GetFor(files, c, kept).values = Walked(g)
  BY DEF GetFor, Decoded
<1>3. /\ DOMAIN g = Labels(files, c) \cap kept /\ DOMAIN g \subseteq 0 .. b
      /\ \A l \in DOMAIN g : g[l] = Records(files, c, l)
  BY <1>1
<1> HIDE DEF g
<1>4. Holds(g, Record)
  BY <1>3, RecordsHave DEF Holds
<1>5. Walked(g) \in Seq(Record) /\ ToSet(Walked(g)) = UNION {ToSet(g[l]) : l \in DOMAIN g}
  BY <1>3, <1>4, WalkedHas
<1>6. ASSUME NEW t \in Trade
      PROVE  t \in ToSet(Walked(g)) <=>
              /\ t.coin = c /\ Key(t) \in kept
              /\ \E k \in DOMAIN files : k[1] = c /\ t \in ToSet(files[k])
  <2>1. ASSUME t \in ToSet(Walked(g))
        PROVE  /\ t.coin = c /\ Key(t) \in kept
               /\ \E k \in DOMAIN files : k[1] = c /\ t \in ToSet(files[k])
    <3> PICK l \in DOMAIN g : t \in ToSet(g[l])
      BY <1>5, <2>1
    <3>1. PICK k \in DOMAIN files : k[1] = c /\ k[2] = l /\ t \in ToSet(files[k])
      BY <1>3, RecordsHave
    <3>2. t.coin = c /\ Key(t) = l
      BY <3>1 DEF RegistryInv
    <3> QED BY <1>3, <3>1, <3>2
  <2>2. ASSUME t.coin = c, Key(t) \in kept,
               NEW k \in DOMAIN files, k[1] = c, t \in ToSet(files[k])
        PROVE  t \in ToSet(Walked(g))
    <3>1. k[2] = Key(t)
      BY <2>2 DEF RegistryInv
    <3>2. Key(t) \in DOMAIN g
      BY <1>3, <2>2, <3>1 DEF Labels
    <3>3. t \in ToSet(g[Key(t)])
      BY <1>3, <2>2, <3>1, <3>2, RecordsHave
    <3> QED BY <1>5, <3>2, <3>3
  <2> QED BY <2>1, <2>2
<1> QED BY <1>2, <1>5, <1>6

\* A replay of any request has no hole: the buckets that are kept, filtered by their
\* first hour, leave out no stored trade between two that are replayed, whatever the
\* number of runs that wrote to a bucket (Registry.GetFor and the filter of History).
THEOREM ReplayHasNoGap == Spec => []ReplayNoGap
<1>1. FeedInv /\ RegistryInv => ReplayNoGap
  <2> SUFFICES ASSUME FeedInv, RegistryInv, NEW c \in CoinSet, NEW r \in Requests,
                      NEW got, got = Replay(c, r[1], r[2]),
                      NEW f \in DOMAIN files, f[1] = c, NEW k \in DOMAIN files[f],
                      files[f][k] \notin Undecodable,
                      NEW i \in DOMAIN got, got[i].n < files[f][k].n,
                      NEW j \in DOMAIN got, files[f][k].n < got[j].n
               PROVE  \E x \in DOMAIN got : got[x] = files[f][k]
    BY DEF ReplayNoGap
  <2> DEFINE kept == {label \in Labels(files, c) : Within(r[1], r[2], label)}
             read == GetFor(files, c, kept).values
             S == {t \in Trade : r[1] < Time(t) /\ Time(t) < r[2]}
  <2> PICK t \in Trade : t = files[f][k]
    BY DEF RegistryInv, Record
  <2>1. got = Only(read, S)
    <3>1. got = IF GetFor(files, c, kept).ok THEN Only(read, S) ELSE <<>>
      BY DEF Replay
    <3>2. got # <<>>
      OBVIOUS
    <3> HIDE DEF kept, read, S
    <3> QED BY ONLY <3>1, <3>2
  <2>2. /\ read \in Seq(Record)
        /\ \A u \in Trade : u \in ToSet(read) <=>
              /\ u.coin = c /\ Key(u) \in kept
              /\ \E h \in DOMAIN files : h[1] = c /\ u \in ToSet(files[h])
    <3> HIDE DEF kept
    <3> QED BY GetForHas DEF FeedInv
  <2>3. ToSet(got) = ToSet(read) \cap S
    <3> HIDE DEF read, S
    <3> QED BY <2>1, <2>2, OnlyHas
  <2>4. /\ got[i] \in Trade /\ got[i].coin = c /\ Key(got[i]) \in kept /\ r[1] < Time(got[i])
        /\ got[j] \in Trade /\ got[j].coin = c /\ Key(got[j]) \in kept /\ Time(got[j]) < r[2]
    <3>1. got[i] \in ToSet(got) /\ got[j] \in ToSet(got)
      BY DEF ToSet
    <3> HIDE DEF kept, read
    <3> QED BY <2>2, <2>3, <3>1
  <2>5. t \in ToSet(files[f]) /\ t.coin = c /\ Key(t) = f[2]
    <3>1. t \in ToSet(files[f])
      BY DEF ToSet
    <3> QED BY <3>1 DEF RegistryInv
  <2>6. /\ Time(got[i]) < Time(t) /\ Key(got[i]) <= Key(t)
        /\ Time(t) < Time(got[j]) /\ Key(t) <= Key(got[j])
        /\ Time(t) \in Nat /\ Key(t) \in Nat
        /\ Time(got[i]) \in Nat /\ Key(got[i]) \in Nat
        /\ Time(got[j]) \in Nat /\ Key(got[j]) \in Nat
    BY <2>4, <2>5, Monotone
  <2>7. r[1] \in Nat /\ r[2] \in Nat
    BY FeedAssumption
  <2>8. t \in S
    BY <2>4, <2>6, <2>7
  <2>9. Key(t) \in kept
    <3>1. Key(t) \in Labels(files, c)
      BY <2>5 DEF Labels
    <3>2. Within(r[1], r[2], Key(t))
      BY <2>4, <2>6, <2>7 DEF Within, DeKey
    <3> QED BY <3>1, <3>2
  <2>10. t \in ToSet(got)
    <3> HIDE DEF kept, read, S
    <3> QED BY <2>2, <2>3, <2>5, <2>8, <2>9
  <2> QED BY <2>10 DEF ToSet
<1> QED BY <1>1, RegistryAlways, PTL

-----------------------------------------------------------------------------
(* The registry is a journal.                                              *)

\* What is read of a label: the trades of its records.
Reads(fs, c, l) == Only(Records(fs, c, l), Trade)

HeldIn(fs, c, l) == [h \in Hashes(fs, c, l) |-> fs[<<c, l, h>>]]

\* The other files of the label.
Others(c, l) == [h \in Hashes(files, c, l) \ {run} |-> files[<<c, l, h>>]]

Written(fs, k) == IF k \in DOMAIN fs THEN fs[k] ELSE <<>>

\* What is read of a label ends with what the file k holds.
Splits(fs, c, l, k) == \E w \in Seq(Record) :
  /\ Records(files, c, l) = w \o Written(files, k)
  /\ Records(fs, c, l) = w \o fs[k]

\* A record is stored in the last file of its label, and in no other.
LEMMA StoreHashes ==
  ASSUME RegistryInv, DiskOK, NEW t \in Trade, NEW r, NEW fs, fs = Store(files, FileOf(t), r),
         NEW c, NEW l
  PROVE  Hashes(fs, c, l) = IF c = t.coin /\ l = Key(t) THEN Hashes(files, c, l) \cup {run}
                            ELSE Hashes(files, c, l)
<1> PICK n : n = FileOf(t) /\ n[1] = t.coin /\ n[2] = Key(t) /\ n[3] = run
  BY DEF FileOf
<1>0. n[1] = t.coin /\ n[2] = Key(t) /\ n[3] = run
  OBVIOUS
<1>1. DOMAIN fs = DOMAIN files \cup {n}
  BY Stores
<1>2. \A x, h : h \in Hashes(x, c, l) <=> \E k \in DOMAIN x : k[1] = c /\ k[2] = l /\ k[3] = h
  BY DEF Hashes
<1>3. \A h : h \in Hashes(fs, c, l) <=>
         (h \in Hashes(files, c, l) \/ (c = t.coin /\ l = Key(t) /\ h = run))
  BY ONLY <1>0, <1>1, <1>2
<1> QED BY ONLY <1>3

LEMMA ReadsOther ==
  ASSUME RegistryInv, DiskOK, NEW t \in Trade, NEW r \in Record, NEW fs,
         fs = Store(files, FileOf(t), r), NEW c, NEW l, c # t.coin \/ l # Key(t)
  PROVE  Records(fs, c, l) = Records(files, c, l)
<1>1. Hashes(fs, c, l) = Hashes(files, c, l)
  BY StoreHashes
<1>2. ASSUME NEW h \in Hashes(files, c, l) PROVE fs[<<c, l, h>>] = files[<<c, l, h>>]
  <2>1. <<c, l, h>> \in DOMAIN files
    BY HashesAre
  <2>2. <<c, l, h>> # FileOf(t)
    BY DEF FileOf
  <2>3. \A f \in DOMAIN files \ {FileOf(t)} : Store(files, FileOf(t), r)[f] = files[f]
    BY Stored1
  <2> QED BY <2>1, <2>2, <2>3
<1>3. HeldIn(fs, c, l) = HeldIn(files, c, l)
  BY <1>1, <1>2 DEF HeldIn
<1> QED BY <1>3 DEF Records, HeldIn

\* The file of the run comes last.
LEMMA RecordsSplit ==
  ASSUME RegistryInv, DiskOK, NEW t \in Trade, NEW r \in Record, NEW fs,
         fs = Store(files, FileOf(t), r), NEW c, c = t.coin, NEW l, l = Key(t)
  PROVE  Splits(fs, c, l, FileOf(t))
<1> PICK k : k = FileOf(t) /\ k = <<c, l, run>>
  BY DEF FileOf
<1> PICK f : f = HeldIn(files, c, l)
  OBVIOUS
<1> PICK e : e = HeldIn(fs, c, l)
  OBVIOUS
<1> PICK g : g = Others(c, l)
  OBVIOUS
<1>1. /\ run \in Nat /\ Hashes(files, c, l) \subseteq 0 .. run
      /\ \A h : h \in Hashes(files, c, l) <=> <<c, l, h>> \in DOMAIN files
  BY HashesAre
<1>2. Hashes(fs, c, l) = Hashes(files, c, l) \cup {run}
  BY StoreHashes
<1>3. /\ DOMAIN f = Hashes(files, c, l) /\ DOMAIN e = Hashes(files, c, l) \cup {run}
      /\ DOMAIN g = Hashes(files, c, l) \ {run}
      /\ \A h \in DOMAIN f : f[h] = files[<<c, l, h>>]
      /\ \A h \in DOMAIN e : e[h] = fs[<<c, l, h>>]
      /\ \A h \in DOMAIN g : g[h] = files[<<c, l, h>>]
  BY <1>2 DEF HeldIn, Others
<1>4. fs[k] \in Seq(Record)
  <2> PICK u \in Trade : u = t
    OBVIOUS
  <2>1. Store(files, k, r)[k] \in Seq(Record)
    BY StoredTrades
  <2> QED BY <2>1
<1>5. \A h \in Hashes(files, c, l) : files[<<c, l, h>>] \in Seq(Record)
  BY <1>1 DEF RegistryInv
<1>6. ASSUME NEW h \in Hashes(files, c, l), h # run
      PROVE  fs[<<c, l, h>>] = files[<<c, l, h>>]
  <2>1. <<c, l, h>> \in DOMAIN files /\ <<c, l, h>> # k
    BY <1>1, <1>6
  <2>2. \A x \in DOMAIN files \ {k} : Store(files, k, r)[x] = files[x]
    BY Stored1
  <2> QED BY <2>1, <2>2
<1>7. Holds(f, Record) /\ Holds(g, Record)
  <2>1. \A h \in DOMAIN f : f[h] \in Seq(Record)
    BY ONLY <1>3, <1>5
  <2>2. \A h \in DOMAIN g : g[h] \in Seq(Record)
    BY ONLY <1>3, <1>5
  <2> QED BY <2>1, <2>2 DEF Holds
<1>8. Holds(e, Record)
  <2>1. ASSUME NEW h \in DOMAIN e PROVE e[h] \in Seq(Record)
    <3>1. CASE h = run
      <4>1. e[h] = fs[k]
        BY <1>3, <3>1
      <4> QED BY <1>4, <4>1
    <3>2. CASE h # run
      <4>1. h \in Hashes(files, c, l) /\ e[h] = fs[<<c, l, h>>]
        BY <1>3, <3>2
      <4> QED BY <1>5, <1>6, <3>2, <4>1
    <3> QED BY <3>1, <3>2
  <2> QED BY <2>1 DEF Holds
<1>9. /\ DOMAIN f \subseteq 0 .. run /\ DOMAIN e \subseteq 0 .. run /\ DOMAIN g \subseteq 0 .. run
  BY <1>1, <1>3
<1>10. /\ Content(g, run) = <<>>
       /\ \A i \in 0 .. run : i # run => Content(f, i) = Content(g, i)
       /\ \A i \in 0 .. run : i # run => Content(e, i) = Content(g, i)
  <2>1. Content(g, run) = <<>>
    BY ONLY <1>3 DEF Content
  <2>2. ASSUME NEW i, i # run PROVE Content(f, i) = Content(g, i) /\ Content(e, i) = Content(g, i)
    <3>1. CASE i \in Hashes(files, c, l)
      <4>1. /\ f[i] = files[<<c, l, i>>] /\ g[i] = files[<<c, l, i>>] /\ e[i] = fs[<<c, l, i>>]
            /\ i \in DOMAIN f /\ i \in DOMAIN g /\ i \in DOMAIN e
        BY ONLY <1>3, <2>2, <3>1
      <4>2. fs[<<c, l, i>>] = files[<<c, l, i>>]
        BY <1>6, <2>2, <3>1
      <4> QED BY ONLY <4>1, <4>2 DEF Content
    <3>2. CASE i \notin Hashes(files, c, l)
      BY ONLY <1>3, <2>2, <3>2 DEF Content
    <3> QED BY <3>1, <3>2
  <2> QED BY <2>1, <2>2
<1>11. Walked(f) = Walked(g) \o Content(f, run)
  BY ONLY <1>1, <1>7, <1>9, <1>10, WalkedLast
<1>12. Walked(e) = Walked(g) \o Content(e, run)
  BY ONLY <1>1, <1>7, <1>8, <1>9, <1>10, WalkedLast
<1>13. Content(f, run) = Written(files, k) /\ Content(e, run) = fs[k]
  BY <1>1, <1>3 DEF Content, Written
<1>14. Walked(g) \in Seq(Record)
  BY <1>1, <1>7, <1>9, WalkedHas
<1>15. Records(files, c, l) = Walked(f) /\ Records(fs, c, l) = Walked(e)
  BY DEF Records, HeldIn
<1> QED BY <1>11, <1>12, <1>13, <1>14, <1>15 DEF Splits

\* What is read of the label grows by the trade at its end, or does not change.
LEMMA ReadsAfter ==
  ASSUME RegistryInv, DiskOK, NEW t \in Trade, NEW r \in Record, r \in Trade => r = t, NEW fs,
         fs = Store(files, FileOf(t), r), NEW c, c = t.coin, NEW l, l = Key(t)
  PROVE  /\ Records(fs, c, l) \in Seq(Record)
         /\ Reads(fs, c, l) \in {Reads(files, c, l), Append(Reads(files, c, l), t)}
<1> PICK k : k = FileOf(t)
  OBVIOUS
<1>0. Splits(fs, c, l, FileOf(t))
  <2>1. /\ RegistryInv /\ DiskOK /\ t \in Trade /\ r \in Record /\ fs = Store(files, FileOf(t), r)
        /\ c = t.coin /\ l = Key(t)
    OBVIOUS
  <2> QED BY ONLY <2>1, RecordsSplit
<1>1. PICK w \in Seq(Record) : /\ Records(files, c, l) = w \o Written(files, k)
                               /\ Records(fs, c, l) = w \o fs[k]
  BY <1>0 DEF Splits
<1>2. Partial \in Record /\ Garbled \in Record /\ Partial \notin Trade /\ Garbled \notin Trade
  BY FeedAssumption DEF Record, Undecodable
<1>3. ASSUME NEW v \in Seq(Record), Records(files, c, l) = v, Records(fs, c, l) = Append(v, r)
      PROVE  /\ Records(fs, c, l) \in Seq(Record)
             /\ Reads(fs, c, l) \in {Reads(files, c, l), Append(Reads(files, c, l), t)}
  <2>1. Only(Append(v, r), Trade) = IF r \in Trade THEN Append(Only(v, Trade), r) ELSE Only(v, Trade)
    BY OnlyAppend
  <2>2. Append(v, r) \in Seq(Record)
    OBVIOUS
  <2> QED BY <1>3, <2>1, <2>2 DEF Reads
<1>4. CASE k \notin DOMAIN files
  <2>1. fs[k] = <<r>> /\ Written(files, k) = <<>>
    BY <1>4, Stored1 DEF Written
  <2>2. w \o <<>> = w /\ w \o <<r>> = Append(w, r)
    BY AppendIs
  <2> QED BY <1>1, <1>3, <2>1, <2>2
<1>5. CASE k \in DOMAIN files /\ Last(files[k]) # Partial
  <2> PICK s \in Seq(Record) : s = files[k]
    BY <1>5 DEF RegistryInv
  <2>1. fs[k] = Append(s, r) /\ Written(files, k) = s
    BY <1>5, Stored1 DEF Written
  <2>2. w \o Append(s, r) = Append(w \o s, r) /\ w \o s \in Seq(Record)
    BY ConcatAppend
  <2> QED BY <1>1, <1>3, <2>1, <2>2
<1>6. CASE k \in DOMAIN files /\ Last(files[k]) = Partial
  <2> PICK g \in Seq(Record) : /\ files[k] = Append(g, Partial)
                               /\ fs[k] = Append(g, IF r = Partial THEN Partial ELSE Garbled)
    BY <1>6, Stored1
  <2> PICK x \in Record : fs[k] = Append(g, x) /\ x \notin Trade
    BY <1>2
  <2>0. w \o g \in Seq(Record)
    BY ConcatAppend
  <2> PICK v \in Seq(Record) : v = w \o g
    BY <2>0
  <2>1. Records(files, c, l) = Append(v, Partial)
    BY <1>1, <1>2, <1>6, ConcatAppend DEF Written
  <2>2. Records(fs, c, l) = Append(v, x)
    BY <1>1, ConcatAppend
  <2>3. ASSUME NEW y \in Record, y \notin Trade
        PROVE  Only(Append(v, y), Trade) = Only(v, Trade)
    <3>0. v \in Seq(Record) /\ y \in Record
      OBVIOUS
    <3>1. Only(Append(v, y), Trade) = IF y \in Trade THEN Append(Only(v, Trade), y) ELSE Only(v, Trade)
      BY ONLY <3>0, OnlyAppend
    <3> QED BY ONLY <2>3, <3>1
  <2>4. Only(Append(v, Partial), Trade) = Only(v, Trade) /\ Only(Append(v, x), Trade) = Only(v, Trade)
    BY <1>2, <2>3
  <2>5. Append(v, x) \in Seq(Record)
    OBVIOUS
  <2> QED BY <2>1, <2>2, <2>4, <2>5 DEF Reads
<1> QED BY <1>4, <1>5, <1>6

\* In terms of the state: what is stored of a bucket is what reads of its label.
LEMMA StoredReads ==
  ASSUME NEW q \in Buckets, Records(files, q[1], q[2]) \in Seq(Record)
  PROVE  Stored[q] = Reads(files, q[1], q[2])
BY DEF Stored, Decodable, Reads, Record

LEMMA StoredIs ==
  ASSUME RegistryInv, DiskOK
  PROVE  /\ DOMAIN Stored = Buckets
         /\ \A q \in Buckets : Stored[q] = Reads(files, q[1], q[2]) /\ Stored[q] \in Seq(Trade)
<1>1. DOMAIN Stored = Buckets
  BY DEF Stored
<1>2. ASSUME NEW q \in Buckets
      PROVE  Stored[q] = Reads(files, q[1], q[2]) /\ Stored[q] \in Seq(Trade)
  <2>1. Records(files, q[1], q[2]) \in Seq(Record)
    BY RecordsHave
  <2>2. Stored[q] = Reads(files, q[1], q[2])
    BY <2>1, StoredReads
  <2>3. Only(Records(files, q[1], q[2]), Trade) \in Seq(Trade)
    BY <2>1, OnlyHas
  <2> QED BY <2>2, <2>3 DEF Reads
<1> QED BY <1>1, <1>2

\* The log of one bucket may have grown by one trade.
MayGrow(before, after, b, t) ==
  /\ after = [q \in Buckets |-> after[q]] /\ before = [q \in Buckets |-> before[q]]
  /\ \A q \in Buckets : before[q] \in Seq(Trade)
  /\ t \in Trade /\ b \in Buckets
  /\ after[b] \in {before[b], Append(before[b], t)}
  /\ \A q \in Buckets : q # b => after[q] = before[q]

LEMMA Grows ==
  ASSUME NEW before, NEW after, NEW b, NEW t, MayGrow(before, after, b, t)
  PROVE  after = before \/ Registered!Added(before, after)
<1> USE DEF MayGrow
<1>1. CASE after[b] = before[b]
  <2>1. \A q \in Buckets : after[q] = before[q]
    BY <1>1
  <2> QED BY <2>1
<1>2. CASE after[b] = Append(before[b], t)
  <2>1. Len(after[b]) = Len(before[b]) + 1 /\ after[b][Len(before[b]) + 1] = t
    <3> PICK s \in Seq(Trade) : s = before[b]
      OBVIOUS
    <3> QED BY <1>2
  <2>2. after = [before EXCEPT ![b] = Append(@, after[b][Len(before[b]) + 1])]
    <3>1. after[b] = Append(before[b], after[b][Len(before[b]) + 1])
      BY <1>2, <2>1
    <3>2. [before EXCEPT ![b] = Append(@, after[b][Len(before[b]) + 1])]
            = [q \in Buckets |-> IF q = b THEN after[b] ELSE before[q]]
      BY <3>1
    <3>3. \A q \in Buckets : after[q] = IF q = b THEN after[b] ELSE before[q]
      OBVIOUS
    <3> QED BY <3>2, <3>3
  <2> QED BY <2>1, <2>2 DEF Registered!Added
<1> QED BY <1>1, <1>2

LEMMA JournalStored ==
  ASSUME RegistryInv, DiskOK, NEW t \in Trade, NEW r \in Record, r \in Trade => r = t,
         files' = Store(files, FileOf(t), r)
  PROVE  Stored' = Stored \/ Registered!Added(Stored, Stored')
<1> PICK b : b = <<t.coin, Key(t)>>
  OBVIOUS
<1>0. b \in Buckets /\ b[1] = t.coin /\ b[2] = Key(t)
  BY DEF Buckets
<1>1. /\ Records(files', b[1], b[2]) \in Seq(Record)
      /\ Reads(files', b[1], b[2]) \in {Reads(files, b[1], b[2]), Append(Reads(files, b[1], b[2]), t)}
  BY <1>0, ReadsAfter
<1>2. ASSUME NEW q \in Buckets, q # b
      PROVE  Records(files', q[1], q[2]) = Records(files, q[1], q[2])
  <2>1. q[1] # t.coin \/ q[2] # Key(t)
    BY <1>0, <1>2 DEF Buckets
  <2> QED BY <2>1, ReadsOther
<1>3. Stored' = [q \in Buckets |-> Decodable[Records(files', q[1], q[2])]]
  BY DEF Stored, Decodable, Buckets, Key, Time
<1>4. /\ Stored = [q \in Buckets |-> Stored[q]] /\ Stored' = [q \in Buckets |-> Stored'[q]]
      /\ DOMAIN Stored = Buckets
  BY <1>3 DEF Stored
<1>5. \A q \in Buckets : Stored[q] = Reads(files, q[1], q[2]) /\ Stored[q] \in Seq(Trade)
  BY StoredIs
<1>6. Stored'[b] = Reads(files', b[1], b[2])
  BY <1>0, <1>1, <1>3 DEF Decodable, Reads, Record
<1>7. ASSUME NEW q \in Buckets, q # b PROVE Stored'[q] = Stored[q]
  BY <1>2, <1>3, <1>7 DEF Stored
<1>8. Stored'[b] \in {Stored[b], Append(Stored[b], t)}
  BY <1>0, <1>1, <1>5, <1>6
<1> PICK before : before = Stored
  OBVIOUS
<1> PICK after : after = Stored'
  OBVIOUS
<1>9. MayGrow(before, after, b, t)
  BY <1>0, <1>4, <1>5, <1>7, <1>8 DEF MayGrow
<1>10. after = before \/ Registered!Added(before, after)
  BY ONLY <1>9, Grows
<1> QED BY <1>10

LEMMA JournalStep ==
  ASSUME FeedInv, RegistryInv, [Next]_vars
  PROVE  Stored' = Stored \/ Registered!Added(Stored, Stored')
<1>1. CASE UNCHANGED files
  BY <1>1 DEF Stored, Decodable, Buckets, Key, Time
<1>2. CASE HistoryAdd
  <2> PICK t \in Trade : t = history.trade /\ files' = Store(files, FileOf(t), t)
    BY <1>2 DEF FeedInv, HandInv, HandsOK, HistoryAdd
  <2> QED BY JournalStored DEF Record, FeedInv
<1>3. CASE HistoryAddFailed
  <2> PICK t \in Trade : t = history.trade
    BY <1>3 DEF FeedInv, HandInv, HandsOK, HistoryAddFailed
  <2>1. files' = files \/ files' = Store(files, FileOf(t), Partial)
    BY <1>3 DEF HistoryAddFailed
  <2>2. Partial \in Record /\ Partial \notin Trade
    BY FeedAssumption DEF Record, Undecodable
  <2> QED BY <1>1, <2>1, <2>2, JournalStored DEF FeedInv
<1>4. CASE (\E c \in CoinSet : Happens(c)) \/ PollFailed \/ Poll \/ Advance \/ Delegate \/ HistoryTake
           \/ HistoryClose \/ Consume \/ Restart
  BY <1>1, <1>4 DEF Happens, PollFailed, Poll, Advance, Delegate, HistoryTake, HistoryClose,
       Consume, Restart
<1> QED BY <1>1, <1>2, <1>3, <1>4 DEF Next, vars

LEMMA JournalStart == Init => Registered!Init
<1> SUFFICES ASSUME Init PROVE Stored = [q \in Buckets |-> <<>>]
  BY DEF Registered!Init
<1>1. ASSUME NEW q \in Buckets PROVE Stored[q] = <<>>
  <2>1. Hashes(files, q[1], q[2]) = {}
    BY DEF Init, NoFiles, Hashes
  <2>2. Records(files, q[1], q[2]) = <<>>
    BY <2>1, WalkedEmpty DEF Records
  <2>3. Only(<<>>, Trade) = <<>> /\ <<>> \in Seq(Record)
    BY OnlyEmpty
  <2> QED BY <2>2, <2>3, StoredReads DEF Reads
<1> QED BY <1>1 DEF Stored

\* The registry implements the journal: whatever the runs, the failed and the partial
\* writes, what reads of a label only grows, at its end and by one trade at a time
\* (Registry.Add appends to the file of the run, Registry.GetAll reads the files of a
\* label in the order of the runs).
THEOREM RegistryIsJournal == Spec => KeepsJournal
<1>1. FeedInv /\ RegistryInv /\ [Next]_vars => [Registered!Next]_Stored
  BY JournalStep DEF Registered!Next
<1> QED BY <1>1, JournalStart, RegistryAlways, PTL DEF Spec, KeepsJournal, Registered!Spec
=============================================================================
