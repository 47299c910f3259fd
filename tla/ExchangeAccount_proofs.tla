----------------------- MODULE ExchangeAccount_proofs -----------------------
(***************************************************************************)
(* While handlers do not overlap, the book of the wallet is the account of *)
(* the exchange, up to the named events that part them.                    *)
(***************************************************************************)
EXTENDS ExchangeTrader_proofs

USE KeysAssumption, DataAssumption, NoneAssumption, NoOrderAssumption

\* An order that moved the account and is not in the book yet.
Out(g) == call[g] # None /\ call[g].live /\ call[g].stage # "closed"

\* Account and book between such an order and its commit.
Matched(o) ==
  IF o.stage = "sent" /\ o.closing
  THEN LiveOn(o.key.coin) = {o.key} /\ exposure[o.key.coin] = 0
  ELSE LiveOn(o.key.coin) = {} /\ exposure[o.key.coin] = Signed(o.type, o.volume)

AccountOf(c) ==
  /\ \A g \in Callers : Out(g) /\ call[g].key.coin = c => Matched(call[g])
  /\ (\A g \in Callers : Out(g) => call[g].key.coin # c) => Agrees(c)
  /\ \A g \in Callers :
       /\ call[g] # None /\ call[g].key.coin = c /\ ~call[g].live
       /\ call[g].stage = "sent" /\ call[g].closing
       => ~positions[call[g].key].live

Account == \A c \in Coins \ tainted : AccountOf(c)

\* A lot still to be synced that is all of its coin's exposure meets the book
\* of the snapshot.
SyncSees ==
  \A l \in sync.lots :
    /\ \A m \in sync.lots : m.coin = l.coin /\ m # l => m.part # 0 /\ l.part # 0
    /\ l.part = 0 =>
         /\ \A k \in Keys : k.coin = l.coin => positions[k] = sync.snap[k]
         /\ l.coin \notin tainted => exposure[l.coin] = Signed(l.type, l.volume)

-----------------------------------------------------------------------------
(* Facts about the book of one coin.                                       *)

LEMMA LiveOnKeys ==
  \A c : LiveOn(c) = {k \in Keys : positions[k] # None /\ k.coin = c /\ positions[k].live}
BY DEF LiveOn, On, Held

LEMMA LiveOnKeysNext ==
  \A c : LiveOn(c)' = {k \in Keys : positions'[k] # None /\ k.coin = c /\ positions'[k].live}
BY DEF LiveOn, On, Held

SameAt(k) ==
  /\ (positions'[k] = None) <=> (positions[k] = None)
  /\ positions[k] # None => /\ positions'[k].live = positions[k].live
                            /\ positions'[k].type = positions[k].type
                            /\ positions'[k].volume = positions[k].volume

LEMMA SameLive ==
  ASSUME NEW c, \A k \in Keys : k.coin = c => SameAt(k)
  PROVE  LiveOn(c)' = LiveOn(c)
BY LiveOnKeys, LiveOnKeysNext DEF SameAt

LEMMA SameAgrees ==
  ASSUME NEW c, \A k \in Keys : k.coin = c => SameAt(k), exposure'[c] = exposure[c],
         Agrees(c)
  PROVE  Agrees(c)'
<1>1. LiveOn(c)' = LiveOn(c)
  BY SameLive
<1>2. \A k \in LiveOn(c) : k \in Keys /\ k.coin = c /\ positions[k] # None
  BY LiveOnKeys
<1> QED BY <1>1, <1>2 DEF Agrees, SameAt

\* Nothing the invariant speaks of changed for a coin.
LEMMA SameAccount ==
  ASSUME TypeOK, AllServed, NEW c, AccountOf(c),
         \A k \in Keys : k.coin = c => SameAt(k),
         exposure'[c] = exposure[c], call' = call
  PROVE  AccountOf(c)'
<1>1. LiveOn(c)' = LiveOn(c)
  BY SameLive
<1>2. ASSUME NEW g \in Callers, Out(g)', call'[g].key.coin = c
      PROVE  Matched(call[g])'
  BY <1>1, <1>2 DEF AccountOf, Out, Matched
<1>3. ASSUME \A g \in Callers : Out(g)' => call'[g].key.coin # c
      PROVE  Agrees(c)'
  BY <1>3, SameAgrees DEF AccountOf, Out
<1>4. ASSUME NEW g \in Callers, call'[g] # None, call'[g].key.coin = c, ~call'[g].live,
             call'[g].stage = "sent", call'[g].closing
      PROVE  ~positions'[call'[g].key].live
  <2>1. call[g].key \in Keys /\ positions[call[g].key] # None
    BY <1>4 DEF TypeOK, Order, AllServed, Served
  <2> QED BY <1>4, <2>1 DEF AccountOf, SameAt
<1> QED BY <1>2, <1>3, <1>4 DEF AccountOf

\* With no call of the coin out, agreement is all there is to it.
LEMMA AgreesAccount ==
  ASSUME NEW c, \A g \in Callers : call[g] # None => call[g].key.coin # c
  PROVE  AccountOf(c) <=> Agrees(c)
BY DEF AccountOf, Out

LEMMA AgreesAccountNext ==
  ASSUME NEW c, \A g \in Callers : call'[g] # None => call'[g].key.coin # c
  PROVE  AccountOf(c)' <=> Agrees(c)'
BY DEF AccountOf, Out

LEMMA FrameAccount ==
  ASSUME TypeOK, AllServed, Account, UNCHANGED <<positions, exposure, call>>,
         tainted \subseteq tainted'
  PROVE  Account'
<1>1. \A k \in Keys : SameAt(k)
  BY DEF SameAt
<1> QED BY <1>1, SameAccount DEF Account

-----------------------------------------------------------------------------
(* Orders on their way.                                                    *)

\* What an order is when it is sent.
Fits(o) == o.stage = "sent" /\ (o.closing <=> positions[o.key] # None) /\ Served(o)

LEMMA OrderFits ==
  ASSUME TypeOK, NEW k \in Keys, NEW t, NEW v, NEW open, NEW live, NEW gain
  PROVE  Fits(OrderFor(k, t, v, open, live, gain))
BY OrderServed DEF Fits, OrderFor

\* No call was out before, only the order is after.
LEMMA SubmitAccount ==
  ASSUME TypeOK, AllServed, Account, NEW g \in Callers, NEW o \in Order,
         \A h \in Callers : call[h] = None,
         Fits(o), Submit(g, o)
  PROVE  Account'
<1>1. o.key \in Keys /\ o.key.coin \in Coins /\ o.type \in Types /\ o.volume \in Nat \ {0}
  BY KeyFacts DEF Order
<1>2. Signed(o.type, o.volume) \in Int /\ Signed(o.type, o.volume) # 0
  BY <1>1, SignedInt
<1>3. positions' = positions /\ \A k \in Keys : SameAt(k)
  BY DEF Submit, books, SameAt
<1>4. \A c \in Coins \ tainted : Agrees(c)
  BY AgreesAccount DEF Account
<1>5. CASE Failed(o) /\ UNCHANGED call
  <2>1. tainted \subseteq tainted' /\ \A c \in Coins \ tainted' : exposure'[c] = exposure[c]
    BY <1>1, <1>5 DEF Submit, Failed, Accepted, Execute, TypeOK
  <2> QED BY <1>3, <1>5, <2>1, SameAccount DEF Account
<1>6. CASE Accepted(o) /\ call' = [call EXCEPT ![g] = o]
  <2>1. call'[g] = o /\ \A h \in Callers : h # g => call'[h] = None
    BY <1>6 DEF TypeOK
  <2> SUFFICES ASSUME NEW c \in Coins, c \notin tainted' PROVE AccountOf(c)'
    BY DEF Account
  <2>2. c \notin tainted /\ Agrees(c)
    BY <1>4 DEF Submit
  <2>3. CASE c # o.key.coin
    <3>1. exposure'[c] = exposure[c]
      BY <1>6, <2>3 DEF Accepted, Execute, TypeOK
    <3>2. Agrees(c)'
      BY <1>3, <2>2, <3>1, SameAgrees
    <3> QED BY <2>1, <2>3, <3>2, AgreesAccountNext
  <2>4. CASE c = o.key.coin
    <3>1. LiveOn(c)' = LiveOn(c)
      BY <1>3, SameLive
    <3>2. ~Splits(o)
      <4>1. call' # call
        BY <2>1
      <4> QED BY <1>1, <2>4, <4>1 DEF Submit
    <3>3. CASE ~o.live
      <4>1. Agrees(c)'
        BY <1>3, <1>6, <2>2, <3>3, SameAgrees DEF Accepted, Execute
      <4>2. o.closing => ~positions'[o.key].live
        BY <1>1, <1>3, <3>3, <3>2 DEF Splits, TypeOK, Book, Position
      <4> QED BY <2>1, <3>3, <4>1, <4>2 DEF Fits, AccountOf, Out
    <3>4. CASE o.live /\ o.closing
      <4>1. /\ positions[o.key] # None /\ positions[o.key].live
            /\ positions[o.key].type = Inv(o.type) /\ positions[o.key].volume = o.volume
        BY <1>1, <3>4, <3>2 DEF Fits, Splits, Served, TypeOK
      <4>2. LiveOn(c) = {o.key} /\ exposure[c] = Signed(Inv(o.type), o.volume)
        BY <1>1, <2>2, <2>4, <4>1, LiveOnKeys DEF Agrees
      <4>3. exposure'[c] = 0
        BY <1>1, <1>6, <2>4, <3>4, <4>2, SignedInt DEF Accepted, Execute, TypeOK
      <4>4. Matched(call[g])'
        BY <2>1, <2>4, <3>1, <3>4, <4>2, <4>3 DEF Fits, Matched
      <4> QED BY <2>1, <2>4, <3>4, <4>4 DEF Fits, AccountOf, Out
    <3>5. CASE o.live /\ ~o.closing
      <4>1. LiveOn(c) = {}
        BY <1>1, <2>4, <3>5, <3>2, LiveOnKeys DEF Fits, Splits, Beside, On, Held
      <4>2. exposure[c] = 0
        BY <2>2, <4>1 DEF Agrees
      <4>3. exposure'[c] = Signed(o.type, o.volume)
        BY <1>1, <1>2, <1>6, <2>4, <3>5, <4>2 DEF Accepted, Execute, TypeOK
      <4>4. Matched(call[g])'
        BY <2>1, <2>4, <3>1, <3>5, <4>1, <4>3 DEF Fits, Matched
      <4> QED BY <2>1, <2>4, <3>5, <4>4 DEF Fits, AccountOf, Out
    <3> QED BY <3>3, <3>4, <3>5
  <2> QED BY <2>3, <2>4
<1> QED BY <1>5, <1>6 DEF Submit

-----------------------------------------------------------------------------
(* Orders that reach the book.                                             *)

\* Every coin but the one of the only call: its book and account stay.
LEMMA OtherCoins ==
  ASSUME TypeOK, Account, NEW g \in Callers,
         \A h \in Callers : h # g => call[h] = None /\ call'[h] = None,
         call'[g] # None => call'[g].key = call[g].key,
         NEW c \in Coins, c \notin tainted, c # call[g].key.coin,
         \A k \in Keys : k.coin = c => SameAt(k),
         exposure'[c] = exposure[c], call[g] # None
  PROVE  AccountOf(c)'
<1>1. \A h \in Callers : call[h] # None => call[h].key.coin # c
  OBVIOUS
<1>2. \A h \in Callers : call'[h] # None => call'[h].key.coin # c
  OBVIOUS
<1>3. Agrees(c)
  BY <1>1, AgreesAccount DEF Account
<1>4. Agrees(c)'
  BY <1>3, SameAgrees
<1> QED BY <1>2, <1>4, AgreesAccountNext

\* trader.add after an order that opens.
LEMMA AddAccount ==
  ASSUME TypeOK, Account, NEW g \in Callers, call[g] # None,
         \A h \in Callers : h # g => call[h] = None,
         call' = [call EXCEPT ![g] = None],
         ~(call[g].stage = "sent" /\ call[g].closing), call[g].stage # "closed",
         positions[call[g].key] = None,
         AddBook(call[g]), UNCHANGED <<exposure, tainted>>
  PROVE  Account'
<1> DEFINE o == call[g]
           k == call[g].key
           opened == [type |-> o.type, volume |-> o.volume, live |-> o.live,
                      gain |-> 0, price |-> "order"]
<1>1. k \in Keys /\ k.coin \in Coins /\ o.type \in Types /\ o.volume \in Nat \ {0}
      /\ o.live \in BOOLEAN
  BY KeyFacts DEF TypeOK, Order
<1>2. positions' = [positions EXCEPT ![k] = opened]
  BY DEF AddBook
<1>3. opened \in Position /\ opened # None
  BY <1>1 DEF Position
<1>4. \A j \in Keys : j # k => positions'[j] = positions[j]
  BY <1>2 DEF TypeOK, Book
<1>5. positions'[k] = opened
  BY <1>1, <1>2 DEF TypeOK, Book
<1>6. \A h \in Callers : call'[h] = None
  BY DEF TypeOK
<1> SUFFICES ASSUME NEW c \in Coins, c \notin tainted PROVE AccountOf(c)'
  BY DEF Account
<1>7. AccountOf(c)
  BY DEF Account
<1>8. CASE c # k.coin
  <2>1. \A j \in Keys : j.coin = c => SameAt(j)
    BY <1>4, <1>8 DEF SameAt
  <2> QED BY <1>6, <1>8, <2>1, OtherCoins
<1>9. CASE c = k.coin
  <2>1. CASE o.live
    <3>1. LiveOn(c) = {} /\ exposure[c] = Signed(o.type, o.volume)
      BY <1>7, <1>9, <2>1 DEF AccountOf, Out, Matched
    <3>2. LiveOn(c)' = {k}
      BY <1>1, <1>3, <1>4, <1>5, <1>9, <2>1, <3>1, LiveOnKeys, LiveOnKeysNext
    <3>3. Agrees(c)'
      BY <1>5, <3>1, <3>2 DEF Agrees
    <3> QED BY <1>6, <3>3, AgreesAccountNext
  <2>2. CASE ~o.live
    <3>1. Agrees(c)
      BY <1>7, <2>2 DEF AccountOf, Out
    <3>2. LiveOn(c)' = LiveOn(c)
      <4>1. positions'[k].live = FALSE /\ positions[k] = None
        BY <1>1, <1>5, <2>2
      <4> HIDE DEF opened, o, k
      <4> QED BY <1>4, <4>1, LiveOnKeys, LiveOnKeysNext
    <3>3. \A j \in LiveOn(c) : positions'[j] = positions[j]
      BY <1>4, LiveOnKeys
    <3>4. Agrees(c)'
      BY <3>1, <3>2, <3>3 DEF Agrees
    <3> QED BY <1>6, <3>4, AgreesAccountNext
  <2> QED BY <2>1, <2>2
<1> QED BY <1>8, <1>9

LEMMA CommitCloseAccount ==
  ASSUME TypeOK, AllServed, Account, NEW g \in Callers, CommitClose(g),
         \A h \in Callers : h # g => call[h] = None
  PROVE  Account'
<1> DEFINE o == call[g]
           k == call[g].key
<1>1. call[g] # None /\ k \in Keys /\ k.coin \in Coins /\ o.stage = "sent" /\ o.closing
  BY KeyFacts DEF CommitClose, TypeOK, Order
<1>2. positions[k] # None
  BY <1>1 DEF AllServed, Served
<1>3. positions' = [positions EXCEPT ![k] = None] /\ UNCHANGED <<exposure, tainted>>
  BY <1>2 DEF CommitClose, CloseBook
<1>4. positions'[k] = None /\ \A j \in Keys : j # k => positions'[j] = positions[j]
  BY <1>1, <1>3 DEF TypeOK, Book
<1>5. /\ \A h \in Callers : h # g => call'[h] = None
      /\ call'[g] # None => call'[g].stage = "closed" /\ call'[g].key = k
  BY <1>1 DEF CommitClose, TypeOK, Order
<1> SUFFICES ASSUME NEW c \in Coins, c \notin tainted PROVE AccountOf(c)'
  BY <1>3 DEF Account
<1>6. AccountOf(c)
  BY DEF Account
<1>7. CASE c # k.coin
  <2>1. \A j \in Keys : j.coin = c => SameAt(j)
    BY <1>4, <1>7 DEF SameAt
  <2> QED BY <1>1, <1>3, <1>5, <1>7, <2>1, OtherCoins
<1>8. CASE c = k.coin
  <2>1. Agrees(c)'
    <3>1. CASE o.live
      <4>1. LiveOn(c) = {k} /\ exposure[c] = 0
        BY <1>1, <1>6, <1>8, <3>1 DEF AccountOf, Out, Matched
      <4>2. LiveOn(c)' = {}
        BY <1>4, <4>1, LiveOnKeys, LiveOnKeysNext
      <4> QED BY <1>3, <4>1, <4>2 DEF Agrees
    <3>2. CASE ~o.live
      <4>1. Agrees(c) /\ ~positions[k].live
        BY <1>1, <1>6, <1>8, <3>2 DEF AccountOf, Out
      <4>2. LiveOn(c)' = LiveOn(c)
        BY <1>4, <4>1, LiveOnKeys, LiveOnKeysNext
      <4>3. \A j \in LiveOn(c) : positions'[j] = positions[j]
        BY <1>4, <4>1, LiveOnKeys
      <4> QED BY <1>3, <4>1, <4>2, <4>3 DEF Agrees
    <3> QED BY <3>1, <3>2
  <2> QED BY <1>5, <2>1 DEF AccountOf, Out
<1> QED BY <1>7, <1>8

LEMMA ReverseAccount ==
  ASSUME TypeOK, AllServed, Account, NEW g \in Callers, Reverse(g),
         \A h \in Callers : h # g => call[h] = None
  PROVE  Account'
<1> DEFINE o == call[g]
           k == call[g].key
<1>1. /\ call[g] # None /\ k \in Keys /\ k.coin \in Coins /\ o.stage = "closed"
      /\ o.type \in Types /\ o.volume \in Nat \ {0}
  BY KeyFacts DEF Reverse, TypeOK, Order
<1>2. Signed(o.type, o.volume) \in Int /\ Signed(o.type, o.volume) # 0
  BY <1>1, SignedInt
<1>3. positions[k] = None /\ positions' = positions /\ \A j \in Keys : SameAt(j)
  BY <1>1 DEF AllServed, Served, Reverse, books, SameAt
<1>4. \A c \in Coins \ tainted : Agrees(c)
  BY <1>1 DEF Account, AccountOf, Out
<1>5. CASE Failed(o) /\ call' = [call EXCEPT ![g] = None]
           /\ tainted' = IF exposure' # exposure THEN tainted \cup {k.coin} ELSE tainted
  <2>1. tainted \subseteq tainted' /\ \A c \in Coins \ tainted' : exposure'[c] = exposure[c]
    BY <1>1, <1>5 DEF Failed, Execute, TypeOK
  <2>2. \A h \in Callers : call'[h] = None
    BY <1>5 DEF TypeOK
  <2>3. \A c \in Coins \ tainted' : Agrees(c)'
    BY <1>3, <1>4, <2>1, SameAgrees
  <2> QED BY <2>2, <2>3, AgreesAccountNext DEF Account
<1>6. CASE Accepted(o) /\ call' = [call EXCEPT ![g].stage = "reversed"]
           /\ tainted' = IF o.live /\ \E j \in Beside(k) : positions[j].live
                         THEN tainted \cup {k.coin} ELSE tainted
  <2>1. /\ call'[g] # None /\ call'[g].key = k /\ call'[g].stage = "reversed"
        /\ call'[g].type = o.type /\ call'[g].volume = o.volume /\ call'[g].live = o.live
        /\ \A h \in Callers : h # g => call'[h] = None
    <3>1. o \in Order /\ call'[g] = [o EXCEPT !.stage = "reversed"]
      BY <1>1, <1>6 DEF TypeOK
    <3>2. call'[g] \in Order
      BY <3>1 DEF Order
    <3>3. \A h \in Callers : h # g => call'[h] = None
      BY <1>6 DEF TypeOK
    <3> QED BY <3>1, <3>2, <3>3 DEF Order
  <2> SUFFICES ASSUME NEW c \in Coins, c \notin tainted' PROVE AccountOf(c)'
    BY DEF Account
  <2>2. c \notin tainted /\ Agrees(c)
    BY <1>4, <1>6
  <2>3. CASE c # k.coin
    <3>1. exposure'[c] = exposure[c]
      BY <1>6, <2>3 DEF Accepted, Execute, TypeOK
    <3>2. Agrees(c)'
      BY <1>3, <2>2, <3>1, SameAgrees
    <3> QED BY <2>1, <2>3, <3>2, AgreesAccountNext
  <2>4. CASE c = k.coin
    <3>1. LiveOn(c)' = LiveOn(c)
      BY <1>3, SameLive
    <3>2. CASE ~o.live
      <4>1. Agrees(c)'
        BY <1>3, <1>6, <2>2, <3>2, SameAgrees DEF Accepted, Execute
      <4> QED BY <2>1, <3>2, <4>1 DEF AccountOf, Out
    <3>3. CASE o.live
      <4>1. LiveOn(c) = {}
        BY <1>1, <1>3, <1>6, <2>4, <3>3, LiveOnKeys DEF Beside, On, Held
      <4>2. exposure[c] = 0
        BY <2>2, <4>1 DEF Agrees
      <4>3. exposure'[c] = Signed(o.type, o.volume)
        BY <1>1, <1>2, <1>6, <2>4, <3>3, <4>2 DEF Accepted, Execute, TypeOK
      <4>4. Matched(call[g])'
        BY <2>1, <2>4, <3>1, <4>1, <4>3 DEF Matched
      <4> QED BY <2>1, <2>4, <3>3, <4>4 DEF AccountOf, Out
    <3> QED BY <3>2, <3>3
  <2> QED BY <2>3, <2>4
<1> QED BY <1>5, <1>6 DEF Reverse

LEMMA CommitAccount ==
  ASSUME TypeOK, Exclusive, AllServed, Account, NEW g \in Callers,
         CommitOpen(g) \/ CommitClose(g) \/ Reverse(g) \/ CommitReverse(g)
  PROVE  Account'
<1>1. call[g] # None
  BY DEF CommitOpen, CommitClose, Reverse, CommitReverse
<1>2. \A h \in Callers : h # g => call[h] = None
  BY <1>1, OneCall
<1>3. CASE CommitOpen(g)
  <2>1. positions[call[g].key] = None
    BY <1>1, <1>3 DEF CommitOpen, AllServed, Served
  <2> QED BY <1>1, <1>2, <1>3, <2>1, AddAccount DEF CommitOpen
<1>4. CASE CommitReverse(g)
  <2>1. positions[call[g].key] = None
    BY <1>1, <1>4 DEF CommitReverse, AllServed, Served
  <2> QED BY <1>1, <1>2, <1>4, <2>1, AddAccount DEF CommitReverse
<1> QED BY <1>2, <1>3, <1>4, CommitCloseAccount, ReverseAccount

-----------------------------------------------------------------------------
(* Snapshots written back.                                                 *)

LEMMA SwapAccount ==
  ASSUME TypeOK, Exclusive, AllServed, Account, TickSwap
  PROVE  Account'
<1>1. tick.snap = positions /\ positions \in Book
  BY DEF TickSwap, Exclusive, TypeOK
<1>2. PICK G \in [On(tick.snap, tick.coin) -> Gains] :
        positions' = [k \in Keys |-> IF k \in DOMAIN G
                        THEN [tick.snap[k] EXCEPT !.gain = G[k]] ELSE tick.snap[k]]
  BY DEF TickSwap
<1>3. ASSUME NEW k \in Keys PROVE SameAt(k)
  <2>1. CASE k \notin DOMAIN G
    BY <1>1, <1>2, <2>1 DEF SameAt
  <2>2. CASE k \in DOMAIN G
    <3>1. positions[k] \in Position /\ G[k] \in -1 .. 1
      BY <1>1, <2>2, HeldPosition
    <3>2. positions'[k] = [positions[k] EXCEPT !.gain = G[k]]
      BY <1>1, <1>2, <2>2
    <3>3. positions'[k] \in Position
      BY <3>1, <3>2 DEF Position
    <3> QED BY <3>1, <3>2, <3>3 DEF SameAt, Position
  <2> QED BY <2>1, <2>2
<1>4. UNCHANGED <<exposure, call, tainted>>
  BY DEF TickSwap
<1> QED BY <1>3, <1>4, SameAccount DEF Account

LEMMA ResetAccount ==
  ASSUME TypeOK, AllServed, Account, UserReset
  PROVE  Account'
<1> DEFINE dropped == IF user.arg = All THEN Held(positions)
                      ELSE IF user.arg = Blank THEN {} ELSE On(positions, user.arg)
<1>1. /\ positions' = [k \in Keys |-> IF k \in dropped THEN None ELSE positions[k]]
      /\ tainted' = tainted \cup {k.coin : k \in dropped}
      /\ UNCHANGED <<exposure, call>>
  BY DEF UserReset
<1>2. \A k \in Keys : k.coin \notin tainted' => SameAt(k)
  BY <1>1 DEF SameAt
<1> QED BY <1>1, <1>2, SameAccount DEF Account

\* A lot that is not a part is all of its coin's exposure.
LEMMA LotShape ==
  ASSUME NEW c \in Coins, NEW e \in Int, NEW S \in LotsOf(c, e), NEW l \in S, l.part = 0
  PROVE  S = {l} /\ e = Signed(l.type, l.volume)
<1> DEFINE lot(v, n) == [coin |-> c, type |-> IF e > 0 THEN "Buy" ELSE "Sell",
                         volume |-> v, part |-> n]
<1>1. e # 0
  BY DEF LotsOf
<1>2. S = {lot(Size(e), 0)} \/ \E v, w : S = {lot(v, 1), lot(w, 2)}
  BY <1>1 DEF LotsOf
<1>3. S = {lot(Size(e), 0)}
  <2>1. \A v : lot(v, 1).part # 0 /\ lot(v, 2).part # 0
    OBVIOUS
  <2> QED BY <1>2, <2>1
<1>4. l.type = (IF e > 0 THEN "Buy" ELSE "Sell") /\ l.volume = Size(e)
  BY <1>3
<1> QED BY <1>1, <1>3, <1>4 DEF Signed, Size

LEMMA UpstreamShape ==
  ASSUME exposure \in [Coins -> Int], NEW L \in Upstream, NEW l \in L, l.part = 0
  PROVE  /\ exposure[l.coin] = Signed(l.type, l.volume)
         /\ \A m \in L : m.coin = l.coin => m = l
<1>1. PICK f \in [Coins -> UNION {LotsOf(c, exposure[c]) : c \in Coins}] :
        /\ \A c \in Coins : f[c] \in LotsOf(c, exposure[c])
        /\ L = UNION {f[c] : c \in Coins}
  BY DEF Upstream
<1>2. \A c \in Coins : \A m \in f[c] : m.coin = c
  BY <1>1, LotTypes
<1>3. PICK c \in Coins : l \in f[c]
  BY <1>1
<1>4. f[c] = {l} /\ exposure[c] = Signed(l.type, l.volume) /\ l.coin = c
  BY <1>1, <1>2, <1>3, LotShape
<1>5. ASSUME NEW m \in L, m.coin = l.coin PROVE m = l
  <2>1. PICK d \in Coins : m \in f[d]
    BY <1>1
  <2> QED BY <1>2, <1>4, <1>5, <2>1
<1> QED BY <1>4, <1>5

LEMMA SyncStartSees ==
  ASSUME TypeOK, SyncStart
  PROVE  SyncSees'
<1>1. PICK L \in Upstream : sync' = IF L = {} THEN IdleSync ELSE [lots |-> L, snap |-> positions]
  BY DEF SyncStart
<1>2. UNCHANGED <<positions, exposure>>
  BY DEF SyncStart, books
<1>3. CASE L = {}
  BY <1>1, <1>3, IdleFacts DEF SyncSees
<1>4. CASE L # {}
  <2>1. sync'.lots = L /\ sync'.snap = positions
    BY <1>1, <1>4
  <2> QED BY <1>2, <2>1, UpstreamShape DEF SyncSees, TypeOK
<1> QED BY <1>3, <1>4

LEMMA SignedOnce ==
  ASSUME NEW s \in Types, NEW t \in Types, NEW v \in Nat \ {0}, NEW w \in Nat \ {0},
         Signed(s, v) = Signed(t, w)
  PROVE  s = t /\ v = w
BY DEF Signed, Types

LEMMA SyncLotAccount ==
  ASSUME TypeOK, AllServed, Account, SyncSees, \A g \in Callers : call[g] = None,
         NEW l \in sync.lots, SyncLot(l)
  PROVE  Account' /\ SyncSees'
<1> DEFINE known == On(sync.snap, l.coin)
           stale == {k \in known : Synced(sync.snap[k], l) # sync.snap[k]}
<1>1. l \in Lot /\ l.coin \in Coins /\ l.type \in Types /\ l.volume \in Nat \ {0}
      /\ sync.snap \in Book /\ known \subseteq Keys
  BY DEF TypeOK, Lot, On, Held
<1>2. UNCHANGED <<exposure, call>>
  BY DEF SyncLot
<1>3. positions' = IF known = {} THEN [positions EXCEPT ![BareKey(l.coin)] = Adopted(l)]
                   ELSE [k \in Keys |-> IF k \in stale THEN Synced(sync.snap[k], l)
                                        ELSE positions[k]]
  BY DEF SyncLot
<1>4. \A k \in Keys : k.coin # l.coin => positions'[k] = positions[k]
  BY <1>1, <1>3, KeyFacts DEF TypeOK, Book, On
<1>5. \A c \in Coins \ tainted : Agrees(c)
  BY AgreesAccount DEF Account
<1>6. \A c \in Coins : c # l.coin /\ c \notin tainted' => AccountOf(c)'
  <2>1. SUFFICES ASSUME NEW c \in Coins, c # l.coin, c \notin tainted' PROVE AccountOf(c)'
    OBVIOUS
  <2>2. c \notin tainted
    BY <2>1 DEF SyncLot
  <2>3. \A k \in Keys : k.coin = c => SameAt(k)
    BY <1>4, <2>1 DEF SameAt
  <2> QED BY <1>2, <2>2, <2>3, SameAccount DEF Account
<1>7. l.coin \notin tainted' => Agrees(l.coin)'
  <2>1. SUFFICES ASSUME l.coin \notin tainted' PROVE Agrees(l.coin)'
    OBVIOUS
  <2>2. l.part = 0
    BY <2>1 DEF SyncLot
  <2>3. \A k \in Keys : k.coin = l.coin => positions[k] = sync.snap[k]
    BY <2>2 DEF SyncSees
  <2>4. CASE l.coin \notin tainted
    <3>1. Agrees(l.coin) /\ exposure[l.coin] = Signed(l.type, l.volume)
      BY <1>1, <1>5, <2>2, <2>4 DEF SyncSees
    <3>2. PICK k \in LiveOn(l.coin) :
            /\ LiveOn(l.coin) = {k}
            /\ exposure[l.coin] = Signed(positions[k].type, positions[k].volume)
      BY <1>1, <3>1, SignedInt DEF Agrees
    <3>3. k \in Keys /\ positions[k] \in Position /\ k.coin = l.coin /\ positions[k].live
      BY <3>2, LiveOnKeys DEF TypeOK, Book
    <3>4. positions[k].type = l.type /\ positions[k].volume = l.volume
      <4>1. positions[k].type \in Types /\ positions[k].volume \in Nat \ {0}
        BY <3>3 DEF Position
      <4>2. Signed(l.type, l.volume) = Signed(positions[k].type, positions[k].volume)
        BY <3>1, <3>2
      <4> QED BY <1>1, <4>1, <4>2, SignedOnce
    <3>5. k \in known
      BY <2>3, <3>3 DEF On, Held
    <3>6. \A j \in Keys : j.coin = l.coin =>
            \/ positions'[j] = positions[j]
            \/ positions[j] # None /\ positions'[j] = Synced(positions[j], l)
      BY <1>3, <2>3, <3>5 DEF On, Held
    <3>7. ASSUME NEW j \in Keys, j.coin = l.coin, positions[j] # None,
                 positions'[j] = Synced(positions[j], l)
          PROVE  /\ positions'[j] # None
                 /\ positions'[j].live = positions[j].live
                 /\ positions'[j].type = positions[j].type
                 /\ positions'[j].volume = l.volume
      <4>1. positions[j] \in Position
        BY <3>7 DEF TypeOK, Book
      <4>2. positions'[j] \in Position
        BY <1>1, <3>7, <4>1, SyncedTypes
      <4> QED BY <3>7, <4>1, <4>2 DEF Synced, Position
    <3>8. LiveOn(l.coin)' = LiveOn(l.coin)
      <4>1. \A j \in Keys : j.coin = l.coin =>
              /\ (positions'[j] # None) <=> (positions[j] # None)
              /\ positions[j] # None => positions'[j].live = positions[j].live
        BY <3>6, <3>7
      <4> QED BY <4>1, LiveOnKeys, LiveOnKeysNext
    <3>9. SameAt(k)
      BY <3>3, <3>4, <3>6, <3>7 DEF SameAt
    <3> QED BY <1>2, <3>2, <3>3, <3>8, <3>9 DEF Agrees, SameAt
  <2>5. CASE l.coin \in tainted
    <3>1. PICK k \in On(positions', l.coin) :
            /\ exposure[l.coin] = Signed(l.type, l.volume)
            /\ On(positions', l.coin) = {k}
            /\ positions'[k].live /\ positions'[k].type = l.type
      BY <2>1, <2>2, <2>5 DEF SyncLot
    <3>2. k \in Keys /\ k.coin = l.coin /\ positions'[k] # None
      BY <3>1 DEF On, Held
    <3>3. LiveOn(l.coin)' = {k}
      BY <3>1 DEF LiveOn
    <3>4. positions'[k].volume = l.volume
      <4>1. CASE known = {}
        <5>1. positions[k] = None
          BY <2>3, <3>2, <4>1 DEF On, Held
        <5>2. k = BareKey(l.coin) /\ positions'[k] = Adopted(l)
          BY <1>1, <1>3, <3>2, <4>1, <5>1 DEF TypeOK, Book
        <5> QED BY <5>2 DEF Adopted
      <4>2. CASE known # {} /\ k \in stale
        <5>1. positions'[k] = Synced(sync.snap[k], l) /\ sync.snap[k] \in Position
          BY <1>1, <1>3, <3>2, <4>2, HeldPosition
        <5> QED BY <1>1, <5>1 DEF Synced, Position
      <4>3. CASE known # {} /\ k \notin stale
        <5>1. positions'[k] = sync.snap[k] /\ sync.snap[k] # None
          BY <1>3, <2>3, <3>2, <4>3
        <5>2. Synced(sync.snap[k], l) = sync.snap[k] /\ sync.snap[k] \in Position
          BY <1>1, <3>2, <4>3, <5>1 DEF On, Held, Book
        <5>3. Synced(sync.snap[k], l).volume = l.volume
          BY <1>1, <5>2 DEF Synced, Position
        <5> QED BY <5>1, <5>2, <5>3
      <4> QED BY <4>1, <4>2, <4>3
    <3> QED BY <1>2, <3>1, <3>3, <3>4 DEF Agrees
  <2> QED BY <2>4, <2>5
<1>8. Account'
  <2>1. \A g \in Callers : call'[g] = None
    BY <1>2
  <2>2. l.coin \notin tainted' => AccountOf(l.coin)'
    BY <1>7, <2>1, AgreesAccountNext
  <2> QED BY <1>6, <2>2 DEF Account
<1>9. SyncSees'
  <2>1. \/ sync' = IdleSync
        \/ sync'.lots = sync.lots \ {l} /\ sync'.snap = sync.snap
    BY DEF SyncLot, TypeOK
  <2>2. CASE sync' = IdleSync
    BY <2>2, IdleFacts DEF SyncSees
  <2>3. CASE sync'.lots = sync.lots \ {l} /\ sync'.snap = sync.snap
    <3>1. \A m \in sync'.lots : m.part = 0 => m.coin # l.coin
      BY <2>3 DEF SyncSees
    <3>2. \A m \in sync'.lots : m.coin # l.coin /\ m.coin \notin tainted' => m.coin \notin tainted
      BY DEF SyncLot
    <3> QED BY <1>2, <1>4, <2>3, <3>1, <3>2 DEF SyncSees
  <2> QED BY <2>1, <2>2, <2>3
<1> QED BY <1>8, <1>9

-----------------------------------------------------------------------------
(* Restarts.                                                               *)

LEMMA SameButGainFields ==
  \A p \in Position, q \in Position : SameButGain(p, q) =>
     p.live = q.live /\ p.type = q.type /\ p.volume = q.volume
<1>1. \A p \in Position :
        /\ [p EXCEPT !.gain = 0].live = p.live
        /\ [p EXCEPT !.gain = 0].type = p.type
        /\ [p EXCEPT !.gain = 0].volume = p.volume
  BY DEF Position
<1> QED BY <1>1 DEF SameButGain

LEMMA RestartAccount ==
  ASSUME TypeOK, DiskCoversBook, Account, Restart
  PROVE  Account' /\ SyncSees'
<1>1. SyncSees'
  BY IdleFacts DEF Restart, SyncSees
<1>2. \A g \in Callers : call'[g] = None
  BY DEF Restart
<1> SUFFICES ASSUME NEW c \in Coins, c \notin tainted' PROVE Agrees(c)'
  BY <1>1, <1>2, AgreesAccountNext DEF Account
<1>3. /\ saved /\ disk' = disk /\ positions' \in Loaded(disk)
      /\ c \notin tainted /\ exposure' = exposure
      /\ \A g \in Callers : call[g] # None => call[g].key.coin # c
      /\ \A i \in Held(disk), j \in Held(disk) :
           i.coin = c /\ Stored(i) = Stored(j) => i = j
  BY DEF Restart
<1>4. Agrees(c)
  BY <1>3, AgreesAccount DEF Account
<1>5. /\ \A k \in Held(positions) : \E j \in Held(disk) :
           Stored(j) = Stored(k) /\ SameButGain(disk[j], positions[k])
      /\ \A j \in Held(disk) : \E k \in Held(positions) : Stored(j) = Stored(k)
  BY <1>3 DEF DiskCoversBook
<1>6. /\ \A k \in Held(positions) : k \in Keys /\ positions[k] \in Position
      /\ \A j \in Held(disk) : j \in Keys /\ disk[j] \in Position /\ disk[j] # None
  BY HeldPosition DEF TypeOK
<1>7. \A p \in Position, q \in Position : SameButGain(p, q) =>
         p.live = q.live /\ p.type = q.type /\ p.volume = q.volume
  BY SameButGainFields
\* The stored keys of the coin, one to one with those of the book.
<1>8. \A k \in Held(positions), j \in Held(disk) :
         k.coin = c /\ Stored(j) = Stored(k) => SameButGain(disk[j], positions[k])
  <2>1. SUFFICES ASSUME NEW k \in Held(positions), NEW j \in Held(disk),
                        k.coin = c, Stored(j) = Stored(k)
                 PROVE  SameButGain(disk[j], positions[k])
    OBVIOUS
  <2>2. PICK i \in Held(disk) : Stored(i) = Stored(k) /\ SameButGain(disk[i], positions[k])
    BY <1>5
  <2>3. i.coin = c
    BY <1>6, <2>1, <2>2, KeyFacts
  <2>4. i = j
    BY <1>3, <2>1, <2>2, <2>3
  <2> QED BY <2>2, <2>4
<1>9. \A m \in Keys : m.coin = c /\ positions'[m] # None =>
         \E k \in Held(positions) :
           /\ k.coin = c /\ Stored(k) = m
           /\ positions'[m].live = positions[k].live
           /\ positions'[m].type = positions[k].type
           /\ positions'[m].volume = positions[k].volume
  <2>1. SUFFICES ASSUME NEW m \in Keys, m.coin = c, positions'[m] # None
                 PROVE  \E k \in Held(positions) :
                          /\ k.coin = c /\ Stored(k) = m
                          /\ positions'[m].live = positions[k].live
                          /\ positions'[m].type = positions[k].type
                          /\ positions'[m].volume = positions[k].volume
    OBVIOUS
  <2>2. PICK j \in Held(disk) : Stored(j) = m /\ positions'[m] = disk[j]
    BY <1>3, <2>1 DEF Loaded
  <2>3. PICK k \in Held(positions) : Stored(j) = Stored(k)
    BY <1>5
  <2>4. k.coin = c
    BY <1>6, <2>1, <2>2, <2>3, KeyFacts
  <2> QED BY <1>6, <1>7, <1>8, <2>2, <2>3, <2>4
<1>10. \A k \in Held(positions) : k.coin = c =>
         /\ Stored(k) \in Keys /\ Stored(k).coin = c
         /\ positions'[Stored(k)] # None
         /\ positions'[Stored(k)].live = positions[k].live
         /\ positions'[Stored(k)].type = positions[k].type
         /\ positions'[Stored(k)].volume = positions[k].volume
  <2>1. SUFFICES ASSUME NEW k \in Held(positions), k.coin = c
                 PROVE  /\ Stored(k) \in Keys /\ Stored(k).coin = c
                        /\ positions'[Stored(k)] # None
                        /\ positions'[Stored(k)].live = positions[k].live
                        /\ positions'[Stored(k)].type = positions[k].type
                        /\ positions'[Stored(k)].volume = positions[k].volume
    OBVIOUS
  <2>2. Stored(k) \in Keys /\ Stored(k).coin = c
    BY <1>6, <2>1, KeyFacts
  <2>3. PICK j \in Held(disk) : Stored(j) = Stored(k)
    BY <1>5
  <2>4. PICK i \in Held(disk) : Stored(i) = Stored(k) /\ positions'[Stored(k)] = disk[i]
    BY <1>3, <2>2, <2>3 DEF Loaded
  <2>5. SameButGain(disk[i], positions[k])
    BY <1>8, <2>1, <2>4
  <2> QED BY <1>6, <1>7, <2>2, <2>4, <2>5
<1>11. CASE LiveOn(c) = {} /\ exposure[c] = 0
  <2>1. LiveOn(c)' = {}
    BY <1>9, <1>11, LiveOnKeys, LiveOnKeysNext DEF Held
  <2> QED BY <1>3, <1>11, <2>1 DEF Agrees
<1>12. CASE \E k \in LiveOn(c) :
              LiveOn(c) = {k} /\ exposure[c] = Signed(positions[k].type, positions[k].volume)
  <2>1. PICK k \in LiveOn(c) :
          LiveOn(c) = {k} /\ exposure[c] = Signed(positions[k].type, positions[k].volume)
    BY <1>12
  <2>2. k \in Held(positions) /\ k.coin = c /\ positions[k].live
    BY <2>1, LiveOnKeys DEF Held
  <2>3. Stored(k) \in LiveOn(c)'
    BY <1>10, <2>2, LiveOnKeysNext
  <2>4. ASSUME NEW m \in LiveOn(c)' PROVE m = Stored(k)
    <3>1. m \in Keys /\ m.coin = c /\ positions'[m] # None /\ positions'[m].live
      BY LiveOnKeysNext
    <3>2. PICK i \in Held(positions) :
            i.coin = c /\ Stored(i) = m /\ positions'[m].live = positions[i].live
      BY <1>9, <3>1
    <3>3. i \in LiveOn(c)
      BY <3>1, <3>2, LiveOnKeys DEF Held
    <3> QED BY <2>1, <3>2, <3>3
  <2>5. LiveOn(c)' = {Stored(k)}
    BY <2>3, <2>4
  <2> QED BY <1>3, <1>10, <2>1, <2>2, <2>5 DEF Agrees
<1> QED BY <1>4, <1>11, <1>12 DEF Agrees

-----------------------------------------------------------------------------
(* The invariant.                                                          *)

AccountInv == /\ TypeOK /\ Exclusive /\ AllServed /\ DiskCoversBook
              /\ Account /\ SyncSees

LEMMA InitAccount == Init => AccountInv
<1> SUFFICES ASSUME Init PROVE AccountInv
  OBVIOUS
<1>1. DiskCoversBook
  BY DEF Init, DiskCoversBook, Held, SameButGain
<1>2. \A c \in Coins : LiveOn(c) = {} /\ exposure[c] = 0
  BY LiveOnKeys DEF Init, Empty
<1>3. Account
  BY <1>2 DEF Account, AccountOf, Agrees, Out, Init
<1>4. SyncSees
  BY IdleFacts DEF Init, SyncSees
<1> QED BY <1>1, <1>3, <1>4, InitTypes, InitExclusive DEF AccountInv

\* No lots left to sync, before or after the step.
LEMMA NoLots == ASSUME sync'.lots = {} PROVE SyncSees'
BY DEF SyncSees

LEMMA NextAccount ==
  ASSUME Serial, AccountInv, [Next]_vars
  PROVE  Account' /\ SyncSees'
<1> USE DEF AccountInv
<1>1. CASE UNCHANGED vars
  BY <1>1, FrameAccount DEF vars, SyncSees
<1>2. ASSUME NEW k \in Keys, NEW t \in Types, NEW v \in Volumes, NEW live \in Lives,
             NEW d \in Decisions, Signal(k, t, v, live, d)
      PROVE  Account' /\ SyncSees'
  <2>1. PICK gain \in Value(k, t) : Submit("tick", OrderFor(k, t, v, TRUE, live, gain))
    BY <1>2 DEF Signal
  <2>2. gain \in -1 .. 1
    BY <2>1, ValueTypes
  <2>3. v \in Nat \ {0} /\ live \in BOOLEAN /\ TRUE \in BOOLEAN /\ "tick" \in Callers
    BY DEF Callers
  <2>4. OrderFor(k, t, v, TRUE, live, gain) \in Order
    BY <2>2, <2>3, OrderTypes
  <2>5. sync = IdleSync /\ sync' = sync /\ \A h \in Callers : call[h] = None
    BY <1>2, Alone DEF Signal, Callers, local
  <2>6. Account'
    BY <2>1, <2>3, <2>4, <2>5, OrderFits, SubmitAccount
  <2> QED BY <2>5, <2>6, IdleFacts, NoLots
<1>3. ASSUME NEW c \in Coins, TickRead(c) PROVE Account' /\ SyncSees'
  BY <1>3, FrameAccount DEF TickRead, books, SyncSees
<1>4. CASE TickSwap
  <2>1. tick # IdleTick
    BY <1>4, IdleFacts DEF TickSwap
  <2>2. sync' = IdleSync
    BY <1>4, <2>1 DEF TickSwap, Exclusive, TickBusy, SyncBusy
  <2> QED BY <1>4, <2>2, SwapAccount, IdleFacts, NoLots
<1>5. ASSUME NEW e \in tick.todo, TickClose(e) PROVE Account' /\ SyncSees'
  <2> DEFINE o == OrderFor(e.key, Inv(e.type), 1, FALSE, e.live, positions[e.key].gain)
  <2>1. tick # IdleTick
    BY IdleFacts
  <2>2. sync = IdleSync /\ sync' = sync /\ call["user"] = None /\ call["tick"] = None
    BY <1>5, <2>1 DEF TickClose, Exclusive, TickBusy, SyncBusy, UserBusy
  <2>3. SyncSees'
    BY <2>2, IdleFacts, NoLots
  <2>4. Fits(o)
    <3>1. e.key \in Keys
      BY DEF TypeOK
    <3> QED BY <3>1, OrderFits
  <2> HIDE DEF o
  <2>5. \/ UNCHANGED <<books, exposure, call, counts, orders, tainted, boots, faults>>
        \/ o \in Order /\ Submit("tick", o)
    BY <1>5, TickCloseSubmits DEF o
  <2>6. CASE UNCHANGED <<books, exposure, call, counts, orders, tainted, boots, faults>>
    BY <2>3, <2>6, FrameAccount DEF books
  <2>7. CASE o \in Order /\ Submit("tick", o)
    <3>1. "tick" \in Callers /\ \A h \in Callers : call[h] = None
      BY <2>2 DEF Callers
    <3> QED BY <2>3, <2>4, <2>7, <3>1, SubmitAccount
  <2> QED BY <2>5, <2>6, <2>7
<1>6. ASSUME NEW arg \in Coins \cup {All, Blank}, UserStart(arg) PROVE Account' /\ SyncSees'
  BY <1>6, FrameAccount DEF UserStart, books, SyncSees
<1>7. ASSUME NEW e \in user.todo, UserClose(e) \/ UserPanic(e) PROVE Account' /\ SyncSees'
  <2>1. CASE UserPanic(e)
    BY <2>1, RestartAccount DEF UserPanic
  <2>2. CASE UserClose(e)
    <3> DEFINE o == OrderFor(e.key, Inv(e.lot.type), e.lot.volume, FALSE, TRUE,
                             positions[e.key].gain)
    <3>1. user.active
      BY DEF Exclusive
    <3>2. sync = IdleSync /\ sync' = sync /\ call["user"] = None /\ call["tick"] = None
      BY <2>2, <3>1 DEF UserClose, Exclusive, TickBusy, SyncBusy, UserBusy
    <3>3. SyncSees'
      BY <3>2, IdleFacts, NoLots
    <3>4. Fits(o)
      <4>1. e.key \in Keys
        BY DEF TypeOK, Pair
      <4> QED BY <4>1, OrderFits
    <3> HIDE DEF o
    <3>5. \/ UNCHANGED <<books, exposure, call, counts, orders, tainted, boots, faults>>
          \/ o \in Order /\ Submit("user", o)
      BY <2>2, UserCloseSubmits DEF o
    <3>6. CASE UNCHANGED <<books, exposure, call, counts, orders, tainted, boots, faults>>
      BY <3>3, <3>6, FrameAccount DEF books
    <3>7. CASE o \in Order /\ Submit("user", o)
      <4>1. "user" \in Callers /\ \A h \in Callers : call[h] = None
        BY <3>2 DEF Callers
      <4> QED BY <3>3, <3>4, <3>7, <4>1, SubmitAccount
    <3> QED BY <3>5, <3>6, <3>7
  <2> QED BY <1>7, <2>1, <2>2
<1>8. CASE UserReset
  <2>1. user.active /\ sync' = sync
    BY <1>8 DEF UserReset
  <2>2. sync' = IdleSync
    BY <2>1 DEF Exclusive, UserBusy, SyncBusy
  <2> QED BY <1>8, <2>2, ResetAccount, IdleFacts, NoLots
<1>9. CASE SyncStart
  BY <1>9, SyncStartSees, FrameAccount DEF SyncStart, books
<1>10. ASSUME NEW l \in sync.lots, SyncLot(l) PROVE Account' /\ SyncSees'
  <2>1. sync # IdleSync
    BY IdleFacts
  <2>2. \A h \in Callers : call[h] = None
    BY <2>1 DEF Exclusive, TickBusy, UserBusy, SyncBusy, Callers
  <2> QED BY <1>10, <2>2, SyncLotAccount
<1>11. ASSUME NEW g \in Callers,
              CommitOpen(g) \/ CommitClose(g) \/ Reverse(g) \/ CommitReverse(g)
       PROVE  Account' /\ SyncSees'
  <2>1. call[g] # None /\ sync' = sync
    BY <1>11 DEF CommitOpen, CommitClose, Reverse, CommitReverse, local
  <2>2. sync = IdleSync
    BY <2>1 DEF Exclusive, TickBusy, UserBusy, SyncBusy, Callers
  <2> QED BY <1>11, <2>1, <2>2, CommitAccount, IdleFacts, NoLots
<1>12. ASSUME NEW c \in Coins, NEW e \in Drifts, Drift(c, e) PROVE Account' /\ SyncSees'
  <2>1. /\ UNCHANGED <<positions, call, sync>> /\ tainted' = tainted \cup {c}
        /\ \A d \in Coins : d # c => exposure'[d] = exposure[d]
    BY <1>12 DEF Drift, books, local, TypeOK
  <2>2. \A k \in Keys : SameAt(k)
    BY <2>1 DEF SameAt
  <2>3. Account'
    BY <2>1, <2>2, SameAccount DEF Account
  <2>4. \A l \in sync.lots : l.coin \in Coins
    BY DEF TypeOK, Lot
  <2> QED BY <2>1, <2>3, <2>4 DEF SyncSees
<1>13. CASE Crash
  BY <1>13, RestartAccount DEF Crash
<1> QED BY <1>1, <1>2, <1>3, <1>4, <1>5, <1>6, <1>7, <1>8, <1>9, <1>10, <1>11, <1>12, <1>13
        DEF Next

\* While handlers do not overlap, the book of a coin is the account of the
\* exchange between orders, but for the named events that part them.
THEOREM BookIsAccount == Serial => (Spec => []BookMatchesExchange)
<1>1. AccountInv => BookMatchesExchange
  <2>1. SUFFICES ASSUME AccountInv, NEW c \in Coins \ tainted, ~InFlight(c)
                 PROVE  Agrees(c)
    BY DEF BookMatchesExchange
  <2> QED BY <2>1, AgreesAccount DEF AccountInv, Account, InFlight
<1>2. CASE Serial
  <2>1. AccountInv /\ [Next]_vars => AccountInv'
    BY <1>2, NextTypes, NextExclusive, NextServed, NextDisk, NextAccount DEF AccountInv
  <2>2. Spec => []BookMatchesExchange
    BY <1>1, <2>1, InitAccount, PTL DEF Spec
  <2> QED BY <2>2
<1> QED BY <1>2

=============================================================================
