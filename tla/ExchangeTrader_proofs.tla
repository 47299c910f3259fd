------------------------ MODULE ExchangeTrader_proofs -----------------------
(***************************************************************************)
(* Proofs about ExchangeTrader, for every set of coins, keys and volumes   *)
(* and for every bound.                                                    *)
(***************************************************************************)
EXTENDS ExchangeTrader, TLAPS

USE KeysAssumption, DataAssumption, NoneAssumption, NoOrderAssumption

-----------------------------------------------------------------------------
(* Facts about the operators.                                              *)

\* Restoring a key keeps its coin, and the bare key of a coin is a key.
LEMMA KeyFacts ==
  /\ \A k \in Keys : k.coin \in Coins /\ Stored(k) \in Keys
  /\ \A k \in Keys : Stored(k).coin = k.coin
  /\ \A c \in Coins : BareKey(c) \in Keys /\ BareKey(c).coin = c
<1>1. \A k \in Keys : Stored(k).coin = k.coin
  <2>1. SUFFICES ASSUME NEW k \in Keys PROVE Stored(k).coin = k.coin
    OBVIOUS
  <2>2. k = [coin |-> k.coin, duration |-> k.duration, tag |-> k.tag]
    OBVIOUS
  <2>3. Stored(k) = [coin |-> k.coin, duration |-> k.duration, tag |-> NoTag]
    BY <2>2 DEF Stored
  <2> QED BY <2>3
<1> QED BY <1>1 DEF BareKey

LEMMA InvTypes == \A t \in Types : Inv(t) \in Types /\ Inv(t) # t /\ Inv(Inv(t)) = t
BY DEF Types, Inv

LEMMA SignedInt ==
  \A t \in Types, v \in Nat \ {0} :
    /\ Signed(t, v) \in Int /\ Signed(t, v) # 0
    /\ Signed(t, v) + Signed(Inv(t), v) = 0
BY DEF Types, Inv, Signed

LEMMA EmptyBook == Empty \in Book
BY DEF Empty, Book

\* A position read from a book is one if the key is held.
LEMMA HeldPosition ==
  ASSUME NEW book \in Book
  PROVE  /\ Held(book) \subseteq Keys
         /\ \A k \in Held(book) : book[k] \in Position /\ book[k] # None
         /\ \A c : On(book, c) \subseteq Held(book)
BY DEF Held, On, Book

\* What the exchange reports are lots, and at least one per open coin.
LEMMA LotTypes ==
  ASSUME NEW c \in Coins, NEW e \in Int
  PROVE  /\ \A S \in LotsOf(c, e) : S \subseteq Lot
         /\ \A S \in LotsOf(c, e) : \A l \in S : l.coin = c
<1>1. CASE e = 0
  BY <1>1 DEF LotsOf
<1>2. CASE e # 0
  <2>1. Size(e) \in Nat \ {0}
    BY <1>2 DEF Size
  <2>2. SUFFICES ASSUME NEW S \in LotsOf(c, e), NEW l \in S
                 PROVE  l \in Lot /\ l.coin = c
    BY DEF Lot
  <2> DEFINE lot(v, n) == [coin |-> c, type |-> IF e > 0 THEN "Buy" ELSE "Sell",
                           volume |-> v, part |-> n]
  <2>3. \E v \in Nat \ {0}, n \in 0 .. 2 : l = lot(v, n)
    <3>1. CASE S = {lot(Size(e), 0)}
      BY <2>1, <3>1
    <3>2. CASE \E v \in {w \in 1 .. Size(e) : 2 * w <= Size(e)} :
                 S = {lot(v, 1), lot(Size(e) - v, 2)}
      <4>1. PICK v \in 1 .. Size(e) : 2 * v <= Size(e) /\ S = {lot(v, 1), lot(Size(e) - v, 2)}
        BY <3>2
      <4>2. v \in Nat \ {0} /\ Size(e) - v \in Nat \ {0}
        BY <4>1, <2>1
      <4> HIDE DEF lot
      <4>3. l = lot(v, 1) \/ l = lot(Size(e) - v, 2)
        BY <4>1
      <4> QED BY <4>2, <4>3
    <3> QED BY <1>2, <3>1, <3>2 DEF LotsOf
  <2> QED BY <2>3 DEF Lot, Types
<1> QED BY <1>1, <1>2

LEMMA UpstreamLots ==
  ASSUME exposure \in [Coins -> Int], NEW L \in Upstream
  PROVE  L \subseteq Lot
<1>1. PICK g \in [Coins -> UNION {LotsOf(c, exposure[c]) : c \in Coins}] :
        /\ \A c \in Coins : g[c] \in LotsOf(c, exposure[c])
        /\ L = UNION {g[c] : c \in Coins}
  BY DEF Upstream
<1>2. \A c \in Coins : g[c] \subseteq Lot
  BY <1>1, LotTypes
<1> QED BY <1>1, <1>2

-----------------------------------------------------------------------------
(* Type correctness.                                                       *)

TypeBooks == positions \in Book /\ disk \in Book /\ saved \in BOOLEAN
TypeLocal ==
  /\ tick \in [coin : Coins \cup {Blank}, snap : Book,
               todo : SUBSET [key : Keys, type : Types, live : BOOLEAN]]
  /\ user \in [active : BOOLEAN, arg : Coins \cup {All, Blank}, todo : SUBSET Pair]
  /\ sync \in [lots : SUBSET Lot, snap : Book]
TypeRest ==
  /\ exposure \in [Coins -> Int]
  /\ call \in [Callers -> Order \cup {None}]
  /\ tracker \in [Coins -> Nat] /\ realised \in [Coins -> Nat]
  /\ events \in Nat /\ sent \in Nat /\ done \in Nat
  /\ tainted \subseteq Coins /\ boots \in Nat /\ faults \in Nat

LEMMA TypeParts == TypeOK <=> TypeBooks /\ TypeLocal /\ TypeRest
BY DEF TypeOK, TypeBooks, TypeLocal, TypeRest

LEMMA TypePartsNext == TypeOK' <=> TypeBooks' /\ TypeLocal' /\ TypeRest'
BY DEF TypeOK, TypeBooks, TypeLocal, TypeRest

LEMMA IdleTypes ==
  /\ IdleTick \in [coin : Coins \cup {Blank}, snap : Book,
                   todo : SUBSET [key : Keys, type : Types, live : BOOLEAN]]
  /\ IdleUser \in [active : BOOLEAN, arg : Coins \cup {All, Blank}, todo : SUBSET Pair]
  /\ IdleSync \in [lots : SUBSET Lot, snap : Book]
BY EmptyBook DEF IdleTick, IdleUser, IdleSync

LEMMA FaultTypes == ASSUME NEW f, faults \in Nat, Fault(f) PROVE faults' \in Nat
BY DEF Fault

LEMMA SaveTypes ==
  ASSUME TypeOK, NEW b \in Book, SaveBook(b)
  PROVE  disk' \in Book /\ saved' \in BOOLEAN /\ faults' \in Nat
<1>1. CASE disk' = b /\ saved' = TRUE /\ UNCHANGED faults
  BY <1>1 DEF TypeOK
<1>2. CASE Fault("save") /\ disk' \in {disk, Empty} /\ saved' = FALSE
  BY <1>2, EmptyBook, FaultTypes DEF TypeOK
<1> QED BY <1>1, <1>2 DEF SaveBook

\* The order of a request is an order.
LEMMA OrderTypes ==
  ASSUME TypeOK, NEW k \in Keys, NEW t \in Types, NEW v \in Nat \ {0},
         NEW open \in BOOLEAN, NEW live \in BOOLEAN, NEW gain \in -1 .. 1
  PROVE  OrderFor(k, t, v, open, live, gain) \in Order
<1>1. CASE positions[k] = None
  BY <1>1 DEF OrderFor, Order
<1>2. CASE positions[k] # None
  <2>1. positions[k] \in Position
    BY <1>2 DEF TypeOK, Book
  <2>2. positions[k].type \in Types /\ positions[k].volume \in Nat \ {0}
    BY <2>1 DEF Position
  <2> QED BY <1>2, <2>2, InvTypes DEF OrderFor, Order
<1> QED BY <1>1, <1>2

LEMMA ExecuteTypes ==
  ASSUME TypeOK, NEW o \in Order, Execute(o)
  PROVE  exposure' \in [Coins -> Int]
<1>1. o.key \in Keys /\ o.type \in Types /\ o.volume \in Nat \ {0}
  BY DEF Order
<1>2. o.key.coin \in Coins /\ Signed(o.type, o.volume) \in Int
  BY <1>1, KeyFacts, SignedInt
<1> QED BY <1>2 DEF Execute, TypeOK

LEMMA SubmitTypes ==
  ASSUME TypeOK, NEW g \in Callers, NEW o \in Order, Submit(g, o)
  PROVE  TypeBooks' /\ TypeRest'
<1>1. o.key \in Keys /\ o.key.coin \in Coins
  BY KeyFacts DEF Order
<1>2. TypeBooks'
  BY DEF Submit, books, TypeOK, TypeBooks
<1>3. exposure' \in [Coins -> Int] /\ faults' \in Nat
  <2>1. CASE Accepted(o)
    BY <2>1, ExecuteTypes DEF Accepted, TypeOK
  <2>2. CASE Failed(o)
    BY <2>2, ExecuteTypes, FaultTypes DEF Failed, TypeOK
  <2> QED BY <2>1, <2>2 DEF Submit
<1>4. call' \in [Callers -> Order \cup {None}]
  BY DEF Submit, TypeOK
<1>5. tainted' \subseteq Coins
  BY <1>1 DEF Submit, TypeOK
<1>6. /\ tracker' \in [Coins -> Nat] /\ realised' \in [Coins -> Nat]
      /\ events' \in Nat /\ sent' \in Nat /\ done' \in Nat /\ boots' \in Nat
  BY DEF Submit, TypeOK, counts
<1> QED BY <1>2, <1>3, <1>4, <1>5, <1>6 DEF TypeRest

LEMMA AddBookTypes ==
  ASSUME TypeOK, NEW o \in Order, AddBook(o)
  PROVE  TypeBooks' /\ faults' \in Nat
<1> DEFINE p == positions[o.key]
           opened == [type |-> o.type, volume |-> o.volume, live |-> o.live,
                      gain |-> 0, price |-> "order"]
<1>1. CASE p # None /\ p.type # o.type
  BY <1>1 DEF AddBook, books, TypeOK, TypeBooks
<1>2. CASE ~(p # None /\ p.type # o.type)
  <2>1. o.key \in Keys /\ o.type \in Types /\ o.volume \in Nat \ {0} /\ o.live \in BOOLEAN
    BY DEF Order
  <2>2. opened \in Position
    BY <2>1 DEF Position
  <2>3. p # None => [opened EXCEPT !.volume = @ + p.volume] \in Position
    <3>1. SUFFICES ASSUME p # None
                   PROVE  [opened EXCEPT !.volume = @ + p.volume] \in Position
      OBVIOUS
    <3>2. p.volume \in Nat \ {0}
      BY <2>1, <3>1 DEF TypeOK, Book, Position
    <3> QED BY <2>1, <3>2 DEF Position
  <2>4. positions' \in Book /\ SaveBook(positions')
    BY <1>2, <2>1, <2>2, <2>3 DEF AddBook, TypeOK, Book
  <2> QED BY <2>4, SaveTypes DEF TypeBooks
<1> QED BY <1>1, <1>2

LEMMA TrackTypes ==
  ASSUME TypeOK, NEW o \in Order, Track(o)
  PROVE  tracker' \in [Coins -> Nat]
BY KeyFacts DEF Track, TypeOK, Order

LEMMA CommitOpenTypes ==
  ASSUME TypeOK, NEW g \in Callers, CommitOpen(g)
  PROVE  TypeOK'
<1>1. call[g] \in Order
  BY DEF CommitOpen, TypeOK
<1>2. TypeBooks' /\ faults' \in Nat /\ tracker' \in [Coins -> Nat]
  BY <1>1, AddBookTypes, TrackTypes DEF CommitOpen
<1>3. TypeLocal'
  BY DEF CommitOpen, local, TypeOK, TypeLocal
<1>4. realised' \in [Coins -> Nat]
  BY <1>1, KeyFacts DEF CommitOpen, TypeOK, Order
<1>5. call' \in [Callers -> Order \cup {None}]
  BY DEF CommitOpen, TypeOK
<1>6. /\ exposure' \in [Coins -> Int] /\ tainted' \subseteq Coins
      /\ events' \in Nat /\ sent' \in Nat /\ done' \in Nat /\ boots' \in Nat
  BY DEF CommitOpen, TypeOK
<1> QED BY <1>2, <1>3, <1>4, <1>5, <1>6, TypePartsNext DEF TypeRest

LEMMA CommitReverseTypes ==
  ASSUME TypeOK, NEW g \in Callers, CommitReverse(g)
  PROVE  TypeOK'
<1>1. call[g] \in Order
  BY DEF CommitReverse, TypeOK
<1>2. TypeBooks' /\ faults' \in Nat /\ tracker' \in [Coins -> Nat]
  BY <1>1, AddBookTypes, TrackTypes DEF CommitReverse
<1>3. TypeLocal'
  BY DEF CommitReverse, local, TypeOK, TypeLocal
<1>4. /\ realised' \in [Coins -> Nat]
      /\ call' \in [Callers -> Order \cup {None}]
      /\ exposure' \in [Coins -> Int] /\ tainted' \subseteq Coins
      /\ events' \in Nat /\ sent' \in Nat /\ done' \in Nat /\ boots' \in Nat
  BY DEF CommitReverse, TypeOK
<1> QED BY <1>2, <1>3, <1>4, TypePartsNext DEF TypeRest

LEMMA CommitCloseTypes ==
  ASSUME TypeOK, NEW g \in Callers, CommitClose(g)
  PROVE  TypeOK'
<1>1. call[g] \in Order /\ call[g].key \in Keys /\ call[g].key.coin \in Coins
  BY KeyFacts DEF CommitClose, TypeOK, Order
<1>2. TypeBooks' /\ faults' \in Nat
  <2>1. CASE positions[call[g].key] = None
    BY <2>1 DEF CommitClose, CloseBook, books, TypeOK, TypeBooks
  <2>2. CASE positions[call[g].key] # None
    <3>1. positions' \in Book /\ SaveBook(positions')
      BY <1>1, <2>2 DEF CommitClose, CloseBook, TypeOK, Book
    <3> QED BY <3>1, SaveTypes DEF TypeBooks
  <2> QED BY <2>1, <2>2
<1>3. realised' \in [Coins -> Nat]
  BY <1>1 DEF CommitClose, Realise, TypeOK
<1>4. call' \in [Callers -> Order \cup {None}] /\ tracker' \in [Coins -> Nat] /\ done' \in Nat
  <2>1. CASE call[g].open
    <3>1. [call[g] EXCEPT !.stage = "closed"] \in Order
      BY <1>1 DEF Order
    <3>2. call' = [call EXCEPT ![g] = [call[g] EXCEPT !.stage = "closed"]]
      BY <2>1 DEF CommitClose, TypeOK
    <3> QED BY <2>1, <3>1, <3>2 DEF CommitClose, TypeOK
  <2>2. CASE ~call[g].open
    <3>1. Track(call[g])
      BY <2>2 DEF CommitClose
    <3> QED BY <2>2, <3>1, <1>1, TrackTypes DEF CommitClose, TypeOK
  <2> QED BY <2>1, <2>2
<1>5. TypeLocal'
  <2>1. CASE UNCHANGED local
    BY <2>1 DEF local, TypeOK, TypeLocal
  <2>2. CASE UNCHANGED <<tick, sync>> /\
             user' = [user EXCEPT !.todo =
                        IF positions[call[g].key] = None \/ ~saved' THEN @
                        ELSE {e \in @ : e.key # call[g].key}]
    <3>1. user'.todo \subseteq user.todo
      BY <2>2 DEF TypeOK
    <3> QED BY <2>2, <3>1 DEF TypeOK, TypeLocal
  <2> QED BY <2>1, <2>2 DEF CommitClose, local
<1>6. /\ exposure' \in [Coins -> Int] /\ tainted' \subseteq Coins
      /\ events' \in Nat /\ sent' \in Nat /\ boots' \in Nat
  BY DEF CommitClose, TypeOK
<1> QED BY <1>2, <1>3, <1>4, <1>5, <1>6, TypePartsNext DEF TypeRest

LEMMA ReverseTypes ==
  ASSUME TypeOK, NEW g \in Callers, Reverse(g)
  PROVE  TypeOK'
<1>1. call[g] \in Order /\ call[g].key \in Keys /\ call[g].key.coin \in Coins
  BY KeyFacts DEF Reverse, TypeOK, Order
<1>2. TypeBooks' /\ TypeLocal'
  BY DEF Reverse, books, local, TypeOK, TypeBooks, TypeLocal
<1>3. exposure' \in [Coins -> Int] /\ faults' \in Nat
  <2>1. CASE Accepted(call[g])
    BY <1>1, <2>1, ExecuteTypes DEF Accepted, TypeOK
  <2>2. CASE Failed(call[g])
    BY <1>1, <2>2, ExecuteTypes, FaultTypes DEF Failed, TypeOK
  <2> QED BY <2>1, <2>2 DEF Reverse
<1>4. call' \in [Callers -> Order \cup {None}]
  <2>1. [call[g] EXCEPT !.stage = "reversed"] \in Order
    BY <1>1 DEF Order
  <2>2. \/ call' = [call EXCEPT ![g] = [call[g] EXCEPT !.stage = "reversed"]]
        \/ call' = [call EXCEPT ![g] = None]
    BY DEF Reverse, TypeOK
  <2> QED BY <2>1, <2>2 DEF TypeOK
<1>5. tainted' \subseteq Coins
  BY <1>1 DEF Reverse, TypeOK
<1>6. /\ tracker' \in [Coins -> Nat] /\ realised' \in [Coins -> Nat]
      /\ events' \in Nat /\ sent' \in Nat /\ done' \in Nat /\ boots' \in Nat
  BY DEF Reverse, counts, orders, TypeOK
<1> QED BY <1>2, <1>3, <1>4, <1>5, <1>6, TypePartsNext DEF TypeRest

LEMMA ValueTypes ==
  ASSUME TypeOK, NEW k \in Keys, NEW t
  PROVE  Value(k, t) \subseteq -1 .. 1
<1>1. CASE positions[k] = None
  BY <1>1 DEF Value
<1>2. CASE positions[k] # None
  BY <1>2 DEF Value, TypeOK, Book, Position
<1> QED BY <1>1, <1>2

LEMMA SignalTypes ==
  ASSUME TypeOK, NEW k \in Keys, NEW t \in Types, NEW v \in Volumes, NEW live \in Lives,
         NEW d \in Decisions, Signal(k, t, v, live, d)
  PROVE  TypeOK'
<1>1. v \in Nat \ {0} /\ live \in BOOLEAN
  OBVIOUS
<1>2. PICK gain \in -1 .. 1 : Submit("tick", OrderFor(k, t, v, TRUE, live, gain))
  BY ValueTypes DEF Signal
<1>3. TypeBooks' /\ TypeRest'
  BY <1>1, <1>2, OrderTypes, SubmitTypes DEF Callers
<1>4. TypeLocal'
  BY DEF Signal, local, TypeOK, TypeLocal
<1> QED BY <1>3, <1>4, TypePartsNext

LEMMA TickReadTypes ==
  ASSUME TypeOK, NEW c \in Coins, TickRead(c)
  PROVE  TypeOK'
<1>1. TypeBooks' /\ TypeRest'
  BY DEF TickRead, books, counts, orders, TypeOK, TypeBooks, TypeRest
<1>2. TypeLocal'
  BY DEF TickRead, TypeOK, TypeLocal
<1> QED BY <1>1, <1>2, TypePartsNext

LEMMA TickSwapTypes ==
  ASSUME TypeOK, TickSwap
  PROVE  TypeOK'
<1>1. PICK G \in [On(tick.snap, tick.coin) -> Gains] :
        \E S \in SUBSET {k \in DOMAIN G : G[k] # 0} :
          /\ positions' = [k \in Keys |-> IF k \in DOMAIN G
                             THEN [tick.snap[k] EXCEPT !.gain = G[k]] ELSE tick.snap[k]]
          /\ tick' = [IdleTick EXCEPT !.todo =
               {[key |-> k, type |-> tick.snap[k].type, live |-> tick.snap[k].live] : k \in S}]
  BY DEF TickSwap
<1>2. tick.snap \in Book
  BY DEF TypeOK
<1>3. \A k \in DOMAIN G : k \in Keys /\ tick.snap[k] \in Position /\ G[k] \in -1 .. 1
  BY <1>2, HeldPosition
<1>4. \A k \in DOMAIN G : [tick.snap[k] EXCEPT !.gain = G[k]] \in Position
  BY <1>3 DEF Position
<1>5. positions' \in Book
  BY <1>1, <1>2, <1>4 DEF Book
<1>6. tick' \in [coin : Coins \cup {Blank}, snap : Book,
                 todo : SUBSET [key : Keys, type : Types, live : BOOLEAN]]
  BY <1>1, <1>3, EmptyBook DEF IdleTick, Position
<1>7. TypeBooks' /\ TypeLocal' /\ TypeRest'
  BY <1>5, <1>6 DEF TickSwap, counts, orders, TypeOK, TypeBooks, TypeLocal, TypeRest
<1> QED BY <1>7, TypePartsNext

\* An attempt to close ends in a refusal or sends an order for the position.
LEMMA TickCloseSubmits ==
  ASSUME TypeOK, NEW e \in tick.todo, TickClose(e)
  PROVE  \/ UNCHANGED <<books, exposure, call, counts, orders, tainted, boots, faults>>
         \/ LET o == OrderFor(e.key, Inv(e.type), 1, FALSE, e.live, positions[e.key].gain)
            IN  /\ positions[e.key] # None /\ e.key \in Keys
                /\ o \in Order /\ Submit("tick", o)
<1>1. e.key \in Keys /\ e.type \in Types /\ e.live \in BOOLEAN
  BY DEF TypeOK
<1>2. CASE Refused(e.key, Inv(e.type), FALSE, "none")
  BY <1>2 DEF TickClose
<1>3. CASE ~Refused(e.key, Inv(e.type), FALSE, "none")
  <2>1. positions[e.key] # None
    BY <1>3 DEF Refused
  <2>2. positions[e.key].gain \in -1 .. 1
    BY <1>1, <2>1 DEF TypeOK, Book, Position
  <2>3. Submit("tick", OrderFor(e.key, Inv(e.type), 1, FALSE, e.live, positions[e.key].gain))
    BY <1>3 DEF TickClose
  <2>4. Inv(e.type) \in Types /\ 1 \in Nat \ {0} /\ FALSE \in BOOLEAN
    BY <1>1, InvTypes
  <2>5. OrderFor(e.key, Inv(e.type), 1, FALSE, e.live, positions[e.key].gain) \in Order
    BY <1>1, <2>2, <2>4, OrderTypes
  <2> QED BY <1>1, <2>1, <2>3, <2>5
<1> QED BY <1>2, <1>3

LEMMA UserCloseSubmits ==
  ASSUME TypeOK, NEW e \in user.todo, UserClose(e)
  PROVE  \/ UNCHANGED <<books, exposure, call, counts, orders, tainted, boots, faults>>
         \/ LET o == OrderFor(e.key, Inv(e.lot.type), e.lot.volume, FALSE, TRUE,
                              positions[e.key].gain)
            IN  /\ positions[e.key] # None /\ e.key \in Keys
                /\ o \in Order /\ Submit("user", o)
<1>1. e.key \in Keys /\ e.lot.type \in Types /\ e.lot.volume \in Nat \ {0}
  BY DEF TypeOK, Pair, Lot
<1>2. CASE Refused(e.key, Inv(e.lot.type), FALSE, "none")
  BY <1>2 DEF UserClose
<1>3. CASE ~Refused(e.key, Inv(e.lot.type), FALSE, "none")
  <2>1. positions[e.key] # None
    BY <1>3 DEF Refused
  <2>2. positions[e.key].gain \in -1 .. 1
    BY <1>1, <2>1 DEF TypeOK, Book, Position
  <2>3. Submit("user", OrderFor(e.key, Inv(e.lot.type), e.lot.volume, FALSE, TRUE,
                                positions[e.key].gain))
    BY <1>3 DEF UserClose
  <2>4. Inv(e.lot.type) \in Types /\ TRUE \in BOOLEAN /\ FALSE \in BOOLEAN
    BY <1>1, InvTypes
  <2>5. OrderFor(e.key, Inv(e.lot.type), e.lot.volume, FALSE, TRUE,
                 positions[e.key].gain) \in Order
    BY <1>1, <2>2, <2>4, OrderTypes
  <2> QED BY <1>1, <2>1, <2>3, <2>5
<1> QED BY <1>2, <1>3

LEMMA TickCloseTypes ==
  ASSUME TypeOK, NEW e \in tick.todo, TickClose(e)
  PROVE  TypeOK'
<1>1. TypeLocal'
  <2>1. tick'.todo \subseteq tick.todo
    BY DEF TickClose, TypeOK
  <2> QED BY <2>1 DEF TickClose, TypeOK, TypeLocal
<1>2. TypeBooks' /\ TypeRest'
  <2>1. CASE UNCHANGED <<books, exposure, call, counts, orders, tainted, boots, faults>>
    BY <2>1 DEF books, counts, orders, TypeOK, TypeBooks, TypeRest
  <2>2. CASE \E o \in Order : Submit("tick", o)
    BY <2>2, SubmitTypes DEF Callers
  <2> QED BY <2>1, <2>2, TickCloseSubmits
<1> QED BY <1>1, <1>2, TypePartsNext

LEMMA UserCloseTypes ==
  ASSUME TypeOK, NEW e \in user.todo, UserClose(e)
  PROVE  TypeOK'
<1>1. TypeLocal'
  <2>1. user'.todo \subseteq user.todo
    BY DEF UserClose, TypeOK
  <2> QED BY <2>1 DEF UserClose, TypeOK, TypeLocal
<1>2. TypeBooks' /\ TypeRest'
  <2>1. CASE UNCHANGED <<books, exposure, call, counts, orders, tainted, boots, faults>>
    BY <2>1 DEF books, counts, orders, TypeOK, TypeBooks, TypeRest
  <2>2. CASE \E o \in Order : Submit("user", o)
    BY <2>2, SubmitTypes DEF Callers
  <2> QED BY <2>1, <2>2, UserCloseSubmits
<1> QED BY <1>1, <1>2, TypePartsNext

LEMMA UserStartTypes ==
  ASSUME TypeOK, NEW arg \in Coins \cup {All, Blank}, UserStart(arg)
  PROVE  TypeOK'
<1>1. user' \in [active : BOOLEAN, arg : Coins \cup {All, Blank}, todo : SUBSET Pair]
  <2>1. CASE \E L \in Upstream :
               user' = [active |-> TRUE, arg |-> arg, todo |->
                 {e \in [key : IF arg \in Coins THEN On(positions, arg) ELSE Held(positions),
                         lot : L] :
                    e.lot.coin = e.key.coin /\ e.lot.type = positions[e.key].type}]
    <3>1. PICK L \in Upstream :
               user' = [active |-> TRUE, arg |-> arg, todo |->
                 {e \in [key : IF arg \in Coins THEN On(positions, arg) ELSE Held(positions),
                         lot : L] :
                    e.lot.coin = e.key.coin /\ e.lot.type = positions[e.key].type}]
      BY <2>1
    <3>2. L \subseteq Lot
      BY UpstreamLots DEF TypeOK
    <3>3. (IF arg \in Coins THEN On(positions, arg) ELSE Held(positions)) \subseteq Keys
      BY DEF On, Held
    <3> QED BY <3>1, <3>2, <3>3 DEF Pair
  <2>2. CASE user' = [active |-> TRUE, arg |-> arg, todo |-> {}]
    BY <2>2
  <2> QED BY <2>1, <2>2 DEF UserStart
<1>2. faults' \in Nat
  BY FaultTypes DEF UserStart, TypeOK
<1>3. TypeBooks' /\ TypeLocal' /\ TypeRest'
  BY <1>1, <1>2 DEF UserStart, books, counts, orders, TypeOK, TypeBooks, TypeLocal, TypeRest
<1> QED BY <1>3, TypePartsNext

LEMMA UserResetTypes ==
  ASSUME TypeOK, UserReset
  PROVE  TypeOK'
<1> DEFINE dropped == IF user.arg = All THEN Held(positions)
                      ELSE IF user.arg = Blank THEN {} ELSE On(positions, user.arg)
<1>1. /\ positions' = [k \in Keys |-> IF k \in dropped THEN None ELSE positions[k]]
      /\ tainted' = tainted \cup {k.coin : k \in dropped}
  BY DEF UserReset
<1>2. dropped \subseteq Keys
  BY DEF Held, On
<1>3. positions' \in Book
  BY <1>1 DEF TypeOK, Book
<1>4. tainted' \subseteq Coins
  BY <1>1, <1>2, KeyFacts DEF TypeOK
<1>5. disk' \in Book /\ saved' \in BOOLEAN /\ faults' \in Nat
  BY <1>3, SaveTypes DEF UserReset
<1>6. TypeBooks' /\ TypeLocal' /\ TypeRest'
  BY <1>3, <1>4, <1>5, IdleTypes DEF UserReset, counts, orders, TypeOK, TypeBooks, TypeLocal, TypeRest
<1> QED BY <1>6, TypePartsNext

LEMMA SyncStartTypes ==
  ASSUME TypeOK, SyncStart
  PROVE  TypeOK'
<1>1. PICK L \in Upstream : sync' = IF L = {} THEN IdleSync ELSE [lots |-> L, snap |-> positions]
  BY DEF SyncStart
<1>2. L \subseteq Lot
  BY UpstreamLots DEF TypeOK
<1>3. sync' \in [lots : SUBSET Lot, snap : Book]
  BY <1>1, <1>2, IdleTypes DEF TypeOK
<1>4. TypeBooks' /\ TypeLocal' /\ TypeRest'
  BY <1>3 DEF SyncStart, books, counts, orders, TypeOK, TypeBooks, TypeLocal, TypeRest
<1> QED BY <1>4, TypePartsNext

\* A synced or adopted position is a position.
LEMMA SyncedTypes ==
  ASSUME NEW l \in Lot
  PROVE  /\ Adopted(l) \in Position
         /\ \A p \in Position : Synced(p, l) \in Position
<1>1. l.type \in Types /\ l.volume \in Nat \ {0}
  BY DEF Lot
<1>2. Adopted(l) \in Position
  BY <1>1 DEF Adopted, Position
<1>3. ASSUME NEW p \in Position PROVE Synced(p, l) \in Position
  BY <1>1 DEF Synced, Position
<1> QED BY <1>2, <1>3

LEMMA SyncLotTypes ==
  ASSUME TypeOK, NEW l \in sync.lots, SyncLot(l)
  PROVE  TypeOK'
<1> DEFINE known == On(sync.snap, l.coin)
           stale == {k \in known : Synced(sync.snap[k], l) # sync.snap[k]}
<1>1. l \in Lot /\ l.coin \in Coins /\ sync.snap \in Book
  BY DEF TypeOK, Lot
<1>2. positions' \in Book
  <2>1. CASE known = {}
    <3>1. positions' = [positions EXCEPT ![BareKey(l.coin)] = Adopted(l)]
      BY <2>1 DEF SyncLot
    <3> QED BY <1>1, <3>1, SyncedTypes DEF TypeOK, Book
  <2>2. CASE known # {}
    <3>1. positions' = [k \in Keys |-> IF k \in stale THEN Synced(sync.snap[k], l)
                                       ELSE positions[k]]
      BY <2>2 DEF SyncLot
    <3>2. \A k \in stale : Synced(sync.snap[k], l) \in Position
      BY <1>1, HeldPosition, SyncedTypes
    <3> QED BY <3>1, <3>2 DEF TypeOK, Book
  <2> QED BY <2>1, <2>2
<1>3. disk' \in Book /\ saved' \in BOOLEAN /\ faults' \in Nat
  BY <1>2, SaveTypes DEF SyncLot, TypeOK
<1>4. sync' \in [lots : SUBSET Lot, snap : Book]
  BY IdleTypes DEF SyncLot, TypeOK
<1>5. tainted' \subseteq Coins
  BY <1>1 DEF SyncLot, TypeOK
<1>6. TypeBooks' /\ TypeLocal' /\ TypeRest'
  BY <1>2, <1>3, <1>4, <1>5
     DEF SyncLot, counts, orders, TypeOK, TypeBooks, TypeLocal, TypeRest
<1> QED BY <1>6, TypePartsNext

LEMMA DriftTypes ==
  ASSUME TypeOK, NEW c \in Coins, NEW e \in Drifts, Drift(c, e)
  PROVE  TypeOK'
<1>1. faults' \in Nat /\ exposure' \in [Coins -> Int] /\ tainted' \subseteq Coins
  BY FaultTypes DEF Drift, TypeOK
<1>2. TypeBooks' /\ TypeLocal' /\ TypeRest'
  BY <1>1 DEF Drift, books, local, counts, orders, TypeOK, TypeBooks, TypeLocal, TypeRest
<1> QED BY <1>2, TypePartsNext

\* What load makes of a book is a book.
LEMMA LoadedTypes ==
  ASSUME NEW blob \in Book, NEW book \in Loaded(blob)
  PROVE  book \in Book
BY DEF Loaded, Held, Book

LEMMA RestartTypes ==
  ASSUME TypeOK, Restart
  PROVE  TypeBooks' /\ TypeLocal' /\ (faults' \in Nat => TypeRest')
<1>1. PICK blob \in IF Saving THEN {disk, Empty} ELSE {disk} :
       /\ positions' \in Loaded(blob)
       /\ disk' = blob
       /\ tainted' = tainted \cup {call[g].key.coin : g \in {h \in Callers : call[h] # None}}
            \cup {c \in Coins : ~saved \/ blob # disk}
            \cup {k.coin : k \in {i \in Held(disk) :
                                    \E j \in Held(disk) \ {i} : Stored(i) = Stored(j)}}
  BY DEF Restart
<1>2. blob \in Book
  BY EmptyBook DEF TypeOK
<1>3. TypeBooks'
  BY <1>1, <1>2, LoadedTypes DEF Restart, TypeBooks
<1>4. TypeLocal'
  BY IdleTypes DEF Restart, TypeLocal
<1>5. tainted' \subseteq Coins
  <2>1. \A h \in Callers : call[h] # None => call[h].key.coin \in Coins
    BY KeyFacts DEF TypeOK, Order
  <2>2. \A k \in Held(disk) : k.coin \in Coins
    BY KeyFacts DEF Held
  <2> QED BY <1>1, <2>1, <2>2 DEF TypeOK
<1>6. faults' \in Nat => TypeRest'
  BY <1>5 DEF Restart, orders, TypeOK, TypeRest
<1> QED BY <1>3, <1>4, <1>6

LEMMA CrashTypes ==
  ASSUME TypeOK, Crash
  PROVE  TypeOK'
BY RestartTypes, FaultTypes, TypePartsNext DEF Crash, TypeOK

LEMMA UserPanicTypes ==
  ASSUME TypeOK, NEW e \in user.todo, UserPanic(e)
  PROVE  TypeOK'
BY RestartTypes, TypePartsNext DEF UserPanic, TypeOK

LEMMA InitTypes == Init => TypeOK
<1> SUFFICES ASSUME Init PROVE TypeOK
  OBVIOUS
<1>1. call \in [Callers -> Order \cup {None}]
  BY DEF Init
<1>2. TypeBooks /\ TypeLocal
  BY EmptyBook, IdleTypes DEF Init, TypeBooks, TypeLocal
<1>3. TypeRest
  BY <1>1 DEF Init, TypeRest
<1> QED BY <1>2, <1>3, TypeParts

LEMMA NextTypes == TypeOK /\ [Next]_vars => TypeOK'
<1> SUFFICES ASSUME TypeOK, [Next]_vars PROVE TypeOK'
  OBVIOUS
<1>1. CASE UNCHANGED vars
  BY <1>1 DEF vars, TypeOK
<1>2. ASSUME NEW k \in Keys, NEW t \in Types, NEW v \in Volumes, NEW live \in Lives,
             NEW d \in Decisions, Signal(k, t, v, live, d)
      PROVE  TypeOK'
  BY <1>2, SignalTypes
<1>3. ASSUME NEW c \in Coins, TickRead(c) PROVE TypeOK'
  BY <1>3, TickReadTypes
<1>4. CASE TickSwap
  BY <1>4, TickSwapTypes
<1>5. ASSUME NEW e \in tick.todo, TickClose(e) PROVE TypeOK'
  BY <1>5, TickCloseTypes
<1>6. ASSUME NEW arg \in Coins \cup {All, Blank}, UserStart(arg) PROVE TypeOK'
  BY <1>6, UserStartTypes
<1>7. ASSUME NEW e \in user.todo, UserClose(e) \/ UserPanic(e) PROVE TypeOK'
  BY <1>7, UserCloseTypes, UserPanicTypes
<1>8. CASE UserReset
  BY <1>8, UserResetTypes
<1>9. CASE SyncStart
  BY <1>9, SyncStartTypes
<1>10. ASSUME NEW l \in sync.lots, SyncLot(l) PROVE TypeOK'
  BY <1>10, SyncLotTypes
<1>11. ASSUME NEW g \in Callers,
              CommitOpen(g) \/ CommitClose(g) \/ Reverse(g) \/ CommitReverse(g)
       PROVE  TypeOK'
  BY <1>11, CommitOpenTypes, CommitCloseTypes, ReverseTypes, CommitReverseTypes
<1>12. ASSUME NEW c \in Coins, NEW e \in Drifts, Drift(c, e) PROVE TypeOK'
  BY <1>12, DriftTypes
<1>13. CASE Crash
  BY <1>13, CrashTypes
<1> QED BY <1>1, <1>2, <1>3, <1>4, <1>5, <1>6, <1>7, <1>8, <1>9, <1>10, <1>11, <1>12, <1>13
        DEF Next

\* Every reachable state of the wallet has the types of TypeOK, whatever the
\* coins, keys, volumes, faults and interleavings.
THEOREM TypeCorrect == Spec => []TypeOK
BY InitTypes, NextTypes, PTL DEF Spec

-----------------------------------------------------------------------------
(* Handlers that do not overlap.                                           *)

TickBusy == tick # IdleTick \/ call["tick"] # None
UserBusy == user.active
SyncBusy == sync # IdleSync

\* At most one goroutine is inside a handler, and the book is the one the tick
\* goroutine read.
Exclusive ==
  /\ ~(TickBusy /\ UserBusy) /\ ~(TickBusy /\ SyncBusy) /\ ~(UserBusy /\ SyncBusy)
  /\ call["user"] # None \/ user.todo # {} => user.active
  /\ tick.coin # Blank => call["tick"] = None /\ tick.todo = {} /\ tick.snap = positions

\* The position an order is about, between its answer and its commit.
Served(o) ==
  IF o.stage = "sent" /\ o.closing
  THEN /\ positions[o.key] # None
       /\ positions[o.key].type = Inv(o.type)
       /\ positions[o.key].volume = o.volume
  ELSE positions[o.key] = None

AllServed == \A g \in Callers : call[g] # None => Served(call[g])

\* A handler that may start finds the others between handlers.
LEMMA Alone ==
  ASSUME Serial, Exclusive, NEW g, MayStart(g)
  PROVE  /\ tick = IdleTick /\ ~user.active /\ sync = IdleSync
         /\ call["tick"] = None /\ call["user"] = None
BY DEF MayStart, AllIdle, Idle, Exclusive

LEMMA IdleFacts ==
  /\ IdleTick.coin = Blank /\ IdleTick.todo = {} /\ IdleTick.snap = Empty
  /\ IdleUser.active = FALSE /\ IdleUser.todo = {}
  /\ IdleSync.lots = {} /\ IdleSync.snap = Empty
BY DEF IdleTick, IdleUser, IdleSync

\* Only one call is out at a time.
LEMMA OneCall ==
  ASSUME Exclusive, NEW g \in Callers, NEW h \in Callers, call[g] # None, call[h] # None
  PROVE  g = h
BY DEF Exclusive, Callers, TickBusy, UserBusy

LEMMA InitExclusive == Init => Exclusive /\ AllServed
BY IdleFacts DEF Init, Exclusive, AllServed, TickBusy, UserBusy, SyncBusy, Callers

LEMMA CommitExclusive ==
  ASSUME TypeOK, Exclusive, NEW g \in Callers,
         CommitOpen(g) \/ CommitClose(g) \/ Reverse(g) \/ CommitReverse(g)
  PROVE  Exclusive'
<1>1. call[g] # None
  BY DEF CommitOpen, CommitClose, Reverse, CommitReverse
<1>2. /\ tick' = tick /\ sync' = sync
      /\ user'.active = user.active /\ user'.todo \subseteq user.todo
  BY DEF CommitOpen, CommitClose, Reverse, CommitReverse, local, TypeOK
<1>3. \A h \in Callers : h # g => call'[h] = call[h]
  BY DEF CommitOpen, CommitClose, Reverse, CommitReverse, TypeOK
<1>4. CASE g = "tick"
  <2>1. call'["user"] = call["user"] /\ tick.coin = Blank
    BY <1>1, <1>3, <1>4 DEF Exclusive, Callers
  <2> QED BY <1>1, <1>2, <1>4, <2>1 DEF Exclusive, TickBusy, UserBusy, SyncBusy
<1>5. CASE g = "user"
  <2>1. call'["tick"] = call["tick"] /\ user.active
    BY <1>1, <1>3, <1>5 DEF Exclusive, Callers
  <2>2. tick = IdleTick /\ call["tick"] = None
    BY <2>1 DEF Exclusive, TickBusy, UserBusy
  <2> QED BY <1>1, <1>2, <1>5, <2>1, <2>2, IdleFacts DEF Exclusive, TickBusy, UserBusy, SyncBusy
<1> QED BY <1>4, <1>5 DEF Callers

LEMMA RestartExclusive == ASSUME Restart PROVE Exclusive'
BY IdleFacts DEF Restart, Exclusive, TickBusy, UserBusy, SyncBusy, Callers

LEMMA NextExclusive ==
  ASSUME Serial, TypeOK, Exclusive, [Next]_vars
  PROVE  Exclusive'
<1>1. CASE UNCHANGED vars
  BY <1>1 DEF vars, Exclusive, TickBusy, UserBusy, SyncBusy
<1>2. ASSUME NEW k \in Keys, NEW t \in Types, NEW v \in Volumes, NEW live \in Lives,
             NEW d \in Decisions, Signal(k, t, v, live, d)
      PROVE  Exclusive'
  <2>1. UNCHANGED local /\ call'["user"] = call["user"]
    BY <1>2 DEF Signal, Submit, TypeOK, Callers
  <2> QED BY <1>2, <2>1, Alone, IdleFacts
          DEF Signal, Exclusive, TickBusy, UserBusy, SyncBusy, local
<1>3. ASSUME NEW c \in Coins, TickRead(c) PROVE Exclusive'
  <2>1. tick' = [tick EXCEPT !.coin = c, !.snap = positions] /\ UNCHANGED <<positions, call, user, sync>>
    BY <1>3 DEF TickRead, books
  <2>2. tick'.todo = {} /\ tick'.snap = positions
    BY <1>3, <2>1, Alone, IdleFacts DEF TickRead, TypeOK
  <2> QED BY <1>3, <2>1, <2>2, Alone DEF TickRead, Exclusive, TickBusy, UserBusy, SyncBusy
<1>4. CASE TickSwap
  <2>1. tick.coin # Blank /\ tick'.coin = Blank /\ UNCHANGED <<call, user, sync>>
    BY <1>4, IdleFacts DEF TickSwap
  <2>2. tick # IdleTick
    BY <2>1, IdleFacts
  <2> QED BY <2>1, <2>2 DEF Exclusive, TickBusy, UserBusy, SyncBusy
<1>5. ASSUME NEW e \in tick.todo, TickClose(e) PROVE Exclusive'
  <2>1. tick.coin = Blank /\ tick # IdleTick
    BY IdleFacts DEF Exclusive
  <2>2. tick'.coin = Blank /\ UNCHANGED <<user, sync>>
    BY <1>5, <2>1 DEF TickClose, TypeOK
  <2>3. call'["user"] = call["user"]
    BY <1>5 DEF TickClose, Submit, TypeOK, Callers
  <2> QED BY <2>1, <2>2, <2>3 DEF Exclusive, TickBusy, UserBusy, SyncBusy
<1>6. ASSUME NEW arg \in Coins \cup {All, Blank}, UserStart(arg) PROVE Exclusive'
  <2>1. UNCHANGED <<tick, sync, call>>
    BY <1>6 DEF UserStart
  <2> QED BY <1>6, <2>1, Alone, IdleFacts DEF UserStart, Exclusive, TickBusy, UserBusy, SyncBusy
<1>7. ASSUME NEW e \in user.todo, UserClose(e) \/ UserPanic(e) PROVE Exclusive'
  <2>1. CASE UserPanic(e)
    BY <2>1, RestartExclusive DEF UserPanic
  <2>2. CASE UserClose(e)
    <3>1. user'.active = user.active /\ UNCHANGED <<tick, sync>> /\ call'["tick"] = call["tick"]
      <4>1. user' = [user EXCEPT !.todo = @ \ {e}] /\ UNCHANGED <<tick, sync>>
        BY <2>2 DEF UserClose
      <4>2. user'.active = user.active
        BY <4>1 DEF TypeOK
      <4>3. call'["tick"] = call["tick"]
        BY <2>2 DEF UserClose, Submit, TypeOK, Callers
      <4> QED BY <4>1, <4>2, <4>3
    <3>2. user.active /\ UserBusy
      BY DEF Exclusive, UserBusy
    <3>3. ~TickBusy
      BY <3>2 DEF Exclusive
    <3>4. tick.coin = Blank
      BY <3>3, IdleFacts DEF TickBusy
    <3> QED BY <3>1, <3>2, <3>3, <3>4 DEF Exclusive, TickBusy, UserBusy, SyncBusy
  <2> QED BY <1>7, <2>1, <2>2
<1>8. CASE UserReset
  <2>1. user' = IdleUser /\ user.active /\ call["user"] = None /\ UNCHANGED <<tick, sync, call>>
    BY <1>8 DEF UserReset
  <2>2. tick = IdleTick
    BY <2>1 DEF Exclusive, TickBusy, UserBusy
  <2> QED BY <2>1, <2>2, IdleFacts DEF Exclusive, TickBusy, UserBusy, SyncBusy
<1>9. CASE SyncStart
  <2>1. UNCHANGED <<positions, tick, user, call>>
    BY <1>9 DEF SyncStart, books
  <2> QED BY <1>9, <2>1, Alone DEF SyncStart, Exclusive, TickBusy, UserBusy, SyncBusy
<1>10. ASSUME NEW l \in sync.lots, SyncLot(l) PROVE Exclusive'
  <2>1. sync # IdleSync /\ UNCHANGED <<tick, user, call>>
    BY <1>10, IdleFacts DEF SyncLot
  <2>2. tick = IdleTick
    BY <2>1 DEF Exclusive, TickBusy, SyncBusy
  <2> QED BY <2>1, <2>2, IdleFacts DEF Exclusive, TickBusy, UserBusy, SyncBusy
<1>11. ASSUME NEW g \in Callers,
              CommitOpen(g) \/ CommitClose(g) \/ Reverse(g) \/ CommitReverse(g)
       PROVE  Exclusive'
  BY <1>11, CommitExclusive
<1>12. ASSUME NEW c \in Coins, NEW e \in Drifts, Drift(c, e) PROVE Exclusive'
  BY <1>12 DEF Drift, books, local, Exclusive, TickBusy, UserBusy, SyncBusy
<1>13. CASE Crash
  BY <1>13, RestartExclusive DEF Crash
<1> QED BY <1>1, <1>2, <1>3, <1>4, <1>5, <1>6, <1>7, <1>8, <1>9, <1>10, <1>11, <1>12, <1>13
        DEF Next

-----------------------------------------------------------------------------
(* A closing order finds its position.                                     *)

\* The order built for a request fits the position it was built from.
LEMMA OrderServed ==
  ASSUME TypeOK, NEW k \in Keys, NEW t, NEW v, NEW open, NEW live, NEW gain
  PROVE  Served(OrderFor(k, t, v, open, live, gain))
<1>1. CASE positions[k] = None
  BY <1>1 DEF Served, OrderFor
<1>2. CASE positions[k] # None
  <2>1. positions[k].type \in Types
    BY <1>2 DEF TypeOK, Book, Position
  <2> QED BY <1>2, <2>1, InvTypes DEF Served, OrderFor
<1> QED BY <1>1, <1>2

LEMMA SubmitServed ==
  ASSUME TypeOK, AllServed, NEW g \in Callers, NEW o \in Order, Served(o), Submit(g, o)
  PROVE  AllServed'
<1>1. positions' = positions
  BY DEF Submit, books
<1>2. \A h \in Callers : call'[h] = call[h] \/ call'[h] = o
  BY DEF Submit, TypeOK
<1> QED BY <1>1, <1>2 DEF AllServed, Served

\* The commit of the only call that is out.
LEMMA CommitServed ==
  ASSUME TypeOK, Exclusive, AllServed, NEW g \in Callers,
         CommitOpen(g) \/ CommitClose(g) \/ Reverse(g) \/ CommitReverse(g)
  PROVE  AllServed'
<1>1. call[g] # None /\ call[g] \in Order /\ call[g].key \in Keys
  BY DEF CommitOpen, CommitClose, Reverse, CommitReverse, TypeOK, Order
<1>2. \A h \in Callers : h # g => call'[h] = None
  BY <1>1, OneCall DEF CommitOpen, CommitClose, Reverse, CommitReverse, TypeOK
<1>3. CASE call'[g] = None
  BY <1>2, <1>3 DEF AllServed
<1>4. CASE CommitClose(g) /\ call'[g] # None
  <2>1. call' = [call EXCEPT ![g].stage = "closed"]
    BY <1>4 DEF CommitClose, TypeOK
  <2>2. call'[g].stage = "closed" /\ call'[g].key = call[g].key
    BY <2>1, <1>1 DEF TypeOK, Order
  <2>3. positions'[call[g].key] = None
    BY <1>1, <1>4 DEF CommitClose, CloseBook, books, TypeOK, Book
  <2> QED BY <1>2, <2>2, <2>3 DEF AllServed, Served
<1>5. CASE Reverse(g) /\ call'[g] # None
  <2>1. call' = [call EXCEPT ![g].stage = "reversed"]
    BY <1>5 DEF Reverse, TypeOK
  <2>2. call'[g].stage = "reversed" /\ call'[g].key = call[g].key
    BY <2>1, <1>1 DEF TypeOK, Order
  <2>3. positions[call[g].key] = None
    BY <1>1, <1>5 DEF Reverse, AllServed, Served
  <2>4. positions' = positions
    BY <1>5 DEF Reverse, books
  <2> QED BY <1>2, <2>2, <2>3, <2>4 DEF AllServed, Served
<1> QED BY <1>3, <1>4, <1>5 DEF CommitOpen, CommitReverse, TypeOK

\* A step of a goroutine while no call is out, and after which none is.
LEMMA NoCallServed ==
  ASSUME call' = call, \A g \in Callers : call[g] = None
  PROVE  AllServed'
BY DEF AllServed

LEMMA NextServed ==
  ASSUME Serial, TypeOK, Exclusive, AllServed, [Next]_vars
  PROVE  AllServed'
<1>1. CASE UNCHANGED vars
  BY <1>1 DEF vars, AllServed, Served
<1>2. ASSUME NEW k \in Keys, NEW t \in Types, NEW v \in Volumes, NEW live \in Lives,
             NEW d \in Decisions, Signal(k, t, v, live, d)
      PROVE  AllServed'
  <2>1. PICK gain \in Value(k, t) : Submit("tick", OrderFor(k, t, v, TRUE, live, gain))
    BY <1>2 DEF Signal
  <2>2. gain \in -1 .. 1
    BY <2>1, ValueTypes
  <2>3. v \in Nat \ {0} /\ live \in BOOLEAN /\ TRUE \in BOOLEAN /\ "tick" \in Callers
    BY DEF Callers
  <2>4. OrderFor(k, t, v, TRUE, live, gain) \in Order
    BY <2>2, <2>3, OrderTypes
  <2> QED BY <2>1, <2>3, <2>4, OrderServed, SubmitServed
<1>3. ASSUME NEW c \in Coins, TickRead(c) PROVE AllServed'
  BY <1>3 DEF TickRead, books, AllServed, Served
<1>4. CASE TickSwap
  <2>1. call["tick"] = None /\ TickBusy
    BY <1>4, IdleFacts DEF TickSwap, Exclusive, TickBusy
  <2>2. call["user"] = None
    BY <2>1 DEF Exclusive, UserBusy
  <2> QED BY <1>4, <2>1, <2>2, NoCallServed DEF TickSwap, Callers
<1>5. ASSUME NEW e \in tick.todo, TickClose(e) PROVE AllServed'
  <2>1. CASE UNCHANGED <<books, exposure, call, counts, orders, tainted, boots, faults>>
    BY <2>1 DEF books, AllServed, Served
  <2>2. CASE \E o \in Order : Served(o) /\ Submit("tick", o)
    BY <2>2, SubmitServed DEF Callers
  <2> QED BY <1>5, <2>1, <2>2, TickCloseSubmits, OrderServed
<1>6. ASSUME NEW arg \in Coins \cup {All, Blank}, UserStart(arg) PROVE AllServed'
  BY <1>6 DEF UserStart, books, AllServed, Served
<1>7. ASSUME NEW e \in user.todo, UserClose(e) \/ UserPanic(e) PROVE AllServed'
  <2>1. CASE UserPanic(e)
    BY <2>1 DEF UserPanic, Restart, AllServed
  <2>2. CASE UserClose(e)
    <3>1. CASE UNCHANGED <<books, exposure, call, counts, orders, tainted, boots, faults>>
      BY <3>1 DEF books, AllServed, Served
    <3>2. CASE \E o \in Order : Served(o) /\ Submit("user", o)
      BY <3>2, SubmitServed DEF Callers
    <3> QED BY <2>2, <3>1, <3>2, UserCloseSubmits, OrderServed
  <2> QED BY <1>7, <2>1, <2>2
<1>8. CASE UserReset
  <2>1. call["user"] = None /\ UserBusy
    BY <1>8 DEF UserReset, UserBusy
  <2>2. call["tick"] = None
    BY <2>1 DEF Exclusive, TickBusy
  <2> QED BY <1>8, <2>1, <2>2, NoCallServed DEF UserReset, Callers
<1>9. CASE SyncStart
  BY <1>9 DEF SyncStart, books, AllServed, Served
<1>10. ASSUME NEW l \in sync.lots, SyncLot(l) PROVE AllServed'
  <2>1. SyncBusy
    BY IdleFacts DEF SyncBusy
  <2>2. call["tick"] = None /\ call["user"] = None
    BY <2>1 DEF Exclusive, TickBusy, UserBusy
  <2> QED BY <1>10, <2>2, NoCallServed DEF SyncLot, Callers
<1>11. ASSUME NEW g \in Callers,
              CommitOpen(g) \/ CommitClose(g) \/ Reverse(g) \/ CommitReverse(g)
       PROVE  AllServed'
  BY <1>11, CommitServed
<1>12. ASSUME NEW c \in Coins, NEW e \in Drifts, Drift(c, e) PROVE AllServed'
  BY <1>12 DEF Drift, books, AllServed, Served
<1>13. CASE Crash
  BY <1>13 DEF Crash, Restart, AllServed
<1> QED BY <1>1, <1>2, <1>3, <1>4, <1>5, <1>6, <1>7, <1>8, <1>9, <1>10, <1>11, <1>12, <1>13
        DEF Next

\* While handlers do not overlap, no two closers of a position reach the
\* exchange, and none of them an order of another side or size.
THEOREM CloseFinds == Serial => (Spec => []CloseFindsPosition)
<1>1. Init => TypeOK /\ Exclusive /\ AllServed
  BY InitTypes, InitExclusive
<1>2. ASSUME Serial
      PROVE  TypeOK /\ Exclusive /\ AllServed /\ [Next]_vars
               => (TypeOK /\ Exclusive /\ AllServed)'
  BY <1>2, NextTypes, NextExclusive, NextServed
<1>3. AllServed => CloseFindsPosition
  BY DEF AllServed, Served, CloseFindsPosition
<1>4. CASE Serial
  <2>1. TypeOK /\ Exclusive /\ AllServed /\ [Next]_vars
               => (TypeOK /\ Exclusive /\ AllServed)'
    BY <1>2, <1>4
  <2>2. Spec => []CloseFindsPosition
    BY <1>1, <2>1, <1>3, PTL DEF Spec
  <2> QED BY <2>2
<1> QED BY <1>4

-----------------------------------------------------------------------------
(* What a restart reads back is the book.                                  *)

LEMMA StoredTwice == \A k \in Keys : Stored(Stored(k)) = Stored(k)
<1>1. SUFFICES ASSUME NEW k \in Keys PROVE Stored(Stored(k)) = Stored(k)
  OBVIOUS
<1>2. k = [coin |-> k.coin, duration |-> k.duration, tag |-> k.tag]
  OBVIOUS
<1>3. Stored(k) = [coin |-> k.coin, duration |-> k.duration, tag |-> NoTag]
  BY <1>2 DEF Stored
<1> QED BY <1>3 DEF Stored

LEMMA UnchangedDisk ==
  ASSUME DiskCoversBook, UNCHANGED books
  PROVE  DiskCoversBook'
BY DEF DiskCoversBook, books, Held, SameButGain

LEMMA SavedDisk ==
  ASSUME SaveBook(positions')
  PROVE  DiskCoversBook'
BY DEF SaveBook, DiskCoversBook, Held, SameButGain

\* update changes nothing but results.
LEMMA SwappedDisk ==
  ASSUME TypeOK, Exclusive, DiskCoversBook, TickSwap
  PROVE  DiskCoversBook'
<1>1. tick.snap = positions /\ positions \in Book
  BY DEF TickSwap, Exclusive, TypeOK
<1>2. PICK G \in [On(tick.snap, tick.coin) -> Gains] :
        positions' = [k \in Keys |-> IF k \in DOMAIN G
                        THEN [tick.snap[k] EXCEPT !.gain = G[k]] ELSE tick.snap[k]]
  BY DEF TickSwap
<1>3. \A k \in DOMAIN G : k \in Keys /\ positions[k] \in Position /\ G[k] \in -1 .. 1
  BY <1>1, HeldPosition
<1>4. \A k \in DOMAIN G : [positions[k] EXCEPT !.gain = G[k]] \in Position
  BY <1>3 DEF Position
<1>5. Held(positions') = Held(positions)
  BY <1>1, <1>2, <1>3, <1>4 DEF Held
<1>6. \A k \in Keys : [positions'[k] EXCEPT !.gain = 0] = [positions[k] EXCEPT !.gain = 0]
  <2>1. ASSUME NEW k \in DOMAIN G
        PROVE  [positions'[k] EXCEPT !.gain = 0] = [positions[k] EXCEPT !.gain = 0]
    <3>1. positions'[k] = [positions[k] EXCEPT !.gain = G[k]]
      BY <1>1, <1>2, <1>3, <2>1
    <3> QED BY <1>3, <3>1 DEF Position
  <2> QED BY <1>1, <1>2, <2>1
<1>7. disk' = disk /\ saved' = saved
  BY DEF TickSwap
<1> QED BY <1>5, <1>6, <1>7 DEF DiskCoversBook, SameButGain, Held

LEMMA RestartDisk ==
  ASSUME TypeOK, Restart
  PROVE  DiskCoversBook'
<1>1. disk' \in Book /\ positions' \in Loaded(disk')
  BY RestartTypes DEF Restart, TypeBooks
<1>2. \A k \in Held(positions') : \E j \in Held(disk') :
         Stored(j) = k /\ positions'[k] = disk'[j]
  BY <1>1 DEF Loaded, Held
<1>3. \A j \in Held(disk') : Stored(j) \in Keys /\ positions'[Stored(j)] # None
  <2>1. SUFFICES ASSUME NEW j \in Held(disk')
                 PROVE  Stored(j) \in Keys /\ positions'[Stored(j)] # None
    OBVIOUS
  <2>2. Stored(j) \in Keys
    BY KeyFacts DEF Held
  <2>3. PICK i \in Held(disk') : positions'[Stored(j)] = disk'[i]
    BY <1>1, <2>2 DEF Loaded
  <2> QED BY <2>2, <2>3 DEF Held
<1>4. \A j \in Held(disk') : j \in Keys
  BY DEF Held
<1> QED BY <1>2, <1>3, <1>4, StoredTwice DEF DiskCoversBook, SameButGain, Held

LEMMA CommitDisk ==
  ASSUME DiskCoversBook, NEW g \in Callers,
         CommitOpen(g) \/ CommitClose(g) \/ Reverse(g) \/ CommitReverse(g)
  PROVE  DiskCoversBook'
<1>1. UNCHANGED books \/ SaveBook(positions')
  BY DEF CommitOpen, CommitClose, Reverse, CommitReverse, AddBook, CloseBook
<1> QED BY <1>1, UnchangedDisk, SavedDisk

LEMMA NextDisk ==
  ASSUME Serial, TypeOK, Exclusive, DiskCoversBook, [Next]_vars
  PROVE  DiskCoversBook'
<1>1. CASE UNCHANGED vars
  BY <1>1, UnchangedDisk DEF vars, books
<1>2. ASSUME NEW k \in Keys, NEW t \in Types, NEW v \in Volumes, NEW live \in Lives,
             NEW d \in Decisions, Signal(k, t, v, live, d)
      PROVE  DiskCoversBook'
  BY <1>2, UnchangedDisk DEF Signal, Submit
<1>3. ASSUME NEW c \in Coins, TickRead(c) PROVE DiskCoversBook'
  BY <1>3, UnchangedDisk DEF TickRead
<1>4. CASE TickSwap
  BY <1>4, SwappedDisk
<1>5. ASSUME NEW e \in tick.todo, TickClose(e) PROVE DiskCoversBook'
  BY <1>5, UnchangedDisk DEF TickClose, Submit
<1>6. ASSUME NEW arg \in Coins \cup {All, Blank}, UserStart(arg) PROVE DiskCoversBook'
  BY <1>6, UnchangedDisk DEF UserStart
<1>7. ASSUME NEW e \in user.todo, UserClose(e) \/ UserPanic(e) PROVE DiskCoversBook'
  BY <1>7, UnchangedDisk, RestartDisk DEF UserClose, UserPanic, Submit
<1>8. CASE UserReset
  BY <1>8, SavedDisk DEF UserReset
<1>9. CASE SyncStart
  BY <1>9, UnchangedDisk DEF SyncStart
<1>10. ASSUME NEW l \in sync.lots, SyncLot(l) PROVE DiskCoversBook'
  <2> DEFINE known == On(sync.snap, l.coin)
             stale == {k \in known : Synced(sync.snap[k], l) # sync.snap[k]}
  <2>1. CASE known = {} \/ stale # {}
    BY <1>10, <2>1, SavedDisk DEF SyncLot
  <2>2. CASE known # {} /\ stale = {}
    <3>1. positions' = [k \in Keys |-> positions[k]]
      BY <1>10, <2>2 DEF SyncLot
    <3>2. positions' = positions /\ UNCHANGED <<disk, saved>>
      BY <1>10, <2>2, <3>1 DEF SyncLot, TypeOK, Book
    <3> QED BY <3>2, UnchangedDisk DEF books
  <2> QED BY <2>1, <2>2
<1>11. ASSUME NEW g \in Callers,
              CommitOpen(g) \/ CommitClose(g) \/ Reverse(g) \/ CommitReverse(g)
       PROVE  DiskCoversBook'
  BY <1>11, CommitDisk
<1>12. ASSUME NEW c \in Coins, NEW e \in Drifts, Drift(c, e) PROVE DiskCoversBook'
  BY <1>12, UnchangedDisk DEF Drift
<1>13. CASE Crash
  BY <1>13, RestartDisk DEF Crash
<1> QED BY <1>1, <1>2, <1>3, <1>4, <1>5, <1>6, <1>7, <1>8, <1>9, <1>10, <1>11, <1>12, <1>13
        DEF Next

\* While handlers do not overlap, whatever faults happen, a restart after a
\* save that succeeded loses no position and no side, size or flag of one.
THEOREM DiskCovers == Serial => (Spec => []DiskCoversBook)
<1>1. Init => TypeOK /\ Exclusive /\ DiskCoversBook
  BY InitTypes, InitExclusive DEF Init, DiskCoversBook, Held, SameButGain
<1>2. CASE Serial
  <2>1. TypeOK /\ Exclusive /\ DiskCoversBook /\ [Next]_vars
               => (TypeOK /\ Exclusive /\ DiskCoversBook)'
    BY <1>2, NextTypes, NextExclusive, NextDisk
  <2>2. Spec => []DiskCoversBook
    BY <1>1, <2>1, PTL DEF Spec
  <2> QED BY <2>2
<1> QED BY <1>2

=============================================================================
