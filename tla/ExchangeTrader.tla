--------------------------- MODULE ExchangeTrader ---------------------------
(***************************************************************************)
(* The wallet of internal/trader: an ExchangeTrader, the trader (position  *)
(* book) it owns, the blob the book is saved in, and the margin account of *)
(* the exchange.                                                           *)
(*                                                                         *)
(* Three goroutines drive one wallet and share it without excluding each   *)
(* other, since every method of trader either takes the read lock only or  *)
(* no lock at all:                                                         *)
(*                                                                         *)
(*   tick   the trade processor: trader.update, then one CreateOrder per   *)
(*          position over a threshold; or a strategy signal                *)
(*   user   the "?tr close" command: snapshots, CreateOrder loop, Reset    *)
(*   sync   every five minutes: upstream snapshot, local snapshot, writes  *)
(*                                                                         *)
(* A handler is cut into steps where the code can lose the processor to    *)
(* another goroutine for long: at each exchange call and between the read  *)
(* of a snapshot and the write that uses it.  Serial = TRUE lets a handler *)
(* start only when the other goroutines are between handlers, which is     *)
(* what an exclusive lock around them would give.                          *)
(*                                                                         *)
(* Data: a volume is a small integer; PnL and value are their common sign, *)
(* gain \in -1..1 (both are value over a positive cost); a price is where  *)
(* it came from, the order or the upstream fill.  A network or strategy    *)
(* name of a key is its tag.                                               *)
(***************************************************************************)
EXTENDS Integers, FiniteSets

CONSTANTS
  Coins,      \* coins traded
  Keys,       \* model.Key values: [coin, duration, tag]
  NoTag,      \* the tag of a key without strategy and network
  Volumes,    \* order sizes settings.OpenValue / price can give
  None,       \* no position, no call
  All,        \* model.AllCoins as argument of a command
  Blank,      \* model.NoCoin as argument of a command
  Gains,      \* signs a result can have after a tick
  Lives,      \* values of the live flag of a signal
  Serial,     \* handlers do not overlap
  Faults,     \* kinds of fault that may happen
  MaxFaults,  \* bound on the number of faults
  Drifts,     \* exposures the account may drift to
  MaxOrders   \* no handler starts once so many orders were sent

Types == {"Buy", "Sell"}
Decisions == {"none", "good", "poor"}
FaultKinds == {"reject", "lost", "save", "drift", "crash"}
Callers == {"tick", "user"}

BareKey(c) == [coin |-> c, duration |-> 0, tag |-> NoTag]

\* FromString(k.ToString()): only the coin and the duration are parsed back.
Stored(k) == [k EXCEPT !.tag = NoTag]

ASSUME KeysAssumption ==
  /\ \A k \in Keys : /\ k = [coin |-> k.coin, duration |-> k.duration, tag |-> k.tag]
                     /\ k.coin \in Coins
                     /\ Stored(k) \in Keys
  /\ \A c \in Coins : BareKey(c) \in Keys
ASSUME DataAssumption ==
  /\ Volumes \subseteq Nat \ {0}
  /\ Gains \subseteq -1 .. 1
  /\ Lives \subseteq BOOLEAN
  /\ Serial \in BOOLEAN
  /\ Faults \subseteq FaultKinds
  /\ Drifts \subseteq Int
  /\ MaxFaults \in Nat
  /\ MaxOrders \in Nat
  /\ All \notin Coins /\ Blank \notin Coins /\ All # Blank

-----------------------------------------------------------------------------

Position == [type : Types, volume : Nat \ {0}, live : BOOLEAN,
             gain : -1 .. 1, price : {"order", "fill"}]

ASSUME NoneAssumption == None \notin Position

VARIABLES
  positions,  \* trader.positions: the book
  disk,       \* the blob of trader.save
  exposure,   \* per coin, the signed volume open on the exchange
  call,       \* per caller, the CreateOrder whose order is out
  tick,       \* locals of the trade processor
  user,       \* locals of trackUserActions
  sync,       \* locals of the sync goroutine
  tracker,    \* per coin, results counted: tracker.PnLPerCoin[c].Num
  events,     \* number of orders xt.log.append was called for
  sent,       \* ghost: number of CreateOrder calls that reached the exchange
  done,       \* ghost: number of orders CreateOrder returned with ok = true
  realised,   \* ghost: per coin, the results there were to count
  tainted,    \* ghost: coins whose book may differ from the exchange, and
              \* why: see Taint
  saved,      \* ghost: the last save succeeded
  boots,      \* ghost: number of restarts
  faults      \* number of faults so far

local == <<tick, user, sync>>
books == <<positions, disk, saved>>
counts == <<tracker, realised>>
orders == <<events, sent, done>>
vars == <<positions, disk, exposure, call, tick, user, sync, tracker, events,
          sent, done, realised, tainted, saved, boots, faults>>

Inv(t) == IF t = "Buy" THEN "Sell" ELSE "Buy"
Signed(t, v) == IF t = "Buy" THEN v ELSE -v
Size(e) == IF e < 0 THEN -e ELSE e

Held(book) == {k \in Keys : book[k] # None}
On(book, c) == {k \in Held(book) : k.coin = c}
Empty == [k \in Keys |-> None]

\* What the exchange may report for a coin: one position, or several that
\* add up to the exposure (kraken keeps one per opening order).
Lot == [coin : Coins, type : Types, volume : Nat \ {0}, part : 0 .. 2]
LotsOf(c, e) ==
  LET lot(v, n) == [coin |-> c, type |-> IF e > 0 THEN "Buy" ELSE "Sell",
                    volume |-> v, part |-> n]
  IN  IF e = 0 THEN {{}}
      ELSE {{lot(Size(e), 0)}} \cup
           {{lot(v, 1), lot(Size(e) - v, 2)} : v \in {w \in 1 .. Size(e) : 2 * w <= Size(e)}}
Upstream ==
  LET reports == UNION {LotsOf(c, exposure[c]) : c \in Coins}
  IN  {UNION {f[c] : c \in Coins} :
         f \in {g \in [Coins -> reports] : \A c \in Coins : g[c] \in LotsOf(c, exposure[c])}}

\* Locals of a goroutine between two handlers.
IdleTick == [coin |-> Blank, snap |-> Empty, todo |-> {}]
IdleUser == [active |-> FALSE, arg |-> Blank, todo |-> {}]
IdleSync == [lots |-> {}, snap |-> Empty]

Idle(g) == CASE g = "tick" -> tick = IdleTick /\ call["tick"] = None
             [] g = "user" -> ~user.active
             [] g = "sync" -> sync = IdleSync
AllIdle == \A g \in {"tick", "user", "sync"} : Idle(g)
MayStart(g) == IF Serial THEN AllIdle ELSE Idle(g)

Fault(f) == f \in Faults /\ faults < MaxFaults /\ faults' = faults + 1

Init ==
  /\ positions = Empty /\ disk = Empty /\ saved = TRUE
  /\ exposure = [c \in Coins |-> 0]
  /\ call = [g \in Callers |-> None]
  /\ tick = IdleTick /\ user = IdleUser /\ sync = IdleSync
  /\ tracker = [c \in Coins |-> 0] /\ realised = [c \in Coins |-> 0]
  /\ events = 0 /\ sent = 0 /\ done = 0
  /\ tainted = {} /\ boots = 0 /\ faults = 0

(***************************************************************************)
(* trader.save: Save truncates the file, then marshals and writes.  When   *)
(* it fails the old blob is either still there or already gone.            *)
(***************************************************************************)
SaveBook(book) ==
  \/ disk' = book /\ saved' = TRUE /\ UNCHANGED faults
  \/ Fault("save") /\ disk' \in {disk, Empty} /\ saved' = FALSE

-----------------------------------------------------------------------------
(* CreateOrder, first part: from check to the answer of the exchange.      *)

Beside(k) == On(positions, k.coin) \ {k}

\* An order is refused: the position has the requested type already
\* ("void-ignore"), a model decision may not turn it around before it takes
\* its profit ("void-reverse"), the decision has a bad history, or there is
\* nothing to close ("void-close").
Refused(k, openType, open, decision) ==
  \/ positions[k] # None /\ positions[k].type = openType
  \/ positions[k] # None /\ decision # "none" /\ positions[k].gain < 1
  \/ decision = "poor"
  \/ positions[k] = None /\ ~open

\* Only the first two refusals come without an error.
RefusedQuietly(k, openType, decision) ==
  /\ positions[k] # None
  /\ \/ positions[k].type = openType
     \/ decision # "none" /\ positions[k].gain < 1

\* action.Value: of the position to close, else the sum over the positions
\* of the same coin and type under other keys.
Value(k, openType) ==
  IF positions[k] # None THEN {positions[k].gain}
  ELSE LET G == {positions[j].gain : j \in {i \in Beside(k) : positions[i].type = openType}}
       IN  {s \in -1 .. 1 : IF s = 0 THEN G \subseteq {0} \/ {-1, 1} \subseteq G
                                     ELSE s \in G}

Order == [key : Keys, type : Types, volume : Nat \ {0}, closing : BOOLEAN,
          open : BOOLEAN, live : BOOLEAN, gain : -1 .. 1,
          stage : {"sent", "closed", "reversed"}]

ASSUME NoOrderAssumption == None \notin Order

\* Mutants of OrderFor: the close does not invert the position's type, or
\* keeps the volume of the request.
OrderForSameType(k, openType, volume, open, live, gain) ==
  LET p == positions[k]
  IN  [key |-> k,
       type |-> IF p # None THEN p.type ELSE openType,
       volume |-> IF p # None THEN p.volume ELSE volume,
       closing |-> p # None, open |-> open, live |-> live, gain |-> gain,
       stage |-> "sent"]
OrderForRequest(k, openType, volume, open, live, gain) ==
  LET p == positions[k]
  IN  [key |-> k,
       type |-> IF p # None THEN Inv(p.type) ELSE openType,
       volume |-> volume,
       closing |-> p # None, open |-> open, live |-> live, gain |-> gain,
       stage |-> "sent"]

\* The order for a request; a close overrides type and volume.
OrderFor(k, openType, volume, open, live, gain) ==
  LET p == positions[k]
  IN  [key |-> k,
       type |-> IF p # None THEN Inv(p.type) ELSE openType,
       volume |-> IF p # None THEN p.volume ELSE volume,
       closing |-> p # None, open |-> open, live |-> live, gain |-> gain,
       stage |-> "sent"]

\* exchange.OpenOrder: executed, refused, or executed with the answer lost.
Execute(o) ==
  exposure' = IF o.live THEN [exposure EXCEPT ![o.key.coin] = @ + Signed(o.type, o.volume)]
                        ELSE exposure
Accepted(o) == Execute(o) /\ UNCHANGED faults
Failed(o) == /\ o.live
             /\ \/ Fault("reject") /\ UNCHANGED exposure
                \/ Fault("lost") /\ Execute(o)

\* An order that leaves book and exchange different for good: a second live
\* position of a coin, or a flag that is not the one of the position.
Splits(o) ==
  IF o.closing THEN positions[o.key].live # o.live
               ELSE o.live /\ \E j \in Beside(o.key) : positions[j].live

Submit(g, o) ==
  /\ sent' = sent + 1
  /\ events' = IF o.closing THEN events ELSE events + 1
  /\ \/ /\ Accepted(o)
        /\ call' = [call EXCEPT ![g] = o]
        /\ tainted' = IF Splits(o) THEN tainted \cup {o.key.coin} ELSE tainted
     \/ /\ Failed(o)
        /\ tainted' = IF exposure' # exposure THEN tainted \cup {o.key.coin} ELSE tainted
        /\ UNCHANGED call
  /\ UNCHANGED <<books, counts, done, boots>>

-----------------------------------------------------------------------------
(* CreateOrder, second part: the book, the blob and the tracker.           *)

\* Mutant: an order without a result counts too.
TrackAll(o) == tracker' = [tracker EXCEPT ![o.key.coin] = @ + 1]

Track(o) == tracker' = IF o.gain = 0 THEN tracker
                       ELSE [tracker EXCEPT ![o.key.coin] = @ + 1]

\* Mutant: the deletion is not saved.
CloseBookUnsaved(k) ==
  /\ positions' = [positions EXCEPT ![k] = None]
  /\ UNCHANGED <<disk, saved, faults>>

\* trader.close deletes if the key is there, and saves.
CloseBook(k) ==
  IF positions[k] = None
  THEN UNCHANGED <<books, faults>>
  ELSE /\ positions' = [positions EXCEPT ![k] = None]
       /\ SaveBook(positions')

\* trader.add opens, or extends a position of the same type.
AddBook(o) ==
  LET p == positions[o.key]
      opened == [type |-> o.type, volume |-> o.volume, live |-> o.live,
                 gain |-> 0, price |-> "order"]
  IN  IF p # None /\ p.type # o.type
      THEN UNCHANGED <<books, faults>>
      ELSE /\ positions' = [positions EXCEPT ![o.key] =
                              IF p = None THEN opened
                              ELSE [opened EXCEPT !.volume = @ + p.volume]]
           /\ SaveBook(positions')

Realise(o) ==
  realised' = IF positions[o.key] # None /\ positions[o.key].gain # 0
              THEN [realised EXCEPT ![o.key.coin] = @ + 1] ELSE realised

\* The order opened a position, or closed one and is not to reverse it.
CommitOpen(g) ==
  /\ call[g] # None /\ call[g].stage = "sent" /\ ~call[g].closing
  /\ AddBook(call[g])
  /\ Track(call[g])
  /\ realised' = IF call[g].gain = 0 THEN realised
                 ELSE [realised EXCEPT ![call[g].key.coin] = @ + 1]
  /\ done' = done + 1
  /\ call' = [call EXCEPT ![g] = None]
  /\ UNCHANGED <<exposure, local, events, sent, tainted, boots>>

CommitClose(g) ==
  /\ call[g] # None /\ call[g].stage = "sent" /\ call[g].closing
  /\ CloseBook(call[g].key)
  /\ Realise(call[g])
  /\ IF call[g].open
     THEN /\ call' = [call EXCEPT ![g].stage = "closed"]
          /\ UNCHANGED <<tracker, done, local>>
     ELSE /\ call' = [call EXCEPT ![g] = None]
          /\ Track(call[g])
          /\ done' = done + 1
          /\ IF g = "user"   \* a close without error is the last one of its key
             THEN /\ user' = [user EXCEPT !.todo =
                       IF positions[call[g].key] = None \/ ~saved' THEN @
                       ELSE {e \in @ : e.key # call[g].key}]
                  /\ UNCHANGED <<tick, sync>>
             ELSE UNCHANGED local
  /\ UNCHANGED <<exposure, events, sent, tainted, boots>>

\* open = TRUE on a close: the same order is sent a second time.
Reverse(g) ==
  /\ call[g] # None /\ call[g].stage = "closed"
  /\ \/ /\ Accepted(call[g])
        /\ call' = [call EXCEPT ![g].stage = "reversed"]
        /\ tainted' = IF call[g].live /\ \E j \in Beside(call[g].key) : positions[j].live
                      THEN tainted \cup {call[g].key.coin} ELSE tainted
     \/ /\ Failed(call[g])
        /\ call' = [call EXCEPT ![g] = None]
        /\ tainted' = IF exposure' # exposure
                      THEN tainted \cup {call[g].key.coin} ELSE tainted
  /\ UNCHANGED <<books, local, counts, orders, boots>>

CommitReverse(g) ==
  /\ call[g] # None /\ call[g].stage = "reversed"
  /\ AddBook(call[g])
  /\ Track(call[g])
  /\ done' = done + 1
  /\ call' = [call EXCEPT ![g] = None]
  /\ UNCHANGED <<exposure, local, events, sent, realised, tainted, boots>>

-----------------------------------------------------------------------------
(* The tick goroutine.                                                     *)

\* A strategy signal: CreateOrder with open = TRUE and volume 0.
Signal(k, openType, volume, live, decision) ==
  /\ MayStart("tick") /\ sent < MaxOrders
  /\ ~Refused(k, openType, TRUE, decision)
  /\ \E gain \in Value(k, openType) :
       Submit("tick", OrderFor(k, openType, volume, TRUE, live, gain))
  /\ UNCHANGED local

\* trader.update reads the map ...
TickRead(c) ==
  /\ MayStart("tick") /\ sent < MaxOrders
  /\ On(positions, c) # {}
  /\ tick' = [tick EXCEPT !.coin = c, !.snap = positions]
  /\ UNCHANGED <<books, exposure, call, user, sync, counts, orders, tainted, boots, faults>>

\* ... and replaces it by a copy with new results.  AssessTrend then picks
\* positions beyond the take-profit or stop-loss threshold whose trend turned.
TickSwap ==
  /\ tick.coin # Blank
  /\ \E G \in [On(tick.snap, tick.coin) -> Gains] :
     \E S \in SUBSET {k \in DOMAIN G : G[k] # 0} :
       /\ positions' = [k \in Keys |-> IF k \in DOMAIN G
                          THEN [tick.snap[k] EXCEPT !.gain = G[k]] ELSE tick.snap[k]]
       /\ tick' = [IdleTick EXCEPT !.todo =
            {[key |-> k, type |-> tick.snap[k].type, live |-> tick.snap[k].live] : k \in S}]
  /\ UNCHANGED <<disk, saved, exposure, call, user, sync, counts, orders, tainted, boots, faults>>

TickClose(e) ==
  /\ call["tick"] = None
  /\ tick' = [tick EXCEPT !.todo = @ \ {e}]
  /\ IF Refused(e.key, Inv(e.type), FALSE, "none")
     THEN UNCHANGED <<books, exposure, call, counts, orders, tainted, boots, faults>>
     ELSE Submit("tick", OrderFor(e.key, Inv(e.type), 1, FALSE, e.live, positions[e.key].gain))
  /\ UNCHANGED <<user, sync>>

-----------------------------------------------------------------------------
(* The user goroutine: "?tr close [coin]".                                 *)

\* Key of the local snapshot and upstream position of its coin and type.
Pair == [key : Keys, lot : Lot]

\* Mutant: the types of the local and the upstream position are not compared.
UserStartAnyType(arg) ==
  /\ MayStart("user") /\ sent < MaxOrders
  /\ \E L \in Upstream :
       user' = [active |-> TRUE, arg |-> arg, todo |->
         {e \in [key : IF arg \in Coins THEN On(positions, arg) ELSE Held(positions),
                 lot : L] : e.lot.coin = e.key.coin}]
  /\ UNCHANGED <<books, exposure, call, tick, sync, counts, orders, tainted, boots, faults>>

UserStart(arg) ==
  /\ MayStart("user") /\ sent < MaxOrders
  /\ \E answered \in BOOLEAN :
       IF answered
       THEN /\ \E L \in Upstream :
                 user' = [active |-> TRUE, arg |-> arg, todo |->
                   {e \in [key : IF arg \in Coins THEN On(positions, arg) ELSE Held(positions),
                           lot : L] :
                      e.lot.coin = e.key.coin /\ e.lot.type = positions[e.key].type}]
            /\ UNCHANGED faults
       ELSE Fault("reject") /\ user' = [active |-> TRUE, arg |-> arg, todo |-> {}]
  /\ UNCHANGED <<books, exposure, call, tick, sync, counts, orders, tainted, boots>>

UserClose(e) ==
  /\ call["user"] = None
  /\ ~RefusedQuietly(e.key, Inv(e.lot.type), "none")
  /\ user' = [user EXCEPT !.todo = @ \ {e}]
  /\ IF Refused(e.key, Inv(e.lot.type), FALSE, "none")
     THEN UNCHANGED <<books, exposure, call, counts, orders, tainted, boots, faults>>
     ELSE Submit("user", OrderFor(e.key, Inv(e.lot.type), e.lot.volume, FALSE, TRUE,
                                  positions[e.key].gain))
  /\ UNCHANGED <<tick, sync>>

\* wallet.Reset(key.Coin), whatever became of the orders.  No argument resets
\* nothing, although it closed everything.
UserReset ==
  /\ user.active /\ user.todo = {} /\ call["user"] = None
  /\ LET dropped == IF user.arg = All THEN Held(positions)
                    ELSE IF user.arg = Blank THEN {} ELSE On(positions, user.arg)
     IN  /\ positions' = [k \in Keys |-> IF k \in dropped THEN None ELSE positions[k]]
         /\ tainted' = tainted \cup {k.coin : k \in dropped}
  /\ SaveBook(positions')
  /\ user' = IdleUser
  /\ UNCHANGED <<exposure, call, tick, sync, counts, orders, boots>>

-----------------------------------------------------------------------------
(* The sync goroutine.                                                     *)

SyncStart ==
  /\ MayStart("sync")
  /\ \E L \in Upstream :
       sync' = IF L = {} THEN IdleSync ELSE [lots |-> L, snap |-> positions]
  /\ UNCHANGED <<books, exposure, call, tick, user, counts, orders, tainted, boots, faults>>

\* Position.Sync: the open price and the volume follow the exchange.
Synced(p, l) == [p EXCEPT !.volume = l.volume, !.price = "fill"]
\* Mutant: the volume is taken over signed.
AdoptedSigned(l) == [type |-> l.type, volume |-> Signed(l.type, l.volume), live |-> TRUE,
                     gain |-> 0, price |-> "fill"]
Adopted(l) == [type |-> l.type, volume |-> l.volume, live |-> TRUE,
               gain |-> 0, price |-> "fill"]

\* Mutant: only known coins are synced.
SyncLotKnown(l) ==
  /\ positions' = [k \in Keys |-> IF k \in On(sync.snap, l.coin)
                                  THEN Synced(sync.snap[k], l) ELSE positions[k]]
  /\ SaveBook(positions')
  /\ sync' = IF sync.lots = {l} THEN IdleSync ELSE [sync EXCEPT !.lots = @ \ {l}]
  /\ UNCHANGED <<exposure, call, tick, user, counts, orders, tainted, boots>>

\* One upstream position: it is written over every snapshot position of its
\* coin that differs, or becomes a new position.  The snapshot is not read
\* again, and a local position without an upstream one stays.
SyncLot(l) ==
  LET known == On(sync.snap, l.coin)
      stale == {k \in known : Synced(sync.snap[k], l) # sync.snap[k]}
  IN  /\ positions' = IF known = {}
           THEN [positions EXCEPT ![BareKey(l.coin)] = Adopted(l)]
           ELSE [k \in Keys |-> IF k \in stale THEN Synced(sync.snap[k], l)
                                ELSE positions[k]]
      /\ IF known = {} \/ stale # {} THEN SaveBook(positions')
         ELSE UNCHANGED <<disk, saved, faults>>
      /\ sync' = IF sync.lots = {l} THEN IdleSync ELSE [sync EXCEPT !.lots = @ \ {l}]
      /\ tainted' =
           IF l.part # 0 THEN tainted \cup {l.coin}
           ELSE IF /\ exposure[l.coin] = Signed(l.type, l.volume)
                   /\ \E k \in On(positions', l.coin) :
                        /\ On(positions', l.coin) = {k}
                        /\ positions'[k].live /\ positions'[k].type = l.type
           THEN tainted \ {l.coin} ELSE tainted
      /\ UNCHANGED <<exposure, call, tick, user, counts, orders, boots>>

-----------------------------------------------------------------------------
(* The world.                                                              *)

\* The account moves without the wallet: a liquidation, a manual trade.
Drift(c, e) ==
  /\ Fault("drift")
  /\ exposure[c] # e
  /\ exposure' = [exposure EXCEPT ![c] = e]
  /\ tainted' = tainted \cup {c}
  /\ UNCHANGED <<books, call, local, counts, orders, boots>>

\* Mutant: entries with a strategy are skipped.
LoadedBare(blob) ==
  {[k \in Keys |-> IF Stored(k) = k THEN blob[k] ELSE None]}

\* What load makes of a blob: keys lose their tag, and of several that
\* become equal one stays.
Loaded(blob) ==
  {book \in [Keys -> {None} \cup {blob[k] : k \in Held(blob)}] :
     \A k \in Keys : IF \E j \in Held(blob) : Stored(j) = k
                     THEN \E j \in Held(blob) : Stored(j) = k /\ book[k] = blob[j]
                     ELSE book[k] = None}

\* A save is under way in some handler, so the blob may be truncated.
Saving == user.active \/ sync # IdleSync \/ \E g \in Callers : call[g] # None

\* The process ends and starts again; load ignores the error of a blob it
\* cannot read.  The coins of orders not yet booked, of positions that share
\* a stored key and of a blob that was not written are out of step.
Restart ==
  /\ boots' = boots + 1
  /\ \E blob \in IF Saving THEN {disk, Empty} ELSE {disk} :
       /\ positions' \in Loaded(blob)
       /\ disk' = blob
       /\ tainted' = tainted \cup {call[g].key.coin : g \in {h \in Callers : call[h] # None}}
            \cup {c \in Coins : ~saved \/ blob # disk}
            \cup {k.coin : k \in {i \in Held(disk) :
                                    \E j \in Held(disk) \ {i} : Stored(i) = Stored(j)}}
  /\ call' = [g \in Callers |-> None]
  /\ tick' = IdleTick /\ user' = IdleUser /\ sync' = IdleSync
  /\ tracker' = [c \in Coins |-> 0] /\ realised' = [c \in Coins |-> 0]
  /\ saved' = TRUE
  /\ UNCHANGED <<exposure, orders>>

Crash == Fault("crash") /\ Restart

\* err.Error() on the nil error of a quiet refusal ends the process.
UserPanic(e) ==
  /\ call["user"] = None
  /\ RefusedQuietly(e.key, Inv(e.lot.type), "none")
  /\ Restart
  /\ UNCHANGED faults

-----------------------------------------------------------------------------
Next ==
  \/ \E k \in Keys, t \in Types, v \in Volumes, live \in Lives, d \in Decisions :
       Signal(k, t, v, live, d)
  \/ \E c \in Coins : TickRead(c)
  \/ TickSwap
  \/ \E e \in tick.todo : TickClose(e)
  \/ \E arg \in Coins \cup {All, Blank} : UserStart(arg)
  \/ \E e \in user.todo : UserClose(e) \/ UserPanic(e)
  \/ UserReset
  \/ SyncStart
  \/ \E l \in sync.lots : SyncLot(l)
  \/ \E g \in Callers : CommitOpen(g) \/ CommitClose(g) \/ Reverse(g) \/ CommitReverse(g)
  \/ \E c \in Coins, e \in Drifts : Drift(c, e)
  \/ Crash

Spec == Init /\ [][Next]_vars

-----------------------------------------------------------------------------
(* Properties.                                                             *)

Book == [Keys -> Position \cup {None}]

\* The state space of the wallet, its callers' locals and the account.
TypeOK ==
  /\ positions \in Book /\ disk \in Book /\ saved \in BOOLEAN
  /\ exposure \in [Coins -> Int]
  /\ call \in [Callers -> Order \cup {None}]
  /\ tick \in [coin : Coins \cup {Blank}, snap : Book,
               todo : SUBSET [key : Keys, type : Types, live : BOOLEAN]]
  /\ user \in [active : BOOLEAN, arg : Coins \cup {All, Blank}, todo : SUBSET Pair]
  /\ sync \in [lots : SUBSET Lot, snap : Book]
  /\ tracker \in [Coins -> Nat] /\ realised \in [Coins -> Nat]
  /\ events \in Nat /\ sent \in Nat /\ done \in Nat
  /\ tainted \subseteq Coins /\ boots \in Nat /\ faults \in Nat

LiveOn(c) == {k \in On(positions, c) : positions[k].live}
InFlight(c) == \E g \in Callers : call[g] # None /\ call[g].key.coin = c

\* The book of a coin is the account: one live position of the size and side
\* of the exposure, or none and no exposure.
Agrees(c) ==
  \/ LiveOn(c) = {} /\ exposure[c] = 0
  \/ \E k \in LiveOn(c) :
       LiveOn(c) = {k} /\ exposure[c] = Signed(positions[k].type, positions[k].volume)

\* Between orders, the book of every coin is what the account holds, unless
\* one of the named things that part them happened since they last agreed: a
\* lost answer, a move of the account itself, a second live position of the
\* coin, a Reset of an open position, or a restart with an order out or from a
\* bad blob.
BookMatchesExchange ==
  \A c \in Coins \ tainted : InFlight(c) \/ Agrees(c)

\* A closing order that was sent still finds the position it closes: two
\* closers of one position never both reach the exchange.
CloseFindsPosition ==
  \A g \in Callers :
    call[g] # None /\ call[g].stage = "sent" /\ call[g].closing
      => /\ positions[call[g].key] # None
         /\ positions[call[g].key].type = Inv(call[g].type)
         /\ positions[call[g].key].volume = call[g].volume

SameButGain(p, q) == [p EXCEPT !.gain = 0] = [q EXCEPT !.gain = 0]

\* While the last save succeeded, the blob holds exactly the coins and
\* durations of the book, and every position of the book up to its result:
\* nothing done since (update does not save) is lost by a restart.
DiskCoversBook ==
  saved =>
    /\ \A k \in Held(positions) : \E j \in Held(disk) :
         Stored(j) = Stored(k) /\ SameButGain(disk[j], positions[k])
    /\ \A j \in Held(disk) : \E k \in Held(positions) : Stored(j) = Stored(k)

\* No result is counted twice in the statistics of its coin: there is one to
\* count for each position closed, and for each opening order that took over
\* the results of the other positions of its coin and type.
ResultsCountedOnce == \A c \in Coins : tracker[c] <= realised[c]

\* The close command only meets quiet refusals when another goroutine turned
\* the position around meanwhile; it dereferences their nil error.
CommandSafe ==
  \A e \in user.todo : call["user"] = None =>
    ~RefusedQuietly(e.key, Inv(e.lot.type), "none")

\* A restart between handlers, from a blob that was written, tracks the same
\* coins as before and invents no position.  Only where a restart before it made
\* one of several positions, and nothing was saved since, may it be another of
\* them that comes back.
RestartKeepsCoins ==
  [][boots' # boots /\ AllIdle /\ saved =>
       /\ \A c \in Coins : (On(positions, c) = {}) <=> (On(positions', c) = {})
       /\ \A k \in Keys : positions'[k] # None =>
            \/ \E j \in Held(positions) :
                 Stored(j) = k /\ SameButGain(positions[j], positions'[k])
            \/ /\ Held(disk) # Held(positions)
               /\ \E i, j \in Held(disk) : i # j /\ Stored(i) = k /\ Stored(j) = k]_vars

\* A close request (open = FALSE) brings the account of a coin closer to flat,
\* never across it, when book and account agreed.
ClosingShrinks ==
  [][\A g \in Callers :
       call[g] = None /\ call'[g] # None /\ ~call'[g].open =>
         LET c == call'[g].key.coin
         IN  c \notin tainted' => Size(exposure'[c]) <= Size(exposure[c])]_vars

\* Actions ("the exchange actions so far") has an event for every order.
ActionsHoldEveryOrder == done <= events

\* Exposure the wallet does not know is found by a later sync.
Adoption ==
  \A c \in Coins : exposure[c] # 0 ~> (On(positions, c) # {} \/ exposure[c] = 0)

\* The sync goroutine runs on its own ticker and the exchange answers it.
FairSpec == Spec /\ WF_vars(SyncStart) /\ WF_vars(\E l \in sync.lots : SyncLot(l))

=============================================================================
