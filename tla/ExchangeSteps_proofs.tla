------------------------ MODULE ExchangeSteps_proofs ------------------------
(***************************************************************************)
(* What the steps of the wallet may not do while handlers do not overlap:  *)
(* enlarge the account by closing, lose a coin by a restart, count a       *)
(* result twice, or stumble over a quiet refusal of the close command.     *)
(***************************************************************************)
EXTENDS ExchangeAccount_proofs

USE KeysAssumption, DataAssumption, NoneAssumption, NoOrderAssumption

-----------------------------------------------------------------------------
(* Orders that appear.                                                     *)

\* A new call is the order just submitted by its caller.
LEMMA SubmitCall ==
  ASSUME TypeOK, NEW g \in Callers, NEW o \in Order, Submit(g, o), NEW h \in Callers,
         call'[h] # call[h]
  PROVE  /\ h = g /\ call'[h] = o /\ Accepted(o)
         /\ Splits(o) => o.key.coin \in tainted'
BY DEF Submit, TypeOK

\* Only a close request of the tick or the user goroutine brings a call that
\* is not to open, and it finds no other call out.
LEMMA CloseRequests ==
  ASSUME Serial, AccountInv, [Next]_vars, NEW g \in Callers,
         call[g] = None, call'[g] # None, ~call'[g].open
  PROVE  /\ \A h \in Callers : call[h] = None
         /\ \E o \in Order : Fits(o) /\ o.closing /\ Submit(g, o) /\ o = call'[g]
<1> USE DEF AccountInv
<1>1. ASSUME NEW k \in Keys, NEW t \in Types, NEW v \in Volumes, NEW live \in Lives,
             NEW d \in Decisions, Signal(k, t, v, live, d)
      PROVE  FALSE
  <2>1. PICK gain \in Value(k, t) : Submit("tick", OrderFor(k, t, v, TRUE, live, gain))
    BY <1>1 DEF Signal
  <2>2. gain \in -1 .. 1 /\ v \in Nat \ {0} /\ live \in BOOLEAN /\ TRUE \in BOOLEAN
    BY <2>1, ValueTypes
  <2>3. OrderFor(k, t, v, TRUE, live, gain) \in Order
    BY <2>2, OrderTypes
  <2>4. call'[g] = OrderFor(k, t, v, TRUE, live, gain)
    BY <2>1, <2>3, SubmitCall DEF Callers
  <2> QED BY <2>4 DEF OrderFor
<1>2. ASSUME NEW e \in tick.todo, TickClose(e)
      PROVE  /\ \A h \in Callers : call[h] = None
             /\ \E o \in Order : Fits(o) /\ o.closing /\ Submit(g, o) /\ o = call'[g]
  <2>1. PICK o \in Order : /\ o = OrderFor(e.key, Inv(e.type), 1, FALSE, e.live, positions[e.key].gain)
                           /\ positions[e.key] # None /\ e.key \in Keys /\ Submit("tick", o)
    BY <1>2, TickCloseSubmits
  <2>2. g = "tick" /\ call'[g] = o
    BY <2>1, SubmitCall DEF Callers
  <2>3. Fits(o) /\ o.closing
    BY <2>1, OrderFits DEF OrderFor
  <2>4. tick # IdleTick
    BY IdleFacts
  <2>5. call["user"] = None
    BY <2>4 DEF Exclusive, TickBusy, UserBusy
  <2> QED BY <2>1, <2>2, <2>3, <2>5 DEF Callers
<1>3. ASSUME NEW e \in user.todo, UserClose(e)
      PROVE  /\ \A h \in Callers : call[h] = None
             /\ \E o \in Order : Fits(o) /\ o.closing /\ Submit(g, o) /\ o = call'[g]
  <2>1. PICK o \in Order : /\ o = OrderFor(e.key, Inv(e.lot.type), e.lot.volume, FALSE, TRUE,
                                           positions[e.key].gain)
                           /\ positions[e.key] # None /\ e.key \in Keys /\ Submit("user", o)
    BY <1>3, UserCloseSubmits
  <2>2. g = "user" /\ call'[g] = o
    BY <2>1, SubmitCall DEF Callers
  <2>3. Fits(o) /\ o.closing
    BY <2>1, OrderFits DEF OrderFor
  <2>4. user.active
    BY DEF Exclusive
  <2>5. call["tick"] = None
    BY <2>4 DEF Exclusive, TickBusy, UserBusy
  <2> QED BY <2>1, <2>2, <2>3, <2>5 DEF Callers
<1>4. ASSUME NEW f \in Callers,
             CommitOpen(f) \/ CommitClose(f) \/ Reverse(f) \/ CommitReverse(f)
      PROVE  FALSE
  BY <1>4 DEF CommitOpen, CommitClose, Reverse, CommitReverse, TypeOK
<1>5. call' # call
  OBVIOUS
<1>6. call' # [h \in Callers |-> None]
  OBVIOUS
<1> QED BY <1>1, <1>2, <1>3, <1>4, <1>5, <1>6
        DEF Next, vars, TickRead, TickSwap, UserStart, UserPanic, UserReset, SyncStart,
            SyncLot, Drift, Crash, Restart

\* With no call out, a live order that closes the position of an account that
\* agrees leaves the account flat.
LEMMA CloseFlattens ==
  ASSUME TypeOK, Account, \A h \in Callers : call[h] = None,
         NEW g \in Callers, NEW o \in Order, Fits(o), o.closing, Submit(g, o),
         call'[g] = o, o.key.coin \notin tainted'
  PROVE  Size(exposure'[o.key.coin]) <= Size(exposure[o.key.coin])
<1> DEFINE c == o.key.coin
<1>1. /\ o.key \in Keys /\ c \in Coins /\ o.type \in Types /\ o.volume \in Nat \ {0}
      /\ o.live \in BOOLEAN /\ exposure[c] \in Int
  BY KeyFacts DEF Order, TypeOK
<1>2. Accepted(o) /\ ~Splits(o)
  BY SubmitCall
<1>3. CASE ~o.live
  BY <1>1, <1>2, <1>3 DEF Accepted, Execute, Size
<1>4. CASE o.live
  <2>1. /\ positions[o.key] # None /\ positions[o.key].live
        /\ positions[o.key].type = Inv(o.type) /\ positions[o.key].volume = o.volume
    BY <1>1, <1>2, <1>4 DEF Fits, Splits, Served, TypeOK
  <2>2. Agrees(c)
    <3>1. c \notin tainted
      BY DEF Submit
    <3> QED BY <1>1, <3>1, AgreesAccount DEF Account
  <2>3. exposure[c] = Signed(Inv(o.type), o.volume)
    BY <1>1, <2>1, <2>2, LiveOnKeys DEF Agrees
  <2>4. exposure'[c] = 0
    BY <1>1, <1>2, <1>4, <2>3, SignedInt DEF Accepted, Execute, TypeOK
  <2> QED BY <1>1, <2>4 DEF Size
<1> QED BY <1>1, <1>3, <1>4

LEMMA NextInv == ASSUME Serial PROVE AccountInv /\ [Next]_vars => AccountInv'
BY NextTypes, NextExclusive, NextServed, NextDisk, NextAccount DEF AccountInv

\* While handlers do not overlap, a close request never enlarges the account
\* of a coin that agreed with the book, however large the positions are.
THEOREM ClosesShrink == Serial => (Spec => ClosingShrinks)
<1> DEFINE Shrinks ==
      \A g \in Callers :
        call[g] = None /\ call'[g] # None /\ ~call'[g].open =>
          LET c == call'[g].key.coin
          IN  c \notin tainted' => Size(exposure'[c]) <= Size(exposure[c])
<1>1. ASSUME Serial PROVE AccountInv /\ [Next]_vars => Shrinks
  <2>1. SUFFICES ASSUME AccountInv, [Next]_vars, NEW g \in Callers,
                        call[g] = None, call'[g] # None, ~call'[g].open,
                        call'[g].key.coin \notin tainted'
                 PROVE  Size(exposure'[call'[g].key.coin]) <= Size(exposure[call'[g].key.coin])
    OBVIOUS
  <2>2. PICK o \in Order : Fits(o) /\ o.closing /\ Submit(g, o) /\ o = call'[g]
    BY <1>1, <2>1, CloseRequests
  <2>3. \A h \in Callers : call[h] = None
    BY <1>1, <2>1, CloseRequests
  <2>4. Size(exposure'[o.key.coin]) <= Size(exposure[o.key.coin])
    BY <2>1, <2>2, <2>3, CloseFlattens DEF AccountInv
  <2> QED BY <2>2, <2>4
<1>2. CASE Serial
  <2>1. AccountInv /\ [Next]_vars => AccountInv' /\ Shrinks
    BY <1>1, <1>2, NextInv
  <2> HIDE DEF Shrinks
  <2>2. Spec => [][Shrinks]_vars
    BY <2>1, InitAccount, PTL DEF Spec
  <2> QED BY <2>2 DEF ClosingShrinks, Shrinks
<1> QED BY <1>2

-----------------------------------------------------------------------------
(* Restarts.                                                               *)

\* A start of the process is a crash or the panic of the close command.
LEMMA RestartCauses ==
  ASSUME [Next]_vars, boots' # boots
  PROVE  Restart /\ (Crash \/ \E e \in user.todo : UserPanic(e))
<1>1. ASSUME NEW g, NEW o, Submit(g, o) PROVE boots' = boots
  BY <1>1 DEF Submit
<1>2. ASSUME NEW k, NEW t, NEW v, NEW live, NEW d, Signal(k, t, v, live, d)
      PROVE  boots' = boots
  BY <1>1, <1>2 DEF Signal
<1>3. ASSUME NEW e, TickClose(e) \/ UserClose(e) PROVE boots' = boots
  BY <1>1, <1>3 DEF TickClose, UserClose
<1>4. ASSUME NEW g, CommitOpen(g) \/ CommitClose(g) \/ Reverse(g) \/ CommitReverse(g)
      PROVE  boots' = boots
  BY <1>4 DEF CommitOpen, CommitClose, Reverse, CommitReverse
<1>5. ASSUME NEW l, SyncLot(l) PROVE boots' = boots
  BY <1>5 DEF SyncLot
<1>6. TickSwap \/ UserReset => boots' = boots
  BY DEF TickSwap, UserReset
<1> QED BY <1>2, <1>3, <1>4, <1>5, <1>6
        DEF Next, vars, TickRead, UserStart, UserPanic, SyncStart, Drift, Crash

\* Two books that differ in results only.
SameBook(b, c) ==
  \A k \in Keys : /\ b[k] = None <=> c[k] = None
                  /\ b[k] # None => SameButGain(b[k], c[k])

\* The blob of a save that succeeded is the book, or the book is what the last
\* restart made of it.
DiskBook == saved => \E book \in {disk} \cup Loaded(disk) : SameBook(book, positions)

LEMMA SameBookFacts ==
  /\ \A b : SameBook(b, b)
  /\ \A b, c, d : SameBook(b, c) /\ SameBook(c, d) => SameBook(b, d)
  /\ \A b, c : SameBook(b, c) => Held(b) = Held(c)
BY DEF SameBook, SameButGain, Held

LEMMA SavedBook == ASSUME SaveBook(positions') PROVE DiskBook'
BY SameBookFacts DEF SaveBook, DiskBook

\* The book changed in results at most, the blob not.
LEMMA SameDiskBook ==
  ASSUME DiskBook, SameBook(positions, positions'), UNCHANGED <<disk, saved>>
  PROVE  DiskBook'
<1>1. Loaded(disk') = Loaded(disk)
  OBVIOUS
<1> QED BY <1>1, SameBookFacts DEF DiskBook

LEMMA UnchangedBook == ASSUME DiskBook, UNCHANGED books PROVE DiskBook'
BY SameDiskBook, SameBookFacts DEF books

LEMMA SwapSameBook ==
  ASSUME TypeOK, Exclusive, TickSwap
  PROVE  SameBook(positions, positions') /\ UNCHANGED <<disk, saved>>
<1>1. tick.snap = positions /\ positions \in Book
  BY DEF TickSwap, Exclusive, TypeOK
<1>2. PICK G \in [On(tick.snap, tick.coin) -> Gains] :
        positions' = [k \in Keys |-> IF k \in DOMAIN G
                        THEN [tick.snap[k] EXCEPT !.gain = G[k]] ELSE tick.snap[k]]
  BY DEF TickSwap
<1>3. ASSUME NEW k \in Keys
      PROVE  /\ positions[k] = None <=> positions'[k] = None
             /\ positions[k] # None => SameButGain(positions[k], positions'[k])
  <2>1. CASE k \notin DOMAIN G
    BY <1>1, <1>2, <2>1 DEF SameButGain
  <2>2. CASE k \in DOMAIN G
    <3>1. positions[k] \in Position /\ positions[k] # None /\ G[k] \in -1 .. 1
      BY <1>1, <2>2, HeldPosition
    <3>2. positions'[k] = [positions[k] EXCEPT !.gain = G[k]]
      BY <1>1, <1>2, <2>2
    <3>3. positions'[k] \in Position
      BY <3>1, <3>2 DEF Position
    <3>4. [positions'[k] EXCEPT !.gain = 0] = [positions[k] EXCEPT !.gain = 0]
      BY <3>1, <3>2 DEF Position
    <3> QED BY <3>1, <3>3, <3>4 DEF SameButGain
  <2> QED BY <2>1, <2>2
<1> QED BY <1>3 DEF SameBook, TickSwap

LEMMA RestartBook == ASSUME Restart PROVE DiskBook'
<1>1. positions' \in Loaded(disk')
  BY DEF Restart
<1> QED BY <1>1, SameBookFacts DEF DiskBook

LEMMA NextDiskBook ==
  ASSUME Serial, TypeOK, Exclusive, DiskBook, [Next]_vars
  PROVE  DiskBook'
<1>1. CASE UNCHANGED books
  BY <1>1, UnchangedBook
<1>2. CASE TickSwap
  BY <1>2, SwapSameBook, SameDiskBook
<1>3. CASE SaveBook(positions')
  BY <1>3, SavedBook
<1>4. CASE Restart
  BY <1>4, RestartBook
<1>5. ASSUME NEW l \in sync.lots, SyncLot(l)
      PROVE  UNCHANGED books \/ SaveBook(positions')
  <2> DEFINE known == On(sync.snap, l.coin)
             stale == {k \in known : Synced(sync.snap[k], l) # sync.snap[k]}
  <2>1. CASE known # {} /\ stale = {}
    <3>1. positions' = [k \in Keys |-> positions[k]]
      BY <1>5, <2>1 DEF SyncLot
    <3> QED BY <1>5, <2>1, <3>1 DEF SyncLot, TypeOK, Book, books
  <2> QED BY <1>5, <2>1 DEF SyncLot
<1>6. ASSUME NEW g \in Callers,
             CommitOpen(g) \/ CommitClose(g) \/ Reverse(g) \/ CommitReverse(g)
      PROVE  UNCHANGED books \/ SaveBook(positions')
  BY <1>6 DEF CommitOpen, CommitClose, Reverse, CommitReverse, AddBook, CloseBook
<1>7. ASSUME NEW k \in Keys, NEW t \in Types, NEW v \in Volumes, NEW live \in Lives,
             NEW d \in Decisions, Signal(k, t, v, live, d)
      PROVE  UNCHANGED books
  BY <1>7 DEF Signal, Submit
<1>8. ASSUME NEW e, TickClose(e) \/ UserClose(e) PROVE UNCHANGED books
  BY <1>8 DEF TickClose, UserClose, Submit
<1>9. UNCHANGED vars => UNCHANGED books
  BY DEF vars, books
<1> QED BY <1>1, <1>2, <1>3, <1>4, <1>5, <1>6, <1>7, <1>8, <1>9
        DEF Next, TickRead, UserStart, UserPanic, UserReset, SyncStart, Drift, Crash

\* A restart from a blob that is the book, or that the book was loaded from,
\* tracks the coins of the book.
LEMMA LoadKeeps ==
  ASSUME TypeOK, DiskBook, saved, positions' \in Loaded(disk)
  PROVE  /\ \A c \in Coins : (On(positions, c) = {}) <=> (On(positions', c) = {})
         /\ \A k \in Keys : positions'[k] # None =>
              \/ \E j \in Held(positions) :
                   Stored(j) = k /\ SameButGain(positions[j], positions'[k])
              \/ /\ Held(disk) # Held(positions)
                 /\ \E i, j \in Held(disk) : i # j /\ Stored(i) = k /\ Stored(j) = k
<1>1. PICK book \in {disk} \cup Loaded(disk) : SameBook(book, positions)
  BY DEF DiskBook
<1>2. Held(book) = Held(positions)
  BY <1>1, SameBookFacts
<1>3. \A k \in Keys : positions'[k] # None <=> \E i \in Held(disk) : Stored(i) = k
  BY DEF Loaded, Held
<1>4. CASE book = disk
  <2>1. \A i \in Held(disk) : SameButGain(positions[i], disk[i])
    BY <1>1, <1>4 DEF SameBook, SameButGain, Held
  <2>2. ASSUME NEW k \in Keys, positions'[k] # None
        PROVE  \E j \in Held(positions) :
                 Stored(j) = k /\ SameButGain(positions[j], positions'[k])
    <3>1. PICK i \in Held(disk) : Stored(i) = k /\ positions'[k] = disk[i]
      BY <2>2, <1>3 DEF Loaded
    <3> QED BY <3>1, <2>1, <1>2, <1>4
  <2>3. ASSUME NEW c \in Coins PROVE (On(positions, c) = {}) <=> (On(positions', c) = {})
    <3>1. \A i \in Held(disk) : Stored(i) \in Keys /\ Stored(i).coin = i.coin
      BY KeyFacts DEF Held
    <3> QED BY <3>1, <1>2, <1>3, <1>4 DEF On, Held
  <2> QED BY <2>2, <2>3
<1>5. CASE book \in Loaded(disk)
  <2>1. \A k \in Keys : book[k] # None <=> \E i \in Held(disk) : Stored(i) = k
    BY <1>5 DEF Loaded, Held
  <2>2. Held(positions') = Held(positions)
    BY <1>2, <1>3, <2>1 DEF Held
  <2>3. \A c \in Coins : (On(positions, c) = {}) <=> (On(positions', c) = {})
    BY <2>2 DEF On
  <2>4. ASSUME NEW k \in Keys, positions'[k] # None
        PROVE  \/ \E j \in Held(positions) :
                    Stored(j) = k /\ SameButGain(positions[j], positions'[k])
               \/ /\ Held(disk) # Held(positions)
                  /\ \E i, j \in Held(disk) : i # j /\ Stored(i) = k /\ Stored(j) = k
    <3>1. PICK i \in Held(disk) : Stored(i) = k /\ positions'[k] = disk[i]
      BY <2>4, <1>3 DEF Loaded
    <3>2. PICK j \in Held(disk) : Stored(j) = k /\ book[k] = disk[j]
      BY <1>5, <3>1 DEF Loaded
    <3>3. k \in Held(positions) /\ Stored(k) = k /\ i \in Keys
      BY <2>2, <2>4, <3>1, StoredTwice DEF Held
    <3>4. SameButGain(positions[k], disk[j])
      BY <1>1, <1>2, <3>2, <3>3 DEF SameBook, SameButGain, Held
    <3>5. CASE i = j
      BY <3>1, <3>3, <3>4, <3>5
    <3>6. CASE i # j
      <4>1. \A m \in Held(positions) : Stored(m) = m
        BY <1>2, <2>1, StoredTwice DEF Held
      <4> QED BY <3>1, <3>2, <3>6, <4>1
    <3> QED BY <3>5, <3>6
  <2> QED BY <2>3, <2>4
<1> QED BY <1>4, <1>5

LEMMA InitDiskBook == Init => DiskBook
BY SameBookFacts DEF Init, DiskBook

\* While handlers do not overlap, any number of restarts between handlers keeps
\* the coins of the book and invents no position, but for the choice between
\* positions that share a stored key.
THEOREM RestartsKeep == Serial => (Spec => RestartKeepsCoins)
<1> DEFINE Inv0 == TypeOK /\ Exclusive /\ DiskBook
           Keeps ==
      boots' # boots /\ AllIdle /\ saved =>
       /\ \A c \in Coins : (On(positions, c) = {}) <=> (On(positions', c) = {})
       /\ \A k \in Keys : positions'[k] # None =>
            \/ \E j \in Held(positions) :
                 Stored(j) = k /\ SameButGain(positions[j], positions'[k])
            \/ /\ Held(disk) # Held(positions)
               /\ \E i, j \in Held(disk) : i # j /\ Stored(i) = k /\ Stored(j) = k
<1>1. Inv0 /\ [Next]_vars => Keeps
  <2>1. SUFFICES ASSUME Inv0, [Next]_vars, boots' # boots, AllIdle, saved
                 PROVE  positions' \in Loaded(disk)
    BY LoadKeeps
  <2>2. Restart
    BY <2>1, RestartCauses
  <2>3. ~Saving
    BY <2>1 DEF AllIdle, Idle, Saving, Exclusive, Callers
  <2> QED BY <2>2, <2>3 DEF Restart
<1>2. CASE Serial
  <2>1. Inv0 /\ [Next]_vars => Inv0' /\ Keeps
    BY <1>1, <1>2, NextTypes, NextExclusive, NextDiskBook
  <2>2. Init => Inv0
    BY InitTypes, InitExclusive, InitDiskBook
  <2> HIDE DEF Keeps, Inv0
  <2>3. Spec => [][Keeps]_vars
    BY <2>1, <2>2, PTL DEF Spec
  <2> QED BY <2>3 DEF RestartKeepsCoins, Keeps
<1> QED BY <1>2

-----------------------------------------------------------------------------
(* The close command.                                                      *)

\* What the close command still has to do finds no position, or the position of
\* the side it was started for; and its call is a close that is not to reverse.
Commanded ==
  /\ \A e \in user.todo : positions[e.key] = None \/ positions[e.key].type = e.lot.type
  /\ call["user"] # None => /\ call["user"].stage = "sent" /\ call["user"].closing
                            /\ ~call["user"].open

\* While the command is not under way there is nothing to say.
LEMMA NothingCommanded ==
  ASSUME Exclusive', ~user'.active
  PROVE  Commanded'
BY DEF Exclusive, Commanded

\* While it is, only its own steps and moves of the account happen.
LEMMA CommandAlone ==
  ASSUME Serial, Exclusive, user.active, [Next]_vars
  PROVE  \/ UNCHANGED <<positions, call, user>>
         \/ \E e \in user.todo : UserClose(e)
         \/ CommitOpen("user") \/ CommitClose("user") \/ Reverse("user") \/ CommitReverse("user")
         \/ UserReset \/ Restart
<1>1. tick = IdleTick /\ call["tick"] = None /\ sync = IdleSync
  BY DEF Exclusive, TickBusy, UserBusy, SyncBusy
<1>2. \A g : ~MayStart(g)
  BY Alone
<1>3. \A k, t, v, live, d : ~Signal(k, t, v, live, d)
  BY <1>2 DEF Signal
<1>4. /\ \A c : ~TickRead(c)
      /\ ~TickSwap
      /\ \A arg : ~UserStart(arg)
      /\ ~SyncStart
  BY <1>1, <1>2, IdleFacts DEF TickRead, TickSwap, UserStart, SyncStart
<1>5. tick.todo = {} /\ sync.lots = {}
  BY <1>1, IdleFacts
<1>6. ASSUME NEW g \in Callers,
             CommitOpen(g) \/ CommitClose(g) \/ Reverse(g) \/ CommitReverse(g)
      PROVE  g = "user"
  BY <1>1, <1>6 DEF CommitOpen, CommitClose, Reverse, CommitReverse, Callers
<1>7. \A c, e : Drift(c, e) => UNCHANGED <<positions, call, user>>
  BY DEF Drift, books, local
<1> QED BY <1>3, <1>4, <1>5, <1>6, <1>7 DEF Next, vars, Crash, UserPanic

LEMMA UserCloseCommanded ==
  ASSUME Serial, AccountInv, Commanded, NEW e \in user.todo, UserClose(e)
  PROVE  Commanded'
<1> USE DEF AccountInv
<1>1. user'.todo \subseteq user.todo /\ call["user"] = None
  BY DEF UserClose, TypeOK
<1>2. positions' = positions
  BY DEF UserClose, Submit, books
<1>3. CASE call' = call
  BY <1>1, <1>2, <1>3 DEF Commanded
<1>4. CASE call' # call
  <2>1. PICK o \in Order : /\ o = OrderFor(e.key, Inv(e.lot.type), e.lot.volume, FALSE, TRUE,
                                           positions[e.key].gain)
                           /\ positions[e.key] # None /\ Submit("user", o)
    BY <1>4, UserCloseSubmits
  <2>2. call'["user"] = o
    BY <1>4, <2>1 DEF Submit, TypeOK, Callers
  <2>3. o.stage = "sent" /\ o.closing /\ ~o.open
    BY <2>1 DEF OrderFor
  <2> QED BY <1>1, <1>2, <2>2, <2>3 DEF Commanded
<1> QED BY <1>3, <1>4

LEMMA NextCommanded ==
  ASSUME Serial, AccountInv, AccountInv', Commanded, [Next]_vars
  PROVE  Commanded'
<1> USE DEF AccountInv
<1>1. CASE ~user'.active
  BY <1>1, NothingCommanded
<1>2. CASE user'.active /\ ~user.active
  <2>1. PICK arg \in Coins \cup {All, Blank} : UserStart(arg)
    <3>1. user' # user
      BY <1>2
    <3>2. \A e \in user.todo : FALSE
      BY <1>2 DEF Exclusive
    <3>3. \A g \in Callers : CommitClose(g) => user'.active = user.active
      BY DEF CommitClose, local, TypeOK
    <3> QED BY <1>2, <3>1, <3>2, <3>3, IdleFacts
            DEF Next, vars, Signal, TickRead, TickSwap, TickClose, UserReset, SyncStart, SyncLot,
                Drift, Crash, Restart, CommitOpen, Reverse, CommitReverse, local
  <2>2. call["user"] = None /\ UNCHANGED <<positions, call>>
    BY <1>2, <2>1 DEF UserStart, books, Exclusive
  <2>3. \A e \in user'.todo : positions[e.key].type = e.lot.type
    BY <2>1 DEF UserStart
  <2> QED BY <2>2, <2>3 DEF Commanded
<1>3. CASE user'.active /\ user.active
  <2>1. CASE CommitClose("user")
    <3>1. /\ ~call["user"].open /\ call["user"] # None /\ call["user"].closing
          /\ call["user"].stage = "sent" /\ call["user"].key \in Keys /\ "user" \in Callers
      BY <2>1 DEF CommitClose, Commanded, TypeOK, Order, Callers
    <3>2. call'["user"] = None /\ user'.todo \subseteq user.todo
      BY <2>1, <3>1 DEF CommitClose, TypeOK
    <3>3. positions' = [positions EXCEPT ![call["user"].key] = None]
      BY <2>1, <3>1 DEF CommitClose, CloseBook, AllServed, Served
    <3>4. \A k \in Keys : positions'[k] = positions[k] \/ positions'[k] = None
      BY <3>1, <3>3 DEF TypeOK, Book
    <3>5. \A e \in user.todo : e.key \in Keys
      BY DEF TypeOK, Pair
    <3> QED BY <3>2, <3>4, <3>5 DEF Commanded
  <2>2. ~CommitOpen("user") /\ ~Reverse("user") /\ ~CommitReverse("user")
    BY DEF Commanded, CommitOpen, Reverse, CommitReverse
  <2>3. ~UserReset /\ ~Restart
    BY <1>3, IdleFacts DEF UserReset, Restart
  <2>4. UNCHANGED <<positions, call, user>> => Commanded'
    BY DEF Commanded
  <2> QED BY <1>3, <2>1, <2>2, <2>3, <2>4, CommandAlone, UserCloseCommanded
<1> QED BY <1>1, <1>2, <1>3

LEMMA InitCommanded == Init => Commanded
BY IdleFacts DEF Init, Commanded, Callers

\* While handlers do not overlap, the close command never meets the quiet
\* refusal whose nil error it dereferences: nothing turned a position around
\* since the snapshot it compares with.
THEOREM CommandIsSafe == Serial => (Spec => []CommandSafe)
<1>1. AccountInv /\ Commanded => CommandSafe
  <2>1. SUFFICES ASSUME AccountInv, Commanded, NEW e \in user.todo, call["user"] = None,
                        RefusedQuietly(e.key, Inv(e.lot.type), "none")
                 PROVE  FALSE
    BY DEF CommandSafe
  <2>2. positions[e.key] # None /\ positions[e.key].type = Inv(e.lot.type)
    BY <2>1 DEF RefusedQuietly
  <2>3. e.lot.type \in Types
    BY <2>1 DEF AccountInv, TypeOK, Pair, Lot
  <2> QED BY <2>1, <2>2, <2>3, InvTypes DEF Commanded
<1>2. CASE Serial
  <2>1. (AccountInv /\ Commanded) /\ [Next]_vars => (AccountInv /\ Commanded)'
    BY <1>2, NextInv, NextCommanded
  <2>2. Spec => []CommandSafe
    BY <1>1, <2>1, InitAccount, InitCommanded, PTL DEF Spec
  <2> QED BY <2>2
<1> QED BY <1>2

-----------------------------------------------------------------------------
(* Results.                                                                *)

\* The result a closing order carries is the one of the position it closes.
CarriesResult ==
  \A g \in Callers :
    call[g] # None /\ call[g].stage = "sent" /\ call[g].closing
      => positions[call[g].key].gain = call[g].gain

\* A result that was realised by a close and is counted only with the second
\* order of the reversal.
Pending(c) ==
  \E g \in Callers : /\ call[g] # None /\ call[g].stage # "sent"
                     /\ call[g].gain # 0 /\ call[g].key.coin = c

Counted ==
  \A c \in Coins : tracker[c] + (IF Pending(c) THEN 1 ELSE 0) <= realised[c]

\* With no call out after the step, nothing is pending.
LEMMA NoCallCounted ==
  ASSUME \A g \in Callers : call'[g] = None,
         \A c \in Coins : tracker'[c] \in Nat /\ tracker'[c] <= realised'[c]
  PROVE  CarriesResult' /\ Counted'
<1>1. \A c : ~Pending(c)'
  BY DEF Pending
<1> QED BY <1>1 DEF CarriesResult, Counted

\* An order that is sent carries the result of the position it closes.
LEMMA SubmitCounted ==
  ASSUME TypeOK, CarriesResult, Counted, NEW g \in Callers, NEW o \in Order, Submit(g, o),
         o.stage = "sent", o.closing => positions[o.key].gain = o.gain
  PROVE  CarriesResult' /\ Counted'
<1>1. positions' = positions /\ UNCHANGED <<tracker, realised>>
  BY DEF Submit, books, counts
<1>2. \A h \in Callers : call'[h] = call[h] \/ call'[h] = o
  BY DEF Submit, TypeOK
<1>3. CarriesResult'
  BY <1>1, <1>2 DEF CarriesResult
<1>4. \A c : Pending(c)' => Pending(c)
  BY <1>2 DEF Pending
<1>5. \A c \in Coins : tracker[c] \in Nat /\ realised[c] \in Nat
  BY DEF TypeOK
<1> QED BY <1>1, <1>3, <1>4, <1>5 DEF Counted

\* Neither the counts nor the calls are touched.
LEMMA SameCounted ==
  ASSUME Counted, UNCHANGED <<tracker, realised, call>>
  PROVE  Counted'
<1>1. \A c : Pending(c)' = Pending(c)
  BY DEF Pending
<1> QED BY <1>1 DEF Counted

LEMMA CommitOpenCounted ==
  ASSUME TypeOK, Exclusive, Counted, NEW g \in Callers, CommitOpen(g)
  PROVE  CarriesResult' /\ Counted'
<1>1. call[g] # None /\ call[g] \in Order /\ call[g].key.coin \in Coins
  BY KeyFacts DEF CommitOpen, TypeOK, Order
<1>2. \A h \in Callers : call'[h] = None
  BY <1>1, OneCall DEF CommitOpen, TypeOK
<1>3. \A c \in Coins : tracker[c] \in Nat /\ realised[c] \in Nat /\ tracker[c] <= realised[c]
  BY DEF TypeOK, Counted
<1>4. \A c \in Coins : tracker'[c] \in Nat /\ tracker'[c] <= realised'[c]
  <2>1. CASE call[g].gain = 0
    BY <1>3, <2>1 DEF CommitOpen, Track
  <2>2. CASE call[g].gain # 0
    <3>1. /\ tracker' = [tracker EXCEPT ![call[g].key.coin] = @ + 1]
          /\ realised' = [realised EXCEPT ![call[g].key.coin] = @ + 1]
      BY <2>2 DEF CommitOpen, Track
    <3> QED BY <1>1, <1>3, <3>1 DEF TypeOK
  <2> QED BY <2>1, <2>2
<1> QED BY <1>2, <1>4, NoCallCounted

LEMMA CommitCloseCounted ==
  ASSUME TypeOK, Exclusive, AllServed, CarriesResult, Counted, NEW g \in Callers, CommitClose(g)
  PROVE  CarriesResult' /\ Counted'
<1>1. /\ call[g] # None /\ call[g] \in Order /\ call[g].key.coin \in Coins
      /\ call[g].stage = "sent" /\ call[g].closing
  BY KeyFacts DEF CommitClose, TypeOK, Order
<1>2. \A h \in Callers : h # g => call[h] = None /\ call'[h] = None
  BY <1>1, OneCall DEF CommitClose, TypeOK
<1>3. \A c \in Coins : tracker[c] \in Nat /\ realised[c] \in Nat /\ tracker[c] <= realised[c]
  BY DEF TypeOK, Counted
<1>4. positions[call[g].key] # None /\ positions[call[g].key].gain = call[g].gain
  BY <1>1 DEF AllServed, Served, CarriesResult
<1>5. realised' = IF call[g].gain # 0 THEN [realised EXCEPT ![call[g].key.coin] = @ + 1]
                  ELSE realised
  BY <1>4 DEF CommitClose, Realise
<1>6. CASE ~call[g].open
  <2>1. \A h \in Callers : call'[h] = None
    BY <1>2, <1>6 DEF CommitClose, TypeOK
  <2>2. tracker' = IF call[g].gain = 0 THEN tracker
                   ELSE [tracker EXCEPT ![call[g].key.coin] = @ + 1]
    BY <1>6 DEF CommitClose, Track
  <2>3. \A c \in Coins : tracker'[c] \in Nat /\ tracker'[c] <= realised'[c]
    <3>1. CASE call[g].gain = 0
      BY <1>3, <1>5, <2>2, <3>1
    <3>2. CASE call[g].gain # 0
      BY <1>1, <1>3, <1>5, <2>2, <3>2 DEF TypeOK
    <3> QED BY <3>1, <3>2
  <2> QED BY <2>1, <2>3, NoCallCounted
<1>7. CASE call[g].open
  <2>1. tracker' = tracker /\ call' = [call EXCEPT ![g].stage = "closed"]
    BY <1>7 DEF CommitClose
  <2>2. /\ call'[g].stage = "closed" /\ call'[g].gain = call[g].gain
        /\ call'[g].key = call[g].key
    BY <1>1, <2>1 DEF TypeOK, Order
  <2>3. CarriesResult'
    BY <1>2, <2>2 DEF CarriesResult
  <2>4. \A c : Pending(c)' => call[g].gain # 0 /\ call[g].key.coin = c
    BY <1>2, <2>2 DEF Pending
  <2>5. Counted'
    <3>1. CASE call[g].gain = 0
      BY <1>3, <1>5, <2>1, <2>4, <3>1 DEF Counted
    <3>2. CASE call[g].gain # 0
      <4>1. realised' = [realised EXCEPT ![call[g].key.coin] = @ + 1]
        BY <1>5, <3>2
      <4> QED BY <1>1, <1>3, <2>1, <2>4, <4>1 DEF Counted, TypeOK
    <3> QED BY <3>1, <3>2
  <2> QED BY <2>3, <2>5
<1> QED BY <1>6, <1>7

LEMMA ReverseCounted ==
  ASSUME TypeOK, Exclusive, Counted, NEW g \in Callers, Reverse(g)
  PROVE  CarriesResult' /\ Counted'
<1>1. call[g] # None /\ call[g] \in Order /\ call[g].stage = "closed"
      /\ UNCHANGED <<tracker, realised>>
  BY DEF Reverse, TypeOK, counts
<1>2. \A h \in Callers : h # g => call[h] = None /\ call'[h] = None
  BY <1>1, OneCall DEF Reverse, TypeOK
<1>3. \A c \in Coins : tracker[c] \in Nat /\ realised[c] \in Nat /\ tracker[c] <= realised[c]
  BY DEF TypeOK, Counted
<1>4. CASE call'[g] = None
  BY <1>1, <1>2, <1>3, <1>4, NoCallCounted
<1>5. CASE call'[g] # None
  <2>1. call' = [call EXCEPT ![g].stage = "reversed"]
    BY <1>5 DEF Reverse, TypeOK
  <2>2. /\ call'[g].stage = "reversed" /\ call'[g].gain = call[g].gain
        /\ call'[g].key = call[g].key
    BY <1>1, <2>1 DEF TypeOK, Order
  <2>3. CarriesResult'
    BY <1>2, <2>2 DEF CarriesResult
  <2>4. \A c : Pending(c)' => Pending(c)
    BY <1>1, <1>2, <2>2 DEF Pending
  <2> QED BY <1>1, <1>3, <2>3, <2>4 DEF Counted
<1> QED BY <1>4, <1>5

LEMMA CommitReverseCounted ==
  ASSUME TypeOK, Exclusive, Counted, NEW g \in Callers, CommitReverse(g)
  PROVE  CarriesResult' /\ Counted'
<1>1. call[g] # None /\ call[g] \in Order /\ call[g].key.coin \in Coins
      /\ call[g].stage = "reversed" /\ realised' = realised
  BY KeyFacts DEF CommitReverse, TypeOK, Order
<1>2. \A h \in Callers : call'[h] = None
  BY <1>1, OneCall DEF CommitReverse, TypeOK
<1>3. \A c \in Coins : tracker[c] \in Nat /\ realised[c] \in Nat /\ tracker[c] <= realised[c]
  BY DEF TypeOK, Counted
<1>4. \A c \in Coins : tracker'[c] \in Nat /\ tracker'[c] <= realised'[c]
  <2>1. CASE call[g].gain = 0
    BY <1>1, <1>3, <2>1 DEF CommitReverse, Track
  <2>2. CASE call[g].gain # 0
    <3>1. tracker' = [tracker EXCEPT ![call[g].key.coin] = @ + 1]
      BY <2>2 DEF CommitReverse, Track
    <3>2. Pending(call[g].key.coin)
      BY <1>1, <2>2 DEF Pending
    <3>3. tracker[call[g].key.coin] + 1 <= realised[call[g].key.coin]
      BY <1>1, <3>2 DEF Counted
    <3> QED BY <1>1, <1>3, <3>1, <3>3 DEF TypeOK
  <2> QED BY <2>1, <2>2
<1> QED BY <1>2, <1>4, NoCallCounted

LEMMA NextCounted ==
  ASSUME Serial, AccountInv, CarriesResult, Counted, [Next]_vars
  PROVE  CarriesResult' /\ Counted'
<1> USE DEF AccountInv
<1>1. ASSUME UNCHANGED <<positions, call, tracker, realised>> PROVE CarriesResult' /\ Counted'
  BY <1>1, SameCounted DEF CarriesResult
<1>2. ASSUME NEW k \in Keys, NEW t \in Types, NEW v \in Volumes, NEW live \in Lives,
             NEW d \in Decisions, Signal(k, t, v, live, d)
      PROVE  CarriesResult' /\ Counted'
  <2>1. PICK gain \in Value(k, t) : Submit("tick", OrderFor(k, t, v, TRUE, live, gain))
    BY <1>2 DEF Signal
  <2>2. PICK o : o = OrderFor(k, t, v, TRUE, live, gain)
    OBVIOUS
  <2>3. gain \in -1 .. 1 /\ v \in Nat \ {0} /\ live \in BOOLEAN /\ TRUE \in BOOLEAN
        /\ "tick" \in Callers
    BY <2>1, ValueTypes DEF Callers
  <2>4. o \in Order
    BY <2>2, <2>3, OrderTypes
  <2>5. o.stage = "sent" /\ o.key = k /\ o.gain = gain /\ (o.closing <=> positions[k] # None)
    BY <2>2 DEF OrderFor
  <2>6. positions[k] # None => gain = positions[k].gain
    BY <2>1 DEF Value
  <2> QED BY <2>1, <2>2, <2>3, <2>4, <2>5, <2>6, SubmitCounted
<1>3. ASSUME NEW e \in tick.todo, TickClose(e) PROVE CarriesResult' /\ Counted'
  <2>1. CASE UNCHANGED <<books, exposure, call, counts, orders, tainted, boots, faults>>
    BY <2>1, <1>1 DEF books, counts
  <2>2. CASE \E o \in Order : /\ o = OrderFor(e.key, Inv(e.type), 1, FALSE, e.live,
                                              positions[e.key].gain)
                              /\ Submit("tick", o)
    BY <2>2, SubmitCounted DEF OrderFor, Callers
  <2> QED BY <1>3, <2>1, <2>2, TickCloseSubmits
<1>4. ASSUME NEW e \in user.todo, UserClose(e) PROVE CarriesResult' /\ Counted'
  <2>1. CASE UNCHANGED <<books, exposure, call, counts, orders, tainted, boots, faults>>
    BY <2>1, <1>1 DEF books, counts
  <2>2. CASE \E o \in Order : /\ o = OrderFor(e.key, Inv(e.lot.type), e.lot.volume, FALSE, TRUE,
                                              positions[e.key].gain)
                              /\ Submit("user", o)
    BY <2>2, SubmitCounted DEF OrderFor, Callers
  <2> QED BY <1>4, <2>1, <2>2, UserCloseSubmits
<1>5. ASSUME TickSwap \/ UserReset \/ \E l \in sync.lots : SyncLot(l)
      PROVE  CarriesResult' /\ Counted'
  <2>1. UNCHANGED <<call, tracker, realised>>
    BY <1>5 DEF TickSwap, UserReset, SyncLot, counts
  <2>2. \A g \in Callers : call[g] = None
    BY <1>5, IdleFacts
       DEF TickSwap, UserReset, Exclusive, TickBusy, UserBusy, SyncBusy, Callers
  <2>3. CarriesResult'
    BY <2>1, <2>2 DEF CarriesResult
  <2> QED BY <2>1, <2>3, SameCounted
<1>6. ASSUME Restart PROVE CarriesResult' /\ Counted'
  <2>1. \A g \in Callers : call'[g] = None
    BY <1>6 DEF Restart
  <2>2. \A c \in Coins : tracker'[c] = 0 /\ realised'[c] = 0
    BY <1>6 DEF Restart
  <2> QED BY <2>1, <2>2, NoCallCounted
<1>7. ASSUME NEW g \in Callers,
             CommitOpen(g) \/ CommitClose(g) \/ Reverse(g) \/ CommitReverse(g)
      PROVE  CarriesResult' /\ Counted'
  BY <1>7, CommitOpenCounted, CommitCloseCounted, ReverseCounted, CommitReverseCounted
<1>8. \A c, e, arg : TickRead(c) \/ UserStart(arg) \/ SyncStart \/ Drift(c, e)
        => UNCHANGED <<positions, call, tracker, realised>>
  BY DEF TickRead, UserStart, SyncStart, Drift, books, counts
<1> QED BY <1>1, <1>2, <1>3, <1>4, <1>5, <1>6, <1>7, <1>8 DEF Next, vars, Crash, UserPanic

LEMMA InitCounted == Init => CarriesResult /\ Counted
BY DEF Init, CarriesResult, Counted, Pending

\* While handlers do not overlap, no coin counts more results than its
\* positions had, reversals and failed orders included.
THEOREM CountsOnce == Serial => (Spec => []ResultsCountedOnce)
<1>1. AccountInv /\ Counted => ResultsCountedOnce
  BY DEF AccountInv, TypeOK, Counted, ResultsCountedOnce
<1>2. CASE Serial
  <2>1. (AccountInv /\ CarriesResult /\ Counted) /\ [Next]_vars
          => (AccountInv /\ CarriesResult /\ Counted)'
    BY <1>2, NextInv, NextCounted
  <2>2. Spec => []ResultsCountedOnce
    BY <1>1, <2>1, InitAccount, InitCounted, PTL DEF Spec
  <2> QED BY <2>2
<1> QED BY <1>2

=============================================================================
