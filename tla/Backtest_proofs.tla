--------------------------- MODULE Backtest_proofs --------------------------
(***************************************************************************)
(* Proofs about Backtest, for every set of prices, trends and bounds.      *)
(***************************************************************************)
EXTENDS Backtest, SequenceTheorems, FiniteSetTheorems, WellFoundedInduction, TLAPS

-----------------------------------------------------------------------------
(* The ring is the last values that were pushed.                           *)

\* A ring of n slots: the index is where the next value goes.
IsRing(r, n) ==
  /\ r = [size |-> n, index |-> r.index, count |-> r.count, values |-> r.values]
  /\ r.values = [j \in 0 .. n - 1 |-> r.values[j]]
  /\ r.index \in 0 .. n - 1 /\ r.count \in Nat
  /\ r.count < n => r.index = r.count
  /\ r.count = n => r.index = 0

\* How many values Get shows.
Shown(r, n) == IF r.count < n THEN r.count ELSE n

LastOf(n, s) == IF Len(s) > n THEN SubSeq(s, Len(s) - n + 1, Len(s)) ELSE s

LEMMA ModSmall ==
  ASSUME NEW n \in Nat \ {0}, NEW x \in Int, 0 <= x, x < n
  PROVE  x % n = x
OBVIOUS

LEMMA ModOnce ==
  ASSUME NEW n \in Nat \ {0}, NEW x \in Int, n <= x, x < 2 * n
  PROVE  x % n = x - n
OBVIOUS

LEMMA RingStarts ==
  ASSUME NEW n \in Nat \ {0}
  PROVE  IsRing(NewRing(n), n) /\ RingGet(NewRing(n)) = <<>>
<1>1. IsRing(NewRing(n), n)
  BY DEF IsRing, NewRing
<1>2. RingGet(NewRing(n)) = [k \in 1 .. 0 |-> NewRing(n).values[IF FALSE THEN (k - 1) % n ELSE k - 1]]
  BY DEF RingGet, NewRing
<1>3. RingGet(NewRing(n)) = <<>>
  BY <1>2
<1> QED BY <1>1, <1>3

\* Where the elements of a ring are.
LEMMA RingShows ==
  ASSUME NEW n \in Nat \ {0}, NEW r, IsRing(r, n),
         NEW S, \A j \in 0 .. n - 1 : r.values[j] \in S
  PROVE  /\ Shown(r, n) \in Nat /\ RingGet(r) \in Seq(S) /\ Len(RingGet(r)) = Shown(r, n)
         /\ r.count <= n => \A k \in 1 .. Shown(r, n) : RingGet(r)[k] = r.values[k - 1]
         /\ r.count >= n => \A k \in 1 .. Shown(r, n) : RingGet(r)[k] = r.values[(r.index + k - 1) % n]
<1> DEFINE i == r.index
           l == Shown(r, n)
           slot(k) == IF r.count > l THEN (i + k - 1) % n ELSE k - 1
<1>1. /\ l \in Nat /\ l <= n /\ i \in 0 .. n - 1 /\ r.count \in Nat /\ r.size = n
      /\ l = IF r.count < n THEN r.count ELSE n
  BY DEF IsRing, Shown
<1> HIDE DEF l
<1>2. ASSUME NEW k \in 1 .. l PROVE slot(k) \in 0 .. n - 1
  <2>1. k \in Int /\ 0 <= i + k - 1 /\ i + k - 1 < 2 * n /\ k <= n /\ i + k - 1 \in Int
    BY <1>1
  <2>2. (i + k - 1) % n \in 0 .. n - 1
    <3>1. CASE i + k - 1 < n
      BY <2>1, <3>1, ModSmall
    <3>2. CASE i + k - 1 >= n
      <4>1. (i + k - 1) % n = (i + k - 1) - n
        BY <2>1, <3>2, ModOnce
      <4> QED BY <2>1, <3>2, <4>1
    <3> QED BY <2>1, <3>1, <3>2
  <2> QED BY <2>1, <2>2
<1>3. RingGet(r) = [k \in 1 .. l |-> r.values[slot(k)]]
  BY <1>1 DEF RingGet
<1> HIDE DEF slot
<1>4. RingGet(r) \in Seq(S) /\ Len(RingGet(r)) = l /\ \A k \in 1 .. l : RingGet(r)[k] = r.values[slot(k)]
  BY <1>1, <1>2, <1>3
<1>5. ASSUME r.count >= n, NEW k \in 1 .. l PROVE RingGet(r)[k] = r.values[(i + k - 1) % n]
  <2>1. CASE r.count > n
    <3>1. r.count > l
      BY <1>1, <2>1
    <3>2. slot(k) = (i + k - 1) % n
      BY ONLY <3>1 DEF slot
    <3> QED BY <1>4, <3>2
  <2>2. CASE r.count = n
    <3>1. i = 0 /\ i + k - 1 = k - 1 /\ k - 1 \in Int /\ 0 <= k - 1 /\ k - 1 < n
      BY <1>1, <2>2 DEF IsRing
    <3>2. (i + k - 1) % n = k - 1
      BY <3>1, ModSmall
    <3> QED BY <1>1, <1>4, <2>2, <3>2 DEF slot
  <2> QED BY <1>1, <1>5, <2>1, <2>2
<1>6. ASSUME r.count <= n, NEW k \in 1 .. l PROVE RingGet(r)[k] = r.values[k - 1]
  BY <1>1, <1>4, <1>6 DEF slot
<1> QED BY <1>1, <1>4, <1>5, <1>6 DEF l

\* The slot after the newest, and where it is read.
LEMMA NextSlot ==
  ASSUME NEW n \in Nat \ {0}, NEW i \in 0 .. n - 1, NEW k \in 1 .. n
  PROVE  /\ (i + 1) % n = IF i + 1 < n THEN i + 1 ELSE 0
         /\ k = n => (((i + 1) % n) + k - 1) % n = i
         /\ k < n => /\ (((i + 1) % n) + k - 1) % n = (i + (k + 1) - 1) % n
                     /\ (((i + 1) % n) + k - 1) % n \in 0 .. n - 1
                     /\ (((i + 1) % n) + k - 1) % n # i
<1> DEFINE next == (i + 1) % n
<1>1. next = IF i + 1 < n THEN i + 1 ELSE 0
  <2>1. CASE i + 1 < n
    BY <2>1, ModSmall
  <2>2. CASE i + 1 = n
    BY <2>2, ModOnce
  <2> QED BY <2>1, <2>2
<1> HIDE DEF next
<1>2. CASE i + 1 = n
  <2>1. next = 0 /\ k - 1 \in Int /\ 0 <= k - 1 /\ k - 1 < n /\ next + k - 1 = k - 1
    BY <1>1, <1>2
  <2>2. (next + k - 1) % n = k - 1
    BY <2>1, ModSmall
  <2>3. ASSUME k < n PROVE (i + (k + 1) - 1) % n = k - 1
    <3>1. i + (k + 1) - 1 \in Int /\ n <= i + (k + 1) - 1 /\ i + (k + 1) - 1 < 2 * n
      BY <1>2, <2>3
    <3>2. (i + (k + 1) - 1) % n = (i + (k + 1) - 1) - n
      BY <3>1, ModOnce
    <3> QED BY <1>2, <3>2
  <2> QED BY <1>1, <1>2, <2>2, <2>3 DEF next
<1>3. CASE i + 1 < n
  <2>1. next = i + 1 /\ next + k - 1 = i + k /\ i + k \in Int /\ i + (k + 1) - 1 = i + k
    BY <1>1, <1>3
  <2>2. CASE i + k < n
    <3>1. (i + k) % n = i + k
      BY <2>1, <2>2, ModSmall
    <3> QED BY <1>1, <1>3, <2>1, <2>2, <3>1 DEF next
  <2>3. CASE i + k >= n
    <3>0. i + k \in Int /\ n <= i + k /\ i + k < 2 * n
      BY <2>3
    <3> PICK x \in Int : x = i + k
      BY <3>0
    <3>4. x % n = x - n
      BY <3>0, ModOnce
    <3>1. (i + k) % n = i + k - n
      BY <3>4
    <3>2. (next + k - 1) % n = i + k - n /\ (i + (k + 1) - 1) % n = i + k - n
      BY <2>1, <3>1
    <3>3. /\ k = n => i + k - n = i
          /\ k < n => i + k - n \in 0 .. n - 1 /\ i + k - n # i
      BY <2>3
    <3> QED BY <1>1, <3>2, <3>3 DEF next
  <2> QED BY <2>1, <2>2, <2>3
<1> QED BY <1>2, <1>3

\* Pushing adds a value at the end and drops the oldest when the ring is full.
LEMMA RingAdds ==
  ASSUME NEW n \in Nat \ {0}, NEW r, IsRing(r, n), NEW v, NEW p, p = RingPush(r, v)
  PROVE  /\ IsRing(p, n)
         /\ RingGet(p) # <<>> /\ RingGet(p)[Len(RingGet(p))] = v
         /\ RingGet(p) = LastOf(n, Append(RingGet(r), v))
<1>1. /\ r.index \in 0 .. n - 1 /\ r.count \in Nat /\ n \in 1 .. n
      /\ p = [size |-> n, index |-> (r.index + 1) % n, count |-> r.count + 1,
              values |-> [j \in 0 .. n - 1 |-> IF j = r.index THEN v ELSE r.values[j]]]
  <2>1. r.size = n /\ r.index \in 0 .. n - 1 /\ r.count \in Nat /\ n \in 1 .. n
    BY DEF IsRing
  <2>2. p = [size |-> n, index |-> (r.index + 1) % n, count |-> r.count + 1,
             values |-> [r.values EXCEPT ![r.index] = v]]
    BY <2>1 DEF IsRing, RingPush
  <2>3. [r.values EXCEPT ![r.index] = v] =
          [j \in 0 .. n - 1 |-> IF j = r.index THEN v ELSE r.values[j]]
    BY <2>1 DEF IsRing
  <2> QED BY <2>1, <2>2, <2>3
<1>2. p.index = IF r.index + 1 < n THEN r.index + 1 ELSE 0
  BY <1>1, NextSlot
<1>3. /\ p.size = n /\ p.count = r.count + 1 /\ p.index = (r.index + 1) % n
      /\ \A j \in 0 .. n - 1 : p.values[j] = IF j = r.index THEN v ELSE r.values[j]
      /\ p.values = [j \in 0 .. n - 1 |-> p.values[j]]
  BY <1>1
<1>4. IsRing(p, n)
  <2>1. p.index \in 0 .. n - 1 /\ p.count \in Nat
    BY <1>1, <1>2, <1>3
  <2>2. (p.count < n => p.index = p.count) /\ (p.count = n => p.index = 0)
    BY <1>1, <1>2, <1>3 DEF IsRing
  <2>3. p = [size |-> n, index |-> p.index, count |-> p.count, values |-> p.values]
    BY <1>1
  <2> QED BY <1>3, <2>1, <2>2, <2>3 DEF IsRing
<1> PICK S : S = {r.values[j] : j \in 0 .. n - 1} \cup {v}
  OBVIOUS
<1>5. v \in S /\ \A j \in 0 .. n - 1 : r.values[j] \in S
  OBVIOUS
<1>6. \A j \in 0 .. n - 1 : p.values[j] \in S
  BY <1>3, <1>5
<1> DEFINE s == RingGet(r)
           t == RingGet(p)
           u == Append(s, v)
           l == Shown(r, n)
           l2 == Shown(p, n)
<1>7. /\ l \in Nat /\ s \in Seq(S) /\ Len(s) = l
      /\ r.count <= n => \A k \in 1 .. l : s[k] = r.values[k - 1]
      /\ r.count >= n => \A k \in 1 .. l : s[k] = r.values[(r.index + k - 1) % n]
  BY <1>5, RingShows
<1>8. /\ l2 \in Nat /\ t \in Seq(S) /\ Len(t) = l2
      /\ p.count <= n => \A k \in 1 .. l2 : t[k] = p.values[k - 1]
      /\ p.count >= n => \A k \in 1 .. l2 : t[k] = p.values[(p.index + k - 1) % n]
  BY <1>4, <1>6, RingShows
<1>12. /\ l = IF r.count < n THEN r.count ELSE n
       /\ l2 = IF p.count < n THEN p.count ELSE n
  BY DEF Shown
<1>9. u \in Seq(S) /\ Len(u) = l + 1 /\ (\A k \in 1 .. l : u[k] = s[k]) /\ u[l + 1] = v
  BY <1>5, <1>7, AppendProperties
<1> HIDE DEF s, t, u, l, l2
<1>10. CASE r.count < n
  <2>1. l = r.count /\ l2 = r.count + 1 /\ r.index = r.count /\ p.count <= n
    BY <1>1, <1>3, <1>10, <1>12 DEF IsRing
  <2>2. ASSUME NEW k \in 1 .. l2 PROVE t[k] = u[k]
    <3>1. t[k] = p.values[k - 1] /\ k - 1 \in 0 .. n - 1 /\ k \in 1 .. l + 1
      <4>1. k \in Nat /\ 1 <= k /\ k <= l2 /\ l2 = l + 1 /\ l + 1 <= n /\ n \in Nat /\ l \in Nat
        BY <1>1, <1>7, <1>10, <2>1
      <4>2. t[k] = p.values[k - 1]
        BY <1>8, <2>1
      <4> QED BY ONLY <4>1, <4>2
    <3>2. CASE k = l + 1
      BY <1>1, <1>3, <1>9, <2>1, <3>1, <3>2
    <3>3. CASE k \in 1 .. l
      <4>1. s[k] = r.values[k - 1]
        BY <1>7, <1>10, <2>1, <3>3
      <4> QED BY <1>1, <1>3, <1>9, <2>1, <3>1, <3>3, <4>1
    <3> QED BY <1>7, <2>1, <3>2, <3>3
  <2>3. t = u
    BY <1>8, <1>9, <2>1, <2>2, SeqEqual
  <2>4. t # <<>> /\ t[Len(t)] = v
    BY <1>7, <1>9, <2>1, <2>3
  <2>5. LastOf(n, u) = u
    BY <1>1, <1>7, <1>9, <1>10, <2>1 DEF LastOf
  <2> QED BY <1>4, <2>3, <2>4, <2>5 DEF s, t, u
<1>11. CASE r.count >= n
  <2>1. l = n /\ l2 = n /\ p.count >= n
    BY <1>1, <1>3, <1>11, <1>12
  <2>2. /\ SubSeq(u, 2, n + 1) \in Seq(S) /\ Len(SubSeq(u, 2, n + 1)) = n
        /\ \A k \in 1 .. n : SubSeq(u, 2, n + 1)[k] = u[k + 1]
    <3>1. \A k \in 2 .. n + 1 : u[k] \in S
      BY <1>9, <2>1
    <3>2. /\ SubSeq(u, 2, n + 1) \in Seq(S)
          /\ Len(SubSeq(u, 2, n + 1)) = (IF 2 <= n + 1 THEN n + 1 - 2 + 1 ELSE 0)
          /\ \A k \in 1 .. n + 1 - 2 + 1 : SubSeq(u, 2, n + 1)[k] = u[2 + k - 1]
      BY <3>1, SubSeqProperties, SMTT(30)
    <3>3. n + 1 - 2 + 1 = n /\ 2 <= n + 1 /\ \A k \in 1 .. n : 2 + k - 1 = k + 1
      OBVIOUS
    <3> QED BY <3>2, <3>3
  <2>3. ASSUME NEW k \in 1 .. n PROVE t[k] = u[k + 1]
    <3>1. t[k] = p.values[(((r.index + 1) % n) + k - 1) % n]
      BY <1>3, <1>8, <2>1
    <3>2. CASE k = n
      <4>1. (((r.index + 1) % n) + k - 1) % n = r.index
        BY <1>1, <3>2, NextSlot
      <4> QED BY <1>1, <1>3, <1>9, <2>1, <3>1, <3>2, <4>1
    <3>3. CASE k < n
      <4>1. /\ (((r.index + 1) % n) + k - 1) % n = (r.index + (k + 1) - 1) % n
            /\ (((r.index + 1) % n) + k - 1) % n \in 0 .. n - 1
            /\ (((r.index + 1) % n) + k - 1) % n # r.index
        BY <1>1, <3>3, NextSlot
      <4>2. t[k] = r.values[(r.index + (k + 1) - 1) % n]
        BY <1>3, <3>1, <4>1
      <4>3. k + 1 \in 1 .. l
        BY <2>1, <3>3
      <4>4. u[k + 1] = s[k + 1] /\ s[k + 1] = r.values[(r.index + (k + 1) - 1) % n]
        BY <1>7, <1>9, <1>11, <4>3
      <4> QED BY <4>2, <4>4
    <3> QED BY <3>2, <3>3
  <2>4. t = SubSeq(u, 2, n + 1)
    BY <1>8, <2>1, <2>2, <2>3, SeqEqual
  <2>5. LastOf(n, u) = SubSeq(u, 2, n + 1)
    BY <1>9, <2>1 DEF LastOf
  <2>6. t # <<>> /\ t[Len(t)] = v
    BY <1>8, <1>9, <2>1, <2>3
  <2> QED BY <1>4, <2>4, <2>5, <2>6 DEF s, t, u
<1> QED BY <1>1, <1>10, <1>11 DEF s, t, u

-----------------------------------------------------------------------------
(* The history of the position keeps the last Samples closed buckets.      *)

HistoryOK(p) ==
  /\ p = [type |-> p.type, open |-> p.open, pnl |-> p.pnl, history |-> p.history,
          trend |-> p.trend]
  /\ p.history = [window |-> p.history.window, ring |-> p.history.ring]
  /\ IsRing(p.history.ring, Samples)

HistoryInv == position # None => HistoryOK(position)

\* What the refinement has to show of a step.
Refines == History!Next \/ UNCHANGED Kept

LEMMA NewPosition ==
  ASSUME NEW t, NEW price
  PROVE  /\ HistoryOK(OpenPosition(t, price))
         /\ RingGet(OpenPosition(t, price).history.ring) = <<>>
BY RingStarts, BoundsAssumption DEF HistoryOK, OpenPosition, NewProfit, NewHistory

LEMMA Pushed ==
  ASSUME NEW h, h = [window |-> h.window, ring |-> h.ring], IsRing(h.ring, Samples),
         NEW time, NEW v, NEW g, g = HistoryPush(h, time, Duration, v)
  PROVE  /\ g = [window |-> g.window, ring |-> g.ring] /\ IsRing(g.ring, Samples)
         /\ \/ RingGet(g.ring) = RingGet(h.ring)
            \/ /\ RingGet(g.ring) # <<>>
               /\ RingGet(g.ring) = LastOf(Samples, Append(RingGet(h.ring),
                                             RingGet(g.ring)[Len(RingGet(g.ring))]))
<1>1. /\ g = [window |-> g.window, ring |-> g.ring]
      /\ g.ring = h.ring \/ g.ring = RingPush(h.ring, h.window.bucket)
  BY DEF HistoryPush
<1>2. CASE g.ring = h.ring
  BY <1>1, <1>2
<1>3. CASE g.ring = RingPush(h.ring, h.window.bucket)
  <2>1. /\ IsRing(g.ring, Samples) /\ RingGet(g.ring) # <<>>
        /\ RingGet(g.ring)[Len(RingGet(g.ring))] = h.window.bucket
        /\ RingGet(g.ring) = LastOf(Samples, Append(RingGet(h.ring), h.window.bucket))
    BY <1>3, RingAdds, BoundsAssumption
  <2> QED BY <1>1, <2>1
<1> QED BY <1>1, <1>2, <1>3

LEMMA Updated ==
  ASSUME NEW p, HistoryOK(p), NEW s, NEW fit, NEW q, q = Update(p, s, fit)
  PROVE  /\ HistoryOK(q)
         /\ \/ RingGet(q.history.ring) = RingGet(p.history.ring)
            \/ /\ RingGet(q.history.ring) # <<>>
               /\ RingGet(q.history.ring) =
                    LastOf(Samples, Append(RingGet(p.history.ring),
                             RingGet(q.history.ring)[Len(RingGet(q.history.ring))]))
<1> PICK pnl, trend :
      q = [type |-> p.type, open |-> p.open, pnl |-> pnl, trend |-> trend,
           history |-> HistoryPush(p.history, s.time, Duration, pnl)]
  BY DEF Update, HistoryOK
<1>1. q.history = HistoryPush(p.history, s.time, Duration, pnl)
  OBVIOUS
<1>2. /\ q.history = [window |-> q.history.window, ring |-> q.history.ring]
      /\ IsRing(q.history.ring, Samples)
      /\ \/ RingGet(q.history.ring) = RingGet(p.history.ring)
         \/ /\ RingGet(q.history.ring) # <<>>
            /\ RingGet(q.history.ring) =
                 LastOf(Samples, Append(RingGet(p.history.ring),
                          RingGet(q.history.ring)[Len(RingGet(q.history.ring))]))
  BY <1>1, Pushed DEF HistoryOK
<1> QED BY <1>2 DEF HistoryOK

LEMMA Delivered ==
  ASSUME HistoryInv, NEW s, NEW fit, Deliver(s, fit)
  PROVE  HistoryInv' /\ Refines
<1>1. CASE position = None
  BY <1>1 DEF Deliver, HistoryInv, Refines, Kept
<1>2. CASE position' = None
  BY <1>2 DEF HistoryInv, Refines, Kept, History!Next, History!Clear
<1>3. CASE position # None /\ position' # None
  <2>1. position' = Update(position, s, fit) /\ HistoryOK(position)
    BY <1>3 DEF Deliver, HistoryInv
  <2>2. Kept = RingGet(position.history.ring) /\ Kept' = RingGet(position'.history.ring)
    BY <1>3 DEF Kept
  <2>3. HistoryOK(position') /\ (Kept' = Kept \/ (Kept' # <<>> /\
          Kept' = LastOf(Samples, Append(Kept, Kept'[Len(Kept')]))))
    BY <2>1, <2>2, Updated
  <2>4. LastOf(Samples, Append(Kept, Kept'[Len(Kept')])) =
          History!Suffix(Append(Kept, Kept'[Len(Kept')]))
    BY DEF LastOf, History!Suffix
  <2>5. HistoryInv'
    BY <2>3 DEF HistoryInv
  <2> QED BY <2>3, <2>4, <2>5 DEF Refines, History!Next, History!Add
<1> QED BY <1>1, <1>2, <1>3

LEMMA FlushedKeeps ==
  ASSUME HistoryInv, NEW fit, Flushed(fit)
  PROVE  HistoryInv' /\ Refines
<1>1. CASE \E s : Deliver(s, fit)
  BY <1>1, Delivered
<1>2. CASE UNCHANGED position
  BY <1>2 DEF HistoryInv, Refines, Kept
<1> QED BY <1>1, <1>2 DEF Flushed

LEMMA HistoryStep ==
  ASSUME HistoryInv, [Next]_vars
  PROVE  HistoryInv' /\ Refines
<1>1. ASSUME NEW p, NEW dt, Trade(p, dt) PROVE UNCHANGED position
  BY <1>1 DEF Trade
<1>2. ASSUME NEW fit, Flush(fit) PROVE HistoryInv' /\ Refines
  BY <1>2, FlushedKeeps DEF Flush
<1>3. ASSUME NEW p, NEW dt, NEW fit, LateTrade(p, dt, fit) PROVE HistoryInv' /\ Refines
  BY <1>3, FlushedKeeps DEF LateTrade
<1>4. ASSUME NEW t, Strategy(t) PROVE HistoryInv' /\ Refines
  <2>1. position' = OpenPosition(t, signal.price)
    BY <1>4 DEF Strategy
  <2>2. HistoryOK(position') /\ Kept' = <<>>
    BY <2>1, NewPosition DEF Kept
  <2> QED BY <2>2 DEF HistoryInv, Refines, History!Next, History!Clear
<1>5. CASE UNCHANGED position
  BY <1>5 DEF HistoryInv, Refines, Kept
<1>6. CASE UNCHANGED vars
  BY <1>5, <1>6 DEF vars
<1> QED BY <1>1, <1>2, <1>3, <1>4, <1>5, <1>6 DEF Next

\* The ring of a position's history behaves as a list of the last Samples
\* closed buckets, however often HistoryWindow.Push writes over its oldest slot
\* and Get unrolls it: Ring implements the list Get promises.
THEOREM HistoryKept == Spec => KeepsLastN
<1>1. Init => HistoryInv /\ History!Init
  BY DEF Init, HistoryInv, History!Init, Kept
<1>2. HistoryInv /\ [Next]_vars => HistoryInv' /\ [History!Next]_Kept
  BY HistoryStep DEF Refines
<1> QED BY <1>1, <1>2, PTL DEF Spec, KeepsLastN, History!Spec

-----------------------------------------------------------------------------
(* Sums over a sequence.                                                   *)

\* A set of numbers without a least one is empty.
LEMMA Least ==
  ASSUME NEW T, T \subseteq Nat, T # {}
  PROVE  \E x \in T : \A y \in T : x <= y
<1> DEFINE R == {ss \in Nat \X Nat : ss[1] < ss[2]}
<1>1. IsWellFoundedOn(R, Nat)
  BY NatLessThanWellFounded, Zenon DEF OpToRel
<1> HIDE DEF R
<1>2. PICK x \in T : \A y \in T : ~(<<y, x>> \in R)
  BY <1>1, WFMin
<1>3. ASSUME NEW y \in T PROVE x <= y
  <2>1. <<y, x>> \notin R
    BY <1>2
  <2> QED BY <2>1 DEF R
<1> QED BY <1>3

\* The function FoldLeft computes on the sets of positions.
IsIter(f, s, n) ==
  f = [S \in SUBSET (1 .. n) |-> IF S = {} THEN 0 ELSE f[S \ {Max(S)}] + s[Max(S)]]

LEMMA TotalIter ==
  ASSUME NEW s, NEW n \in Nat, DOMAIN s = 1 .. n
  PROVE  Total(s) = (CHOOSE f : IsIter(f, s, n))[1 .. n]
BY DEF Total, FoldLeft, MapThenFoldSet, IsIter

LEMMA MaxIs ==
  ASSUME NEW S, NEW m \in S, S \subseteq Nat, \A x \in S : x <= m
  PROVE  Max(S) = m
<1>1. m \in S /\ \A y \in S : m >= y
  OBVIOUS
<1>2. Max(S) \in S /\ \A y \in S : Max(S) >= y
  BY <1>1 DEF Max
<1> PICK x : x = Max(S)
  OBVIOUS
<1>3. x \in Nat /\ m \in Nat /\ x <= m /\ m <= x
  BY <1>1, <1>2
<1>4. x = m
  BY <1>3
<1> QED BY <1>4

LEMMA MaxIn ==
  ASSUME NEW n \in Nat, NEW S, S \subseteq 1 .. n, S # {}
  PROVE  Max(S) \in S
<1> DEFINE T == {k \in Nat : \A x \in S : x <= k}
<1>1. n \in T
  OBVIOUS
<1>2. PICK m \in T : \A y \in T : m <= y
  BY <1>1, Least
<1>3. m \in S
  <2>1. SUFFICES ASSUME m \notin S PROVE FALSE
    OBVIOUS
  <2>2. m - 1 \in T
    <3>1. m # 0
      <4> PICK x \in S : TRUE
        OBVIOUS
      <4>1. x \in 1 .. n /\ x <= m
        BY <1>2
      <4> QED BY <4>1
    <3>2. \A x \in S : x <= m /\ x # m /\ x \in Nat
      BY <1>2, <2>1
    <3>3. m - 1 \in Nat /\ \A x \in S : x <= m - 1
      BY <1>2, <3>1, <3>2
    <3> QED BY <3>3
  <2> QED BY <1>2, <2>2
<1>4. Max(S) = m
  <2>1. m \in S /\ S \subseteq Nat /\ \A x \in S : x <= m
    BY <1>2, <1>3
  <2> QED BY <2>1, MaxIs
<1> QED BY <1>3, <1>4

LEMMA IterNext ==
  ASSUME NEW s, NEW n \in Nat \ {0}, NEW g, IsIter(g, s, n - 1)
  PROVE  \E f : IsIter(f, s, n)
<1> DEFINE f == [S \in SUBSET (1 .. n) |-> IF n \in S THEN g[S \ {n}] + s[n] ELSE g[S]]
<1>0. \A S \in SUBSET (1 .. n - 1) : g[S] = IF S = {} THEN 0 ELSE g[S \ {Max(S)}] + s[Max(S)]
  BY DEF IsIter
<1>1. ASSUME NEW S \in SUBSET (1 .. n)
      PROVE  f[S] = IF S = {} THEN 0 ELSE f[S \ {Max(S)}] + s[Max(S)]
  <2>1. CASE n \in S
    <3>1. Max(S) = n
      <4>1. n \in S /\ S \subseteq Nat /\ \A x \in S : x <= n
        BY <2>1
      <4> QED BY <4>1, MaxIs
    <3>2. f[S \ {n}] = g[S \ {n}]
      OBVIOUS
    <3> QED BY <2>1, <3>1, <3>2
  <2>2. CASE n \notin S
    <3>1. S \in SUBSET (1 .. n - 1) /\ f[S] = g[S]
      BY <2>2
    <3>2. S # {} => f[S \ {Max(S)}] = g[S \ {Max(S)}]
      BY <2>2
    <3> QED BY <1>0, <3>1, <3>2
  <2> QED BY <2>1, <2>2
<1>2. f = [S \in SUBSET (1 .. n) |-> f[S]]
  OBVIOUS
<1> HIDE DEF f
<1>3. IsIter(f, s, n)
  BY <1>1, <1>2 DEF IsIter
<1> QED BY <1>3

LEMMA IterExists ==
  ASSUME NEW s, NEW n \in Nat
  PROVE  \E f : IsIter(f, s, n)
<1> DEFINE T == {k \in Nat : ~\E f : IsIter(f, s, k)}
<1>1. SUFFICES ASSUME T # {} PROVE FALSE
  OBVIOUS
<1>2. PICK k \in T : \A y \in T : k <= y
  <2>1. T \subseteq Nat
    OBVIOUS
  <2> HIDE DEF T
  <2> QED BY <1>1, <2>1, Least
<1>3. k # 0
  <2> DEFINE f == [S \in SUBSET (1 .. 0) |-> 0]
  <2>1. f = [S \in SUBSET (1 .. 0) |-> IF S = {} THEN 0 ELSE f[S \ {Max(S)}] + s[Max(S)]]
    OBVIOUS
  <2>2. IsIter(f, s, 0)
    BY <2>1 DEF IsIter
  <2> HIDE DEF f
  <2> QED BY <2>2
<1>4. k - 1 \notin T /\ k - 1 \in Nat
  BY <1>2, <1>3
<1>5. PICK g : IsIter(g, s, k - 1)
  BY <1>4
<1> QED BY <1>2, <1>3, <1>5, IterNext

\* What it is on the first positions.
LEMMA IterAt ==
  ASSUME NEW s, NEW n \in Nat, NEW f, IsIter(f, s, n)
  PROVE  /\ f[1 .. 0] = 0
         /\ \A k \in 1 .. n : f[1 .. k] = f[1 .. k - 1] + s[k]
<1>1. \A S \in SUBSET (1 .. n) : f[S] = IF S = {} THEN 0 ELSE f[S \ {Max(S)}] + s[Max(S)]
  BY DEF IsIter
<1>2. f[1 .. 0] = 0
  <2>1. 1 .. 0 = {} /\ {} \in SUBSET (1 .. n)
    OBVIOUS
  <2> QED BY <1>1, <2>1
<1>3. ASSUME NEW k \in 1 .. n PROVE f[1 .. k] = f[1 .. k - 1] + s[k]
  <2>1. k \in 1 .. k /\ 1 .. k \in SUBSET (1 .. n) /\ 1 .. k # {}
    OBVIOUS
  <2>2. Max(1 .. k) = k
    <3> PICK S : S = 1 .. k
      OBVIOUS
    <3>1. k \in S /\ S \subseteq Nat /\ \A x \in S : x <= k
      OBVIOUS
    <3>2. Max(S) = k
      BY <3>1, MaxIs
    <3> QED BY <3>2
  <2>3. (1 .. k) \ {k} = 1 .. k - 1
    OBVIOUS
  <2> QED BY <1>1, <2>1, <2>2, <2>3
<1> QED BY <1>2, <1>3

LEMMA IterSame ==
  ASSUME NEW s, NEW t, NEW n \in Nat, NEW m \in Nat, n <= m, NEW f, IsIter(f, s, n),
         NEW g, IsIter(g, t, m), \A k \in 1 .. n : s[k] = t[k], \A k \in 1 .. n : s[k] \in Int
  PROVE  f[1 .. n] = g[1 .. n] /\ f[1 .. n] \in Int
<1> DEFINE T == {k \in 0 .. n : ~(f[1 .. k] = g[1 .. k] /\ f[1 .. k] \in Int)}
<1>1. SUFFICES ASSUME T # {} PROVE FALSE
  OBVIOUS
<1>2. PICK k \in T : \A y \in T : k <= y
  <2>1. T \subseteq Nat
    OBVIOUS
  <2> HIDE DEF T
  <2> QED BY <1>1, <2>1, Least
<1>3. /\ f[1 .. 0] = 0 /\ g[1 .. 0] = 0
      /\ \A j \in 1 .. n : f[1 .. j] = f[1 .. j - 1] + s[j]
      /\ \A j \in 1 .. m : g[1 .. j] = g[1 .. j - 1] + t[j]
  <2>1. f[1 .. 0] = 0 /\ \A j \in 1 .. n : f[1 .. j] = f[1 .. j - 1] + s[j]
    BY ONLY n \in Nat, IsIter(f, s, n), IterAt
  <2>2. g[1 .. 0] = 0 /\ \A j \in 1 .. m : g[1 .. j] = g[1 .. j - 1] + t[j]
    BY ONLY m \in Nat, IsIter(g, t, m), IterAt
  <2> QED BY ONLY <2>1, <2>2
<1>4. k # 0
  BY <1>2, <1>3
<1>5. k - 1 \notin T /\ k - 1 \in 0 .. n
  BY <1>2, <1>4
<1>6. f[1 .. k - 1] = g[1 .. k - 1] /\ f[1 .. k - 1] \in Int /\ k \in 1 .. n /\ k \in 1 .. m
  BY <1>4, <1>5
<1>7. f[1 .. k] = g[1 .. k] /\ f[1 .. k] \in Int
  <2>1. f[1 .. k] = f[1 .. k - 1] + s[k] /\ g[1 .. k] = g[1 .. k - 1] + t[k]
    BY <1>3, <1>6
  <2>2. s[k] = t[k] /\ s[k] \in Int
    BY <1>6
  <2> QED BY ONLY <1>6, <2>1, <2>2
<1> QED BY <1>2, <1>7

\* Total is the sum.
LEMMA TotalAdds ==
  /\ Total(<<>>) = 0
  /\ \A s \in Seq(Int) : Total(s) \in Int
  /\ \A s \in Seq(Int), x \in Int : Total(Append(s, x)) = Total(s) + x
<1>1. ASSUME NEW s \in Seq(Int)
      PROVE  \E f : IsIter(f, s, Len(s)) /\ Total(s) = f[1 .. Len(s)]
  <2>1. DOMAIN s = 1 .. Len(s) /\ Len(s) \in Nat
    OBVIOUS
  <2>2. \E f : IsIter(f, s, Len(s))
    BY <2>1, IterExists
  <2>3. IsIter(CHOOSE f : IsIter(f, s, Len(s)), s, Len(s))
    BY <2>2
  <2> QED BY <2>1, <2>3, TotalIter
<1>2. Total(<<>>) = 0
  <2>1. PICK f : IsIter(f, <<>>, Len(<<>>)) /\ Total(<<>>) = f[1 .. Len(<<>>)]
    <3>1. <<>> \in Seq(Int)
      OBVIOUS
    <3> QED BY <1>1, <3>1
  <2>2. IsIter(f, <<>>, 0) /\ Total(<<>>) = f[1 .. 0]
    BY <2>1
  <2> QED BY <2>2, IterAt, 0 \in Nat
<1>3. ASSUME NEW s \in Seq(Int) PROVE Total(s) \in Int
  <2>1. PICK f : IsIter(f, s, Len(s)) /\ Total(s) = f[1 .. Len(s)]
    BY <1>1
  <2>2. Len(s) \in Nat /\ Len(s) <= Len(s) /\ \A k \in 1 .. Len(s) : s[k] \in Int /\ s[k] = s[k]
    OBVIOUS
  <2>3. IsIter(f, s, Len(s))
    BY <2>1
  <2>4. f[1 .. Len(s)] \in Int
    BY ONLY <2>2, <2>3, IterSame
  <2> QED BY <2>1, <2>4
<1>4. ASSUME NEW s \in Seq(Int), NEW x \in Int PROVE Total(Append(s, x)) = Total(s) + x
  <2> PICK t : t = Append(s, x)
    OBVIOUS
  <2> PICK n \in Nat : n = Len(s)
    OBVIOUS
  <2> PICK m \in Nat : m = n + 1
    OBVIOUS
  <2>0. /\ t \in Seq(Int) /\ Len(t) = m /\ t[m] = x /\ (\A k \in 1 .. n : s[k] = t[k])
        /\ (\A k \in 1 .. n : s[k] \in Int) /\ n <= m /\ m \in 1 .. m /\ m - 1 = n
        /\ m \in Nat /\ n \in Nat
    OBVIOUS
  <2>1. PICK f : IsIter(f, s, n) /\ Total(s) = f[1 .. n]
    BY <1>1
  <2>2. PICK g : IsIter(g, t, m) /\ Total(t) = g[1 .. m]
    BY <1>1, <2>0
  <2>3. g[1 .. m] = g[1 .. n] + x
    <3>1. \A k \in 1 .. m : g[1 .. k] = g[1 .. k - 1] + t[k]
      <4>1. IsIter(g, t, m) /\ m \in Nat
        BY <2>2
      <4> QED BY ONLY <4>1, IterAt
    <3> QED BY <2>0, <3>1
  <2>4. f[1 .. n] = g[1 .. n]
    BY ONLY <2>0, <2>1, <2>2, IterSame
  <2> QED BY <2>1, <2>2, <2>3, <2>4
<1> QED BY <1>2, <1>3, <1>4

-----------------------------------------------------------------------------
(* What an interval collects, and the signal made of it.                   *)

\* The window w collected the prices ps.
Collects(w, ps) ==
  /\ w \in Window /\ w.size = Interval /\ ~Starts(w, 1) /\ Len(w.bucket.stats) = 2
  /\ w.bucket.stats[1].count = Len(ps)
  /\ w.bucket.stats[1].sum = Total(ps) /\ w.bucket.stats[2].sum = Len(ps) /\ Total(ps) \in Nat
  /\ w.bucket.stats[1].min \in ToSet(ps) /\ \A p \in ToSet(ps) : w.bucket.stats[1].min <= p
  /\ w.bucket.stats[1].max \in ToSet(ps) /\ \A p \in ToSet(ps) : w.bucket.stats[1].max >= p

\* s is the signal of the prices ps.
IsSignalOf(s, ps) ==
  /\ s.min \in ToSet(ps) /\ \A p \in ToSet(ps) : s.min <= p
  /\ s.max \in ToSet(ps) /\ \A p \in ToSet(ps) : s.max >= p
  /\ s.size * s.price = Total(ps)

LEMMA PriceIs ==
  ASSUME NEW p \in Prices
  PROVE  p \in Nat /\ p # 0 /\ p < MaxFloat /\ MaxFloat \in Nat
BY PricesAssumption, BoundsAssumption

LEMMA SumsOfPrices ==
  /\ Total(<<>>) = 0
  /\ \A s \in Seq(Prices) : Total(s) \in Int
  /\ \A s \in Seq(Prices), x \in Prices : Total(Append(s, x)) = Total(s) + x
<1>1. \A x \in Prices : x \in Int
  BY PriceIs
<1>2. \A s \in Seq(Prices) : s \in Seq(Int)
  BY <1>1
<1> QED BY <1>1, <1>2, TotalAdds

LEMMA SetOfAppend ==
  ASSUME NEW S, NEW s \in Seq(S), NEW x \in S
  PROVE  ToSet(Append(s, x)) = ToSet(s) \cup {x}
<1> PICK t : t = Append(s, x)
  OBVIOUS
<1>1. /\ DOMAIN s = 1 .. Len(s) /\ DOMAIN t = 1 .. Len(s) + 1 /\ Len(s) \in Nat
      /\ t[Len(s) + 1] = x /\ \A k \in 1 .. Len(s) : t[k] = s[k]
  OBVIOUS
<1>2. ToSet(t) = ToSet(s) \cup {x}
  BY <1>1 DEF ToSet
<1> QED BY <1>2

\* What a dimension keeps of a value.
LEMMA StatsPushed ==
  ASSUME NEW a \in Stats, NEW v \in Int
  PROVE  StatsPush(a, v) \in Stats
BY DEF Stats, StatsPush

LEMMA NewStatsOK == NewStats \in Stats
BY BoundsAssumption DEF Stats, NewStats

LEMMA PushedInto ==
  ASSUME NEW o, NEW size, NEW before, NEW index, NEW stats, NEW v,
         o = [size |-> size, last |-> before, bucket |-> [index |-> index, stats |-> stats]]
  PROVE  [o EXCEPT !.bucket.stats = CollectorPush(@, v)] =
           [size |-> size, last |-> before,
            bucket |-> [index |-> index, stats |-> CollectorPush(stats, v)]]
<1> PICK x : x = CollectorPush(stats, v)
  OBVIOUS
<1>1. o.bucket.stats = stats
  OBVIOUS
<1>2. [o EXCEPT !.bucket.stats = CollectorPush(@, v)] = [o EXCEPT !.bucket.stats = x]
  BY <1>1
<1> QED BY ONLY <1>2, x = CollectorPush(stats, v),
  o = [size |-> size, last |-> before, bucket |-> [index |-> index, stats |-> stats]]

LEMMA WindowOfTwo ==
  ASSUME NEW size \in Nat, NEW before \in Nat, NEW index \in Nat, NEW a \in Stats, NEW b \in Stats,
         NEW w, w = [size |-> size, last |-> before, bucket |-> [index |-> index, stats |-> <<a, b>>]]
  PROVE  /\ w \in Window /\ w.size = size /\ w.last = before /\ w.bucket.stats = <<a, b>>
         /\ Len(w.bucket.stats) = 2 /\ w.bucket.stats[1] = a /\ w.bucket.stats[2] = b
<1> PICK t : t = <<a, b>>
  OBVIOUS
<1>1. t \in Seq(Stats) /\ Len(t) = 2 /\ t[1] = a /\ t[2] = b
  OBVIOUS
<1>2. [index |-> index, stats |-> t] \in Bucket
  BY <1>1 DEF Bucket
<1>3. w = [size |-> size, last |-> before, bucket |-> [index |-> index, stats |-> t]]
  OBVIOUS
<1>4. w \in Window
  BY <1>2, <1>3 DEF Window
<1> QED BY <1>1, <1>3, <1>4

\* A window of two dimensions.
LEMMA PushedTwo ==
  ASSUME NEW w \in Window, NEW a \in Stats, NEW b \in Stats, NEW p \in Int,
         w.bucket.stats = <<a, b>> \/ (Starts(w, 1) /\ Len(w.bucket.stats) = 2),
         NEW c \in Stats, NEW d \in Stats,
         c = IF Starts(w, 1) THEN NewStats ELSE a, d = IF Starts(w, 1) THEN NewStats ELSE b
  PROVE  WindowPush(w, 1, <<p, 1>>) =
           [size |-> w.size, last |-> IF Starts(w, 1) THEN 1 ELSE w.last,
            bucket |-> [index |-> IF Starts(w, 1) THEN 1 ELSE w.bucket.index,
                        stats |-> <<StatsPush(c, p), StatsPush(d, 1)>>]]
<1>1. /\ w = [size |-> w.size, last |-> w.last, bucket |-> w.bucket]
      /\ w.bucket = [index |-> w.bucket.index, stats |-> w.bucket.stats]
  BY DEF Window, Bucket
<1>2. NewCollector(2) = <<NewStats, NewStats>>
  BY DEF NewCollector
<1>3. CollectorPush(<<c, d>>, <<p, 1>>) = <<StatsPush(c, p), StatsPush(d, 1)>>
  BY DEF CollectorPush
<1>4. CASE Starts(w, 1)
  <2>1. Len(w.bucket.stats) = 2
    BY <1>4
  <2> PICK open : open = [w EXCEPT !.last = 1, !.bucket = NewBucket(1, 2)]
    OBVIOUS
  <2>3. open = [size |-> w.size, last |-> 1, bucket |-> [index |-> 1, stats |-> NewCollector(2)]]
    BY <1>1 DEF NewBucket
  <2>4. WindowPush(w, 1, <<p, 1>>) = [open EXCEPT !.bucket.stats = CollectorPush(@, <<p, 1>>)]
    BY <1>4, <2>1 DEF WindowPush
  <2>2. WindowPush(w, 1, <<p, 1>>) =
          [size |-> w.size, last |-> 1,
           bucket |-> [index |-> 1, stats |-> CollectorPush(NewCollector(2), <<p, 1>>)]]
    BY ONLY <2>3, <2>4, PushedInto
  <2> QED BY <1>2, <1>3, <1>4, <2>2
<1>5. CASE ~Starts(w, 1)
  <2>1. WindowPush(w, 1, <<p, 1>>) =
          [size |-> w.size, last |-> w.last,
           bucket |-> [index |-> w.bucket.index, stats |-> CollectorPush(<<a, b>>, <<p, 1>>)]]
    BY <1>1, <1>5 DEF WindowPush
  <2> QED BY <1>3, <1>5, <2>1
<1> QED BY <1>4, <1>5

\* The first price of a window.
LEMMA CollectsFirst ==
  ASSUME NEW p \in Prices
  PROVE  Collects(WindowPush(NewWindow(Interval, 2), 1, <<p, 1>>), <<p>>)
<1> PICK w : w = NewWindow(Interval, 2)
  OBVIOUS
<1>1. w = [size |-> Interval, last |-> 0, bucket |-> [index |-> 0, stats |-> <<NewStats, NewStats>>]]
  <2>1. NewCollector(2) = <<NewStats, NewStats>>
    BY DEF NewCollector
  <2> QED BY <2>1 DEF NewWindow, NewBucket
<1>2. w.bucket.stats = <<NewStats, NewStats>> /\ w.size = Interval /\ w.last = 0 /\ w.bucket.index = 0
  BY <1>1
<1>3. w \in Window
  BY <1>1, NewStatsOK, WindowOfTwo, BoundsAssumption
<1> PICK v : v = WindowPush(w, 1, <<p, 1>>)
  OBVIOUS
<1> PICK c, d : c = StatsPush(NewStats, p) /\ d = StatsPush(NewStats, 1)
  OBVIOUS
<1>4. p \in Int
  BY PriceIs
<1>5. v = [size |-> Interval, last |-> IF Starts(w, 1) THEN 1 ELSE 0,
           bucket |-> [index |-> IF Starts(w, 1) THEN 1 ELSE 0, stats |-> <<c, d>>]]
  BY <1>2, <1>3, <1>4, NewStatsOK, PushedTwo
<1>6. c \in Stats /\ d \in Stats
  BY <1>4, NewStatsOK, StatsPushed
<1>7. c.count = 1 /\ c.sum = p /\ d.sum = 1 /\ c.min = p /\ c.max = p
  BY PriceIs DEF StatsPush, NewStats
<1>8. /\ v \in Window /\ v.size = Interval /\ Len(v.bucket.stats) = 2
      /\ v.last = (IF Starts(w, 1) THEN 1 ELSE 0)
      /\ v.bucket.stats[1] = c /\ v.bucket.stats[2] = d
  <2>1. (IF Starts(w, 1) THEN 1 ELSE 0) \in Nat /\ Interval \in Nat
    BY BoundsAssumption
  <2> QED BY <1>5, <1>6, <2>1, WindowOfTwo
<1>9. ~Starts(v, 1)
  BY <1>2, <1>8, BoundsAssumption DEF Starts
<1>10. ToSet(<<p>>) = {p} /\ Len(<<p>>) = 1
  BY DEF ToSet
<1>11. Total(<<p>>) = p
  <2>1. <<p>> = Append(<<>>, p) /\ <<>> \in Seq(Prices)
    OBVIOUS
  <2>2. Total(Append(<<>>, p)) = Total(<<>>) + p
    BY ONLY <2>1, SumsOfPrices, p \in Prices
  <2> QED BY <1>4, <2>1, <2>2, SumsOfPrices
<1> QED BY <1>4, <1>7, <1>8, <1>9, <1>10, <1>11, PriceIs DEF Collects

\* Every other price of a window.
LEMMA CollectsNext ==
  ASSUME NEW w, NEW ps \in Seq(Prices), Collects(w, ps), NEW p \in Prices
  PROVE  Collects(WindowPush(w, 1, <<p, 1>>), Append(ps, p))
<1> PICK a, b : a = w.bucket.stats[1] /\ b = w.bucket.stats[2]
  OBVIOUS
<1>1. w \in Window /\ ~Starts(w, 1) /\ w.size = Interval
  BY DEF Collects
<1>2. a \in Stats /\ b \in Stats /\ w.bucket.stats = <<a, b>>
  <2> PICK t : t = w.bucket.stats
    OBVIOUS
  <2>1. t \in Seq(Stats) /\ Len(t) = 2 /\ a = t[1] /\ b = t[2]
    BY DEF Collects, Window, Bucket
  <2>2. t = <<a, b>> /\ a \in Stats /\ b \in Stats
    BY <2>1
  <2> QED BY <2>2
<1>3. /\ a.count = Len(ps) /\ a.sum = Total(ps) /\ b.sum = Len(ps)
      /\ a.min \in ToSet(ps) /\ \A x \in ToSet(ps) : a.min <= x
      /\ a.max \in ToSet(ps) /\ \A x \in ToSet(ps) : a.max >= x
  BY DEF Collects
<1>4. \A x \in ToSet(ps) : x \in Prices
  BY DEF ToSet
<1> PICK v : v = WindowPush(w, 1, <<p, 1>>)
  OBVIOUS
<1> PICK c, d : c = StatsPush(a, p) /\ d = StatsPush(b, 1)
  OBVIOUS
<1>5. p \in Int
  BY PriceIs
<1>6. v = [size |-> Interval, last |-> w.last,
           bucket |-> [index |-> w.bucket.index, stats |-> <<c, d>>]]
  <2>1. a = (IF Starts(w, 1) THEN NewStats ELSE a) /\ b = (IF Starts(w, 1) THEN NewStats ELSE b)
    BY <1>1
  <2>2. v = [size |-> w.size, last |-> IF Starts(w, 1) THEN 1 ELSE w.last,
             bucket |-> [index |-> IF Starts(w, 1) THEN 1 ELSE w.bucket.index,
                         stats |-> <<StatsPush(a, p), StatsPush(b, 1)>>]]
    BY ONLY <1>1, <1>2, <1>5, <2>1, PushedTwo, v = WindowPush(w, 1, <<p, 1>>)
  <2> QED BY <1>1, <2>2
<1>7. c \in Stats /\ d \in Stats
  BY <1>2, <1>5, StatsPushed
<1>8. /\ c.count = a.count + 1 /\ c.sum = a.sum + p /\ d.sum = b.sum + 1
      /\ c.min = (IF a.min = 0 \/ a.min > p THEN p ELSE a.min)
      /\ c.max = (IF a.max = 0 \/ a.max < p THEN p ELSE a.max)
  BY DEF StatsPush
<1>9. /\ v \in Window /\ v.size = Interval /\ Len(v.bucket.stats) = 2 /\ v.last = w.last
      /\ v.bucket.stats[1] = c /\ v.bucket.stats[2] = d
  <2>1. w.bucket.index \in Nat /\ w.last \in Nat /\ Interval \in Nat
    BY <1>1, BoundsAssumption DEF Window, Bucket
  <2> QED BY <1>6, <1>7, <2>1, WindowOfTwo
<1>10. ~Starts(v, 1)
  BY <1>1, <1>9 DEF Starts
<1> PICK qs : qs = Append(ps, p)
  OBVIOUS
<1>11. ToSet(qs) = ToSet(ps) \cup {p} /\ Len(qs) = Len(ps) + 1 /\ Total(qs) = Total(ps) + p /\ Total(qs) \in Nat
  <2>1. ToSet(qs) = ToSet(ps) \cup {p}
    BY SetOfAppend
  <2>2. Total(Append(ps, p)) = Total(ps) + p
    BY ONLY SumsOfPrices, p \in Prices, ps \in Seq(Prices)
  <2>3. Total(ps) \in Nat /\ p \in Nat
    BY PriceIs DEF Collects
  <2> QED BY <2>1, <2>2, <2>3
<1>12. /\ c.min \in ToSet(qs) /\ \A x \in ToSet(qs) : c.min <= x
       /\ c.max \in ToSet(qs) /\ \A x \in ToSet(qs) : c.max >= x
  <2>1. \A x \in ToSet(qs) : x \in Nat /\ x # 0
    BY <1>4, <1>11, PriceIs
  <2>2. p \in Nat /\ a.min \in Nat /\ a.max \in Nat /\ a.min # 0 /\ a.max # 0
    BY <1>3, <1>11, <2>1
  <2>3. c.min = (IF a.min > p THEN p ELSE a.min) /\ c.max = (IF a.max < p THEN p ELSE a.max)
    BY <1>8, <2>2
  <2> PICK m, n : m = a.min /\ n = a.max
    OBVIOUS
  <2>4. \A x \in ToSet(qs) : x = p \/ (x \in Nat /\ m <= x /\ n >= x)
    BY ONLY <1>3, <1>11, <2>1, m = a.min /\ n = a.max
  <2>5. (c.min = p \/ c.min \in ToSet(ps)) /\ (c.max = p \/ c.max \in ToSet(ps))
    BY ONLY <1>3, <2>3
  <2>6. /\ c.min \in Nat /\ c.min <= p /\ c.min <= m
        /\ c.max \in Nat /\ c.max >= p /\ c.max >= n /\ m \in Nat /\ n \in Nat
    BY ONLY <2>2, <2>3, m = a.min /\ n = a.max
  <2>7. c.min \in ToSet(qs) /\ c.max \in ToSet(qs)
    BY ONLY <1>11, <2>5
  <2>8. ASSUME NEW x \in ToSet(qs) PROVE c.min <= x /\ c.max >= x
    <3>1. x = p \/ (x \in Nat /\ m <= x /\ n >= x)
      BY <2>4
    <3> QED BY ONLY <3>1, <2>2, <2>6
  <2> QED BY ONLY <2>7, <2>8
<1>13. Collects(v, qs)
  BY ONLY <1>3, <1>7, <1>8, <1>9, <1>10, <1>11, <1>12 DEF Collects
<1> QED BY <1>13

\* A sum of prices is a multiple of every number of trades there may be.
Divides(n, x) == \E q \in Int : x = q * n
EvenlySplit(x) == \A n \in 1 .. MaxTrades : Divides(n, x)

LEMMA PriceSplits ==
  ASSUME NEW p \in Prices
  PROVE  EvenlySplit(p)
<1> SUFFICES ASSUME NEW n \in 1 .. MaxTrades PROVE Divides(n, p)
  BY DEF EvenlySplit
<1>1. p \in Nat /\ p % n = 0 /\ n \in Nat \ {0}
  BY PricesAssumption, BoundsAssumption
<1>2. p = (p \div n) * n /\ p \div n \in Int
  BY <1>1
<1> QED BY <1>2 DEF Divides

LEMMA SumSplits ==
  ASSUME NEW x \in Int, NEW y \in Int, EvenlySplit(x), EvenlySplit(y)
  PROVE  EvenlySplit(x + y)
<1> SUFFICES ASSUME NEW n \in 1 .. MaxTrades PROVE Divides(n, x + y)
  BY DEF EvenlySplit
<1>1. PICK q \in Int : x = q * n
  BY DEF EvenlySplit, Divides
<1>2. PICK r \in Int : y = r * n
  BY DEF EvenlySplit, Divides
<1>3. x + y = (q + r) * n /\ q + r \in Int
  BY <1>1, <1>2, BoundsAssumption
<1> QED BY <1>3 DEF Divides

LEMMA SplitBack ==
  ASSUME NEW n \in Nat \ {0}, NEW q \in Int, NEW x \in Int, x = q * n
  PROVE  x \div n = q
OBVIOUS

\* The interval i collected the prices ps.
Opened(i, ps, c) ==
  /\ i = [first |-> i.first, window |-> i.window] /\ i.first \in Nat
  /\ Interval + Duration <= i.first /\ i.first <= c
  /\ ps # <<>> /\ Collects(i.window, ps) /\ EvenlySplit(Total(ps))

LEMMA SignalRight ==
  ASSUME NEW i, NEW ps \in Seq(Prices), NEW c, Opened(i, ps, c), Len(ps) <= MaxTrades,
         NEW s, s = SignalOf(i)
  PROVE  s \in Signal /\ s.time = i.first + Interval /\ IsSignalOf(s, ps)
<1> PICK a, b : a = i.window.bucket.stats[1] /\ b = i.window.bucket.stats[2]
  OBVIOUS
<1>1. /\ a.count = Len(ps) /\ a.sum = Total(ps) /\ b.sum = Len(ps)
      /\ a.min \in ToSet(ps) /\ \A p \in ToSet(ps) : a.min <= p
      /\ a.max \in ToSet(ps) /\ \A p \in ToSet(ps) : a.max >= p
  BY DEF Opened, Collects
<1>2. s = [time |-> i.first + Interval, min |-> a.min, max |-> a.max,
           price |-> a.sum \div a.count, size |-> b.sum]
  BY DEF SignalOf
<1> PICK n, x : n = Len(ps) /\ x = Total(ps)
  OBVIOUS
<1>3. n \in Nat \ {0} /\ n \in 1 .. MaxTrades
  <2>1. ps # <<>>
    BY DEF Opened
  <2> QED BY <2>1, BoundsAssumption
<1>4. PICK q \in Int : x = q * n
  BY <1>3 DEF Opened, EvenlySplit, Divides
<1>5. s.price = q /\ s.size = n /\ s.min = a.min /\ s.max = a.max /\ s.time = i.first + Interval
  <2>1. x \div n = q
    BY <1>3, <1>4, SplitBack
  <2>2. a.sum \div a.count = x \div n
    BY <1>1
  <2> QED BY <1>1, <1>2, <2>1, <2>2
<1>6. \A p \in ToSet(ps) : p \in Nat /\ p # 0
  BY PriceIs DEF ToSet
<1>7. s.size * s.price = Total(ps)
  <2>1. n * q = q * n
    BY <1>3
  <2> QED BY <1>4, <1>5, <2>1
<1>8. q \in Nat
  <2>1. a.sum \in Nat
    BY <1>1 DEF Opened, Collects
  <2>2. q * n >= 0
    BY <1>1, <1>4, <2>1
  <2>3. q < 0 => q * n < 0
    BY <1>3
  <2> QED BY <1>3, <2>2, <2>3
<1>9. s \in Signal
  <2>1. i.first + Interval \in Nat
    <3>1. i.first \in Nat
      BY DEF Opened
    <3>2. Interval \in Nat
      BY BoundsAssumption
    <3> QED BY ONLY <3>1, <3>2
  <2>2. a.min \in Nat /\ a.max \in Nat
    BY <1>1, <1>6
  <2>3. s = [time |-> i.first + Interval, min |-> a.min, max |-> a.max, price |-> q, size |-> n]
    BY <1>2, <1>5
  <2> QED BY <1>3, <1>8, <2>1, <2>2, <2>3 DEF Signal
<1> QED BY <1>1, <1>5, <1>7, <1>9 DEF IsSignalOf

LEMMA FlattenedOK ==
  ASSUME NEW s \in Signal
  PROVE  Flattened(s) \in Signal /\ Flattened(s).time = s.time
BY DEF Signal, Flattened

-----------------------------------------------------------------------------
(* The feed: what a flush gives the processor.                             *)

FeedInv ==
  /\ clock \in Nat /\ Interval + Duration <= clock
  /\ trades \in 0 .. MaxTrades /\ flushes \in 0 .. MaxFlushes
  /\ live \in BOOLEAN /\ timer \in BOOLEAN
  /\ prices = [now |-> prices.now, before |-> prices.before]
  /\ prices.now \in Seq(Prices) /\ prices.before \in Seq(Prices) /\ Len(prices.now) <= trades
  /\ IF interval = None THEN prices.now = <<>> ELSE Opened(interval, prices.now, clock)

SignalsInv ==
  /\ signal \in Signal \cup {None} /\ last \in Signal \cup {None}
  /\ last # None => Duration <= last.time /\ last.time <= clock + Interval
  /\ interval # None /\ last # None => last.time <= interval.first + Interval
  /\ prices.before # <<>> => IsSignalOf(signal, prices.before)

\* A signal the processor may get now.
Timely(s) == s \in Signal /\ Duration <= s.time /\ (last # None => last.time <= s.time)

\* The price a trade has.
LEMMA HeardPrices == Heard \subseteq Prices
BY DEF Heard, TradeToTick, Last

LEMMA NoneIsNone ==
  /\ \A s \in Signal : s # None
  /\ \A i, ps, c : Opened(i, ps, c) => i # None
<1>1. \A s \in Signal : s # None
  BY NoneAssumption
<1>2. ASSUME NEW i, NEW ps, NEW c, Opened(i, ps, c) PROVE i # None
  <2>1. i \in Collecting
    BY <1>2 DEF Opened, Collects, Collecting
  <2> QED BY <2>1, NoneAssumption
<1> QED BY <1>1, <1>2

\* A flush that gives the processor the signal s, and one with nothing to give.
Gives(s, fit) ==
  /\ Timely(s) /\ Deliver(s, fit) /\ s.time <= clock + Interval
  /\ last' \in Signal /\ last'.time = s.time
  /\ interval # None => IsSignalOf(s, prices.now) /\ s.time = interval.first + Interval

Idles == UNCHANGED <<signal, last, position, exchange, ticks, fits, realised>> /\ interval = None

LEMMA FlushGives ==
  ASSUME FeedInv, SignalsInv, NEW fit, Flushed(fit)
  PROVE  Idles \/ \E s : Gives(s, fit)
<1>1. CASE interval # None
  <2>1. Opened(interval, prices.now, clock) /\ prices.now \in Seq(Prices) /\ Len(prices.now) <= MaxTrades
    BY <1>1, BoundsAssumption DEF FeedInv
  <2> PICK s : s = SignalOf(interval)
    OBVIOUS
  <2>2. s \in Signal /\ s.time = interval.first + Interval /\ IsSignalOf(s, prices.now)
    BY <2>1, SignalRight
  <2>3. Timely(s)
    BY <1>1, <2>1, <2>2, BoundsAssumption DEF Timely, SignalsInv, Opened
  <2>5. s.time <= clock + Interval
    <3>1. interval.first \in Nat /\ interval.first <= clock
      BY ONLY <2>1 DEF Opened
    <3>2. clock \in Nat /\ Interval \in Nat
      BY BoundsAssumption DEF FeedInv
    <3>3. s.time = interval.first + Interval
      BY <2>2
    <3> QED BY ONLY <3>1, <3>2, <3>3
  <2>4. Deliver(s, fit) /\ last' = Flattened(s)
    BY <1>1 DEF Flushed
  <2>6. Gives(s, fit)
    BY <2>2, <2>3, <2>4, <2>5, FlattenedOK DEF Gives
  <2> QED BY <2>6
<1>2. CASE interval = None /\ last # None
  <2>1. Deliver(last, fit) /\ last' = last /\ last \in Signal
    BY <1>2 DEF Flushed, SignalsInv
  <2>2. Timely(last)
    BY <1>2, <2>1 DEF Timely, SignalsInv, Signal
  <2>3. last.time <= clock + Interval
    BY <1>2 DEF SignalsInv
  <2>4. Gives(last, fit)
    BY <1>2, <2>1, <2>2, <2>3 DEF Gives
  <2> QED BY <2>4
<1>3. CASE interval = None /\ last = None
  BY <1>3 DEF Flushed, Idles
<1> QED BY <1>1, <1>2, <1>3

\* A trade opens an interval, or adds to it.
LEMMA OpensInterval ==
  ASSUME NEW p \in Prices, NEW t \in Nat, Interval + Duration <= t
  PROVE  Opened(Collected(None, p, t), <<p>>, t)
<1> PICK w : w = WindowPush(NewWindow(Interval, 2), 1, <<p, 1>>)
  OBVIOUS
<1> PICK i : i = Collected(None, p, t)
  OBVIOUS
<1>1. i = [first |-> t, window |-> w]
  BY DEF Collected
<1>2. Collects(w, <<p>>)
  BY CollectsFirst
<1>3. EvenlySplit(Total(<<p>>))
  <2>1. <<p>> = Append(<<>>, p) /\ <<>> \in Seq(Prices)
    OBVIOUS
  <2>2. Total(Append(<<>>, p)) = Total(<<>>) + p
    BY ONLY <2>1, SumsOfPrices, p \in Prices
  <2>3. Total(<<p>>) = p
    BY <2>1, <2>2, SumsOfPrices, PriceIs
  <2> QED BY <2>3, PriceSplits
<1>4. i = [first |-> i.first, window |-> i.window] /\ i.first = t /\ i.window = w /\ <<p>> # <<>>
  BY <1>1
<1>5. Opened(i, <<p>>, t)
  BY <1>2, <1>3, <1>4 DEF Opened
<1> QED BY <1>5

LEMMA AddsToInterval ==
  ASSUME NEW i, NEW ps \in Seq(Prices), NEW c \in Nat, Opened(i, ps, c), NEW p \in Prices,
         NEW t \in Nat, c <= t
  PROVE  Opened(Collected(i, p, t), Append(ps, p), t)
<1> PICK w : w = WindowPush(i.window, 1, <<p, 1>>)
  OBVIOUS
<1> PICK j : j = Collected(i, p, t)
  OBVIOUS
<1>1. i = [first |-> i.first, window |-> i.window] /\ i.first \in Nat /\ i # None
  BY NoneIsNone DEF Opened
<1>2. j = [first |-> i.first, window |-> w]
  BY <1>1 DEF Collected
<1>3. Collects(w, Append(ps, p))
  BY CollectsNext DEF Opened
<1>4. EvenlySplit(Total(Append(ps, p)))
  <2>1. Total(ps) \in Int /\ p \in Int /\ Total(Append(ps, p)) = Total(ps) + p
    BY ONLY SumsOfPrices, PriceIs, p \in Prices, ps \in Seq(Prices)
  <2>2. EvenlySplit(Total(ps)) /\ EvenlySplit(p)
    BY PriceSplits DEF Opened
  <2> QED BY <2>1, <2>2, SumSplits
<1>5. /\ j = [first |-> j.first, window |-> j.window] /\ j.first = i.first /\ j.window = w
      /\ Append(ps, p) # <<>> /\ Interval + Duration <= j.first /\ j.first <= t
  <2>1. Interval + Duration <= i.first /\ i.first <= c
    BY DEF Opened
  <2> QED BY <1>1, <1>2, <2>1
<1>6. Opened(j, Append(ps, p), t)
  BY <1>1, <1>3, <1>4, <1>5 DEF Opened
<1> QED BY <1>6

LEMMA FeedNumbers ==
  ASSUME FeedInv
  PROVE  /\ clock \in Nat /\ Interval \in Nat /\ Duration \in Nat \ {0} /\ Interval + Duration <= clock
         /\ trades \in 0 .. MaxTrades /\ MaxTrades \in Nat /\ Len(prices.now) <= trades
         /\ Steps \subseteq Nat
BY BoundsAssumption DEF FeedInv

LEMMA TradeFeeds ==
  ASSUME FeedInv, SignalsInv, NEW p \in Prices, NEW dt \in Steps, Trade(p, dt)
  PROVE  FeedInv' /\ SignalsInv'
<1>1. clock' = clock + dt /\ dt \in Nat /\ clock' \in Nat /\ clock <= clock' /\ clock \in Nat
  BY FeedNumbers DEF Trade
<1>2. /\ prices' = [now |-> Append(prices.now, p), before |-> prices.before]
      /\ prices.now \in Seq(Prices) /\ prices.before \in Seq(Prices)
  <2>1. /\ prices = [now |-> prices.now, before |-> prices.before]
        /\ prices.now \in Seq(Prices) /\ prices.before \in Seq(Prices)
    BY DEF FeedInv
  <2>2. prices' = [prices EXCEPT !.now = Append(@, p)]
    BY DEF Trade
  <2> QED BY ONLY <2>1, <2>2
<1>3. Opened(interval', prices'.now, clock')
  <2>1. CASE interval = None
    <3>1. prices'.now = <<p>>
      <4>1. prices.now = <<>>
        BY <2>1 DEF FeedInv
      <4> QED BY ONLY <1>2, <4>1
    <3>3. interval' = Collected(None, p, clock')
      BY <2>1 DEF Trade
    <3>2. Interval + Duration <= clock'
      BY <1>1, FeedNumbers
    <3> QED BY <1>1, <3>1, <3>2, <3>3, OpensInterval
  <2>2. CASE interval # None
    <3>1. Opened(interval, prices.now, clock) /\ prices'.now = Append(prices.now, p)
      BY <1>2, <2>2 DEF FeedInv
    <3>2. interval' = Collected(interval, p, clock')
      BY DEF Trade
    <3> QED BY <1>1, <1>2, <3>1, <3>2, AddsToInterval
  <2> QED BY <2>1, <2>2
<1>4. FeedInv'
  <2>1. interval' # None
    BY <1>3, NoneIsNone
  <2>2. /\ prices' = [now |-> prices'.now, before |-> prices'.before]
        /\ prices'.now \in Seq(Prices) /\ prices'.before \in Seq(Prices)
        /\ Len(prices'.now) = Len(prices.now) + 1
    BY <1>2
  <2>3. trades' = trades + 1 /\ trades < MaxTrades /\ UNCHANGED <<live, timer, flushes>>
    BY DEF Trade
  <2>4. Len(prices.now) \in Nat
    BY <1>2
  <2>5. Interval + Duration <= clock'
    BY <1>1, FeedNumbers
  <2>6. trades' \in 0 .. MaxTrades /\ Len(prices'.now) <= trades'
    <3>1. trades \in 0 .. MaxTrades /\ MaxTrades \in Nat /\ Len(prices.now) <= trades
      BY FeedNumbers
    <3> QED BY ONLY <2>2, <2>3, <2>4, <3>1
  <2> QED BY <1>1, <1>3, <2>1, <2>2, <2>3, <2>5, <2>6 DEF FeedInv
<1>5. SignalsInv'
  <2>1. UNCHANGED <<signal, last>> /\ prices'.before = prices.before
    BY <1>2 DEF Trade
  <2>2. ASSUME last # None PROVE last.time \in Nat
    BY <2>2 DEF SignalsInv, Signal
  <2>3. ASSUME last # None PROVE last.time <= clock' + Interval
    BY <1>1, <2>2, <2>3, BoundsAssumption DEF SignalsInv
  <2>4. ASSUME interval' # None, last # None PROVE last.time <= interval'.first + Interval
    <3>1. CASE interval = None
      <4>1. interval' = Collected(None, p, clock')
        BY <3>1 DEF Trade
      <4>2. interval'.first = clock'
        BY <4>1 DEF Collected
      <4> QED BY <2>3, <2>4, <4>2
    <3>2. CASE interval # None
      <4>1. interval' = Collected(interval, p, clock')
        BY DEF Trade
      <4>2. interval = [first |-> interval.first, window |-> interval.window]
        BY <3>2 DEF FeedInv, Opened
      <4>3. interval'.first = interval.first
        BY <3>2, <4>1, <4>2 DEF Collected
      <4> QED BY <2>4, <3>2, <4>3 DEF SignalsInv
    <3> QED BY <3>1, <3>2
  <2> QED BY <2>1, <2>3, <2>4 DEF SignalsInv
<1> QED BY <1>4, <1>5

\* A flush, and what the trade that caused it leaves.
FlushFeed(fit) ==
  /\ Flushed(fit) /\ prices'.before = prices.now
  /\ clock' \in Nat /\ clock <= clock'
  /\ interval' # None => interval'.first = clock'

LEMMA FlushSignals ==
  ASSUME FeedInv, SignalsInv, NEW fit, FlushFeed(fit)
  PROVE  SignalsInv'
<1>1. /\ prices'.before = prices.now /\ clock' \in Nat /\ clock \in Nat /\ clock <= clock'
      /\ interval' # None => interval'.first = clock'
  BY DEF FlushFeed, FeedInv
<1>2. interval = None => prices.now = <<>>
  BY DEF FeedInv
<1>3. Idles \/ \E s : Gives(s, fit)
  BY FlushGives DEF FlushFeed
<1>4. CASE Idles
  <2>1. last # None => last.time \in Nat /\ Duration <= last.time /\ last.time <= clock + Interval
    BY DEF SignalsInv, Signal
  <2>2. last # None => last.time <= clock' + Interval
    BY <1>1, <2>1, BoundsAssumption
  <2> QED BY <1>1, <1>2, <1>4, <2>1, <2>2 DEF SignalsInv, Idles
<1>5. ASSUME NEW s, Gives(s, fit) PROVE SignalsInv'
  <2>1. signal' = s /\ s \in Signal /\ s.time \in Nat /\ Duration <= s.time
    BY <1>5 DEF Deliver, Timely, Signal, Gives
  <2>3. s.time <= clock + Interval /\ last' \in Signal /\ last'.time = s.time
    BY <1>5 DEF Gives
  <2>4. prices'.before # <<>> => IsSignalOf(s, prices'.before)
    BY <1>1, <1>2, <1>5 DEF Gives
  <2>2. s.time <= clock' + Interval
    BY <1>1, <2>1, <2>3, BoundsAssumption
  <2> QED BY <1>1, <2>1, <2>2, <2>3, <2>4 DEF SignalsInv
<1> QED BY <1>3, <1>4, <1>5

LEMMA FlushesCount ==
  ASSUME FeedInv, NEW fit, Flushed(fit)
  PROVE  flushes' \in 0 .. MaxFlushes
<1>1. flushes \in 0 .. MaxFlushes /\ MaxFlushes \in Nat
  BY BoundsAssumption DEF FeedInv
<1>2. flushes < MaxFlushes /\ flushes' = flushes + 1
  BY DEF Flushed
<1> QED BY ONLY <1>1, <1>2

LEMMA FeedStep ==
  ASSUME FeedInv, SignalsInv, [Next]_vars
  PROVE  FeedInv' /\ SignalsInv'
<1>1. ASSUME NEW p \in Heard, NEW dt \in Steps, Trade(p, dt) PROVE FeedInv' /\ SignalsInv'
  BY <1>1, HeardPrices, TradeFeeds
<1>2. ASSUME NEW fit, Flush(fit) PROVE FeedInv' /\ SignalsInv'
  <2>1. /\ Flushed(fit) /\ interval' = None /\ UNCHANGED <<clock, trades, live>> /\ timer' = live
        /\ prices' = [now |-> <<>>, before |-> prices.now]
    BY <1>2 DEF Flush
  <2>2. FlushFeed(fit)
    BY <2>1 DEF FlushFeed, FeedInv
  <2>3. /\ prices' = [now |-> prices'.now, before |-> prices'.before] /\ prices'.now = <<>>
        /\ prices'.now \in Seq(Prices) /\ prices'.before = prices.now /\ Len(prices'.now) = 0
    BY <2>1
  <2>4. FeedInv'
    BY <2>1, <2>3, FlushesCount DEF FeedInv
  <2> QED BY <2>2, <2>4, FlushSignals
<1>3. ASSUME NEW p \in Prices, NEW dt \in Steps, NEW fit, LateTrade(p, dt, fit)
      PROVE  FeedInv' /\ SignalsInv'
  <2>1. /\ Flushed(fit) /\ interval' = Collected(None, p, clock') /\ UNCHANGED <<live, timer>>
        /\ trades < MaxTrades /\ trades' = trades + 1 /\ clock' = clock + dt
        /\ prices' = [now |-> <<p>>, before |-> prices.now]
    BY <1>3 DEF LateTrade
  <2>2. clock \in Nat /\ clock' \in Nat /\ clock <= clock' /\ Interval + Duration <= clock'
    BY <2>1, FeedNumbers
  <2>3. interval'.first = clock'
    BY <2>1 DEF Collected
  <2>4. FlushFeed(fit)
    BY <2>1, <2>2, <2>3 DEF FlushFeed
  <2>5. /\ prices' = [now |-> prices'.now, before |-> prices'.before] /\ prices'.now = <<p>>
        /\ prices'.now \in Seq(Prices) /\ prices'.before = prices.now /\ Len(prices'.now) = 1
    BY <2>1
  <2>6. Opened(interval', prices'.now, clock')
    BY <2>1, <2>2, <2>5, OpensInterval
  <2>7. interval' # None
    BY <2>6, NoneIsNone
  <2>8. trades' \in 0 .. MaxTrades /\ Len(prices'.now) <= trades'
    BY <2>1, <2>5, FeedNumbers
  <2>9. FeedInv'
    BY <2>1, <2>2, <2>5, <2>6, <2>7, <2>8, FlushesCount DEF FeedInv
  <2> QED BY <2>4, <2>9, FlushSignals
<1>4. CASE UNCHANGED <<feed, signal, last, flushes>>
  BY <1>4 DEF feed, FeedInv, SignalsInv
<1>5. ASSUME NEW t, Strategy(t) PROVE UNCHANGED <<feed, signal, last, flushes>>
  BY <1>5 DEF Strategy
<1> QED BY <1>1, <1>2, <1>3, <1>4, <1>5 DEF Next, vars

LEMMA FeedStart == Init => FeedInv /\ SignalsInv
<1> SUFFICES ASSUME Init PROVE FeedInv /\ SignalsInv
  OBVIOUS
<1>1. /\ clock = Interval + Duration /\ trades = 0 /\ flushes = 0 /\ interval = None
      /\ prices = [now |-> <<>>, before |-> <<>>] /\ live \in BOOLEAN /\ timer \in BOOLEAN
  BY DEF Init, Timers
<1>2. /\ prices = [now |-> prices.now, before |-> prices.before] /\ prices.now = <<>>
      /\ prices.before = <<>> /\ Len(prices.now) = 0 /\ <<>> \in Seq(Prices)
  BY <1>1
<1>3. FeedInv
  BY <1>1, <1>2, BoundsAssumption DEF FeedInv
<1>4. SignalsInv
  BY <1>1, <1>2 DEF SignalsInv, Init
<1> QED BY <1>3, <1>4

\* What the processor sees of an interval is what its trades were: the lowest
\* and highest price and the average, although the window is built from a
\* StatsCollector that takes a minimum of zero for none, may start its bucket
\* anew at the first trade, and although bufferedProcessor computes the
\* average after the interval was closed (SignalExact).
THEOREM SignalsAreExact == Spec => []SignalExact
<1>1. FeedInv /\ SignalsInv => SignalExact
  BY DEF SignalsInv, SignalExact, IsSignalOf
<1> QED BY <1>1, FeedStart, FeedStep, PTL DEF Spec

-----------------------------------------------------------------------------
(* The points of a history and the results a position saw.                 *)

Tick == [time : Nat, pnl : Int]

IndexOf(x) == x.time \div Duration
SeenAt(t, i) == {k \in DOMAIN t : IndexOf(t[k]) = i}
Amounts(t, i) == [k \in DOMAIN t |-> IF k \in SeenAt(t, i) THEN t[k].pnl ELSE 0]
PointIn(t, i) == [index |-> i, count |-> Cardinality(SeenAt(t, i)), sum |-> Total(Amounts(t, i))]

\* The results of an index, and what another result adds.
LEMMA PointStarts ==
  ASSUME NEW i
  PROVE  Cardinality(SeenAt(<<>>, i)) = 0 /\ Total(Amounts(<<>>, i)) = 0
<1>1. SeenAt(<<>>, i) = {} /\ Amounts(<<>>, i) = <<>>
  BY DEF SeenAt, Amounts
<1> QED BY <1>1, TotalAdds, FS_EmptySet

LEMMA PointTyped ==
  ASSUME NEW t \in Seq(Tick), NEW i
  PROVE  /\ IsFiniteSet(SeenAt(t, i)) /\ Cardinality(SeenAt(t, i)) \in Nat
         /\ Amounts(t, i) \in Seq(Int) /\ Total(Amounts(t, i)) \in Int
<1>1. IsFiniteSet(1 .. Len(t)) /\ SeenAt(t, i) \subseteq 1 .. Len(t)
  BY FS_Interval DEF SeenAt
<1>2. IsFiniteSet(SeenAt(t, i)) /\ Cardinality(SeenAt(t, i)) \in Nat
  BY <1>1, FS_Subset, FS_CardinalityType
<1>3. \A k \in 1 .. Len(t) : t[k].pnl \in Int
  <2>1. \A k \in 1 .. Len(t) : t[k] \in Tick
    OBVIOUS
  <2> QED BY <2>1 DEF Tick
<1>4. Amounts(t, i) \in Seq(Int)
  BY <1>3 DEF Amounts
<1> QED BY <1>2, <1>4, TotalAdds

LEMMA PointAppends ==
  ASSUME NEW t \in Seq(Tick), NEW x \in Tick, NEW i
  PROVE  /\ IndexOf(x) = i =>
              /\ Cardinality(SeenAt(Append(t, x), i)) = Cardinality(SeenAt(t, i)) + 1
              /\ Total(Amounts(Append(t, x), i)) = Total(Amounts(t, i)) + x.pnl
         /\ IndexOf(x) # i =>
              /\ Cardinality(SeenAt(Append(t, x), i)) = Cardinality(SeenAt(t, i))
              /\ Total(Amounts(Append(t, x), i)) = Total(Amounts(t, i))
<1> PICK u : u = Append(t, x)
  OBVIOUS
<1> PICK n \in Nat : n = Len(t)
  OBVIOUS
<1>1. /\ u \in Seq(Tick) /\ DOMAIN t = 1 .. n /\ DOMAIN u = 1 .. n + 1 /\ u[n + 1] = x
      /\ \A k \in 1 .. n : u[k] = t[k]
  OBVIOUS
<1>2. SeenAt(u, i) = IF IndexOf(x) = i THEN SeenAt(t, i) \cup {n + 1} ELSE SeenAt(t, i)
  BY <1>1 DEF SeenAt
<1>3. n + 1 \notin SeenAt(t, i) /\ SeenAt(t, i) \subseteq 1 .. n
  BY <1>1 DEF SeenAt
<1>4. IsFiniteSet(SeenAt(t, i)) /\ Amounts(t, i) \in Seq(Int) /\ Total(Amounts(t, i)) \in Int
  BY PointTyped
<1>5. Cardinality(SeenAt(t, i) \cup {n + 1}) = Cardinality(SeenAt(t, i)) + 1
  BY <1>3, <1>4, FS_AddElement
<1> PICK y \in Int : y = IF IndexOf(x) = i THEN x.pnl ELSE 0
  BY DEF Tick
<1> PICK a : a = Amounts(t, i)
  OBVIOUS
<1>6. a = [k \in 1 .. n |-> IF k \in SeenAt(t, i) THEN t[k].pnl ELSE 0] /\ a \in Seq(Int) /\ Len(a) = n
  BY <1>1, <1>4 DEF Amounts
<1>7. Amounts(u, i) = [k \in 1 .. n + 1 |-> IF k = n + 1 THEN y ELSE a[k]]
  <2>1. Amounts(u, i) = [k \in 1 .. n + 1 |-> IF k \in SeenAt(u, i) THEN u[k].pnl ELSE 0]
    BY <1>1 DEF Amounts
  <2>2. ASSUME NEW k \in 1 .. n + 1
        PROVE  (IF k \in SeenAt(u, i) THEN u[k].pnl ELSE 0) = IF k = n + 1 THEN y ELSE a[k]
    <3>1. CASE k = n + 1
      BY <1>1, <1>2, <1>3, <3>1
    <3>2. CASE k \in 1 .. n
      <4>1. k # n + 1 /\ u[k] = t[k] /\ (k \in SeenAt(u, i) <=> k \in SeenAt(t, i))
        BY <1>1, <1>2, <3>2
      <4> QED BY <1>6, <3>2, <4>1
    <3> QED BY <3>1, <3>2
  <2> QED BY <2>1, <2>2
<1>8. Amounts(u, i) = Append(a, y)
  <2>1. Append(a, y) = [k \in 1 .. n + 1 |-> IF k = n + 1 THEN y ELSE a[k]]
    BY <1>6
  <2> QED BY <1>7, <2>1
<1>9. Total(Append(a, y)) = Total(a) + y /\ Total(a) \in Int
  BY ONLY <1>4, TotalAdds, y \in Int, a = Amounts(t, i)
<1> QED BY <1>2, <1>5, <1>8, <1>9

\* A bucket that has the results of its index.
Shows(b, t) ==
  /\ b \in Bucket /\ Len(b.stats) = 1
  /\ b.stats[1].count = Cardinality(SeenAt(t, b.index))
  /\ b.stats[1].sum = Total(Amounts(t, b.index))

LEMMA StillShows ==
  ASSUME NEW t \in Seq(Tick), NEW x \in Tick, NEW b, Shows(b, t), b.index # IndexOf(x)
  PROVE  Shows(b, Append(t, x))
BY PointAppends DEF Shows

\* A window of one dimension.
LEMMA PushedOne ==
  ASSUME NEW w \in Window, Len(w.bucket.stats) = 1, NEW i \in Nat, NEW v \in Int,
         NEW c, c = IF Starts(w, i) THEN NewStats ELSE w.bucket.stats[1],
         NEW u, u = WindowPush(w, i, <<v>>)
  PROVE  /\ u \in Window /\ u.size = w.size /\ Len(u.bucket.stats) = 1
         /\ u.last = IF Starts(w, i) THEN i ELSE w.last
         /\ u.bucket.index = IF Starts(w, i) THEN i ELSE w.bucket.index
         /\ u.bucket.stats[1] = StatsPush(c, v)
<1> PICK st : st = w.bucket.stats
  OBVIOUS
<1> PICK a : a = st[1]
  OBVIOUS
<1>1. /\ w = [size |-> w.size, last |-> w.last, bucket |-> w.bucket]
      /\ w.bucket = [index |-> w.bucket.index, stats |-> st] /\ st \in Seq(Stats)
      /\ w.size \in Nat /\ w.last \in Nat /\ w.bucket.index \in Nat
  BY DEF Window, Bucket
<1>2. st = <<a>> /\ a \in Stats
  BY <1>1
<1>3. NewCollector(1) = <<NewStats>> /\ NewBucket(i, 1) = [index |-> i, stats |-> <<NewStats>>]
  BY DEF NewCollector, NewBucket
<1>4. CollectorPush(<<c>>, <<v>>) = <<StatsPush(c, v)>>
  BY DEF CollectorPush
<1> PICK x, y : x = (IF Starts(w, i) THEN i ELSE w.last)
             /\ y = (IF Starts(w, i) THEN i ELSE w.bucket.index)
  OBVIOUS
<1> PICK o : o = [size |-> w.size, last |-> x, bucket |-> [index |-> y, stats |-> <<c>>]]
  OBVIOUS
<1>5. u = [o EXCEPT !.bucket.stats = CollectorPush(@, <<v>>)]
  <2>1. CASE Starts(w, i)
    <3>1. [w EXCEPT !.last = i, !.bucket = NewBucket(i, 1)] = o
      <4>1. [w EXCEPT !.last = i, !.bucket = NewBucket(i, 1)] =
              [size |-> w.size, last |-> i, bucket |-> [index |-> i, stats |-> <<NewStats>>]]
        <5> PICK n : n = NewBucket(i, 1)
          OBVIOUS
        <5> PICK z, l, b : z = w.size /\ l = w.last /\ b = w.bucket
          OBVIOUS
        <5>1. w = [size |-> z, last |-> l, bucket |-> b]
          BY <1>1
        <5> PICK e : e = [w EXCEPT !.last = i, !.bucket = n]
          OBVIOUS
        <5>2. e = [size |-> z, last |-> i, bucket |-> n]
          BY <5>1
        <5> QED BY <1>3, <5>2
      <4>2. x = i /\ y = i /\ c = NewStats
        BY <2>1
      <4> QED BY <4>1, <4>2
    <3>2. u = [[w EXCEPT !.last = i, !.bucket = NewBucket(i, 1)] EXCEPT !.bucket.stats = CollectorPush(@, <<v>>)]
      BY <2>1 DEF WindowPush
    <3> QED BY <3>1, <3>2
  <2>2. CASE ~Starts(w, i)
    <3>1. w = o
      BY <1>1, <1>2, <2>2
    <3>2. u = [w EXCEPT !.bucket.stats = CollectorPush(@, <<v>>)]
      BY <2>2 DEF WindowPush
    <3> QED BY <3>1, <3>2
  <2> QED BY <2>1, <2>2
<1> PICK q : q = <<StatsPush(c, v)>>
  OBVIOUS
<1>6. u = [size |-> w.size, last |-> x, bucket |-> [index |-> y, stats |-> q]]
  BY ONLY <1>4, <1>5, PushedInto, q = <<StatsPush(c, v)>>,
    o = [size |-> w.size, last |-> x, bucket |-> [index |-> y, stats |-> <<c>>]]
<1>7. c \in Stats /\ StatsPush(c, v) \in Stats
  BY <1>2, NewStatsOK, StatsPushed
<1>8. q \in Seq(Stats) /\ Len(q) = 1 /\ q[1] = StatsPush(c, v)
  BY <1>7
<1>9. u \in Window
  <2>1. [index |-> y, stats |-> q] \in Bucket
    BY <1>1, <1>8 DEF Bucket
  <2> QED BY <1>1, <1>6, <2>1 DEF Window
<1> QED BY <1>6, <1>8, <1>9

-----------------------------------------------------------------------------
(* The history of a position is that of the results it saw.                *)

\* The shown buckets of a ring are r, the window is w, the results t.
RingOf(r, w, t) ==
  /\ r \in Seq(Bucket) /\ Len(r) <= Samples
  /\ \A m \in 1 .. Len(r) : /\ Shows(r[m], t) /\ r[m].index < w.bucket.index
                            /\ \E k \in 1 .. Len(t) : r[m].index = IndexOf(t[k])
  /\ \A l, m \in 1 .. Len(r) : l < m => r[l].index < r[m].index
  /\ \A k \in 1 .. Len(t) :
       \/ IndexOf(t[k]) = w.bucket.index
       \/ \E m \in 1 .. Len(r) : r[m].index = IndexOf(t[k])
       \/ Len(r) = Samples /\ \A m \in 1 .. Len(r) : r[m].index > IndexOf(t[k])

\* The window has the results of the index of the last.
WindowOf(w, t) ==
  /\ w \in Window /\ w.size = 1 /\ w.last = w.bucket.index /\ Shows(w.bucket, t)
  /\ t = <<>> => w.bucket.index = 0
  /\ t # <<>> => w.bucket.index = IndexOf(t[Len(t)]) /\ w.bucket.stats[1].count > 0
  /\ \A k \in 1 .. Len(t) : IndexOf(t[k]) <= w.bucket.index
  /\ \A i \in Nat : i > w.bucket.index => /\ Cardinality(SeenAt(t, i)) = 0
                                          /\ Total(Amounts(t, i)) = 0

\* The results of a position: no earlier than the ones before, nor in the
\* bucket of index zero.
TicksOK(t) ==
  /\ t \in Seq(Tick)
  /\ \A k \in 1 .. Len(t) : Duration <= t[k].time
  /\ \A j, k \in 1 .. Len(t) : j <= k => t[j].time <= t[k].time

LEMMA Later ==
  ASSUME NEW x \in Nat, NEW y \in Nat, x <= y
  PROVE  /\ x \div Duration \in Nat /\ x \div Duration <= y \div Duration
         /\ Duration <= x => x \div Duration >= 1
<1> PICK d \in Nat \ {0} : d = Duration
  BY BoundsAssumption
<1> PICK a, b : a = x \div d /\ b = y \div d
  OBVIOUS
<1>1. a \in Int /\ b \in Int /\ a * d <= x /\ x < (a + 1) * d /\ b * d <= y /\ y < (b + 1) * d
  BY ONLY x \in Nat, y \in Nat, d \in Nat \ {0}, a = x \div d /\ b = y \div d
<1>2. a >= 0
  BY <1>1
<1>3. a <= b
  <2>1. SUFFICES ASSUME b + 1 <= a PROVE FALSE
    BY <1>1
  <2>2. (b + 1) * d <= a * d
    BY <1>1, <2>1
  <2> QED BY <1>1, <2>2
<1>4. d <= x => a >= 1
  BY <1>1, <1>2
<1> QED BY <1>1, <1>2, <1>3, <1>4

\* u is r with b at the end and without its first d values.
ShiftedBy(u, r, b, n, d) ==
  /\ Len(u) = Len(r) + 1 - d /\ (d = 1 <=> Len(r) = n)
  /\ u[Len(u)] = b /\ \A m \in 1 .. Len(u) - 1 : u[m] = r[m + d]
Shifted(u, r, b, n, S) ==
  u \in Seq(S) /\ Len(u) <= n /\ Len(u) # 0 /\ \E d \in {0, 1} : ShiftedBy(u, r, b, n, d)

LEMMA LastOfAppend ==
  ASSUME NEW S, NEW r \in Seq(S), NEW b \in S, NEW n \in Nat \ {0}, Len(r) <= n
  PROVE  Shifted(LastOf(n, Append(r, b)), r, b, n, S)
<1> PICK u : u = LastOf(n, Append(r, b))
  OBVIOUS
<1> PICK a : a = Append(r, b)
  OBVIOUS
<1> PICK l \in Nat : l = Len(r)
  OBVIOUS
<1>1. a \in Seq(S) /\ Len(a) = l + 1 /\ a[l + 1] = b /\ \A k \in 1 .. l : a[k] = r[k]
  OBVIOUS
<1>2. CASE l < n
  <2>1. u = a
    BY <1>1, <1>2 DEF LastOf
  <2>2. ShiftedBy(u, r, b, n, 0)
    BY <1>1, <1>2, <2>1 DEF ShiftedBy
  <2> QED BY <1>1, <1>2, <2>1, <2>2 DEF Shifted
<1>3. CASE l = n
  <2>1. u = SubSeq(a, 2, l + 1)
    <3>1. Len(a) > n /\ Len(a) - n + 1 = 2 /\ Len(a) = l + 1
      BY <1>1, <1>3
    <3> QED BY <3>1 DEF LastOf
  <2>2. u \in Seq(S) /\ Len(u) = l /\ \A k \in 1 .. l : u[k] = a[k + 1]
    BY <1>1, <1>3, <2>1
  <2>3. u[l] = b /\ \A m \in 1 .. l - 1 : u[m] = r[m + 1]
    BY <1>1, <1>3, <2>2
  <2>4. ShiftedBy(u, r, b, n, 1)
    BY <1>3, <2>2, <2>3 DEF ShiftedBy
  <2> QED BY <1>3, <2>2, <2>4 DEF Shifted
<1> QED BY <1>2, <1>3

\* A result of the index the window has.
LEMMA SameBucket ==
  ASSUME NEW t \in Seq(Tick), NEW x \in Tick, NEW w, WindowOf(w, t), t # <<>>,
         NEW r, RingOf(r, w, t), IndexOf(x) = w.bucket.index,
         NEW u, u = WindowPush(w, IndexOf(x), <<x.pnl>>), IndexOf(x) \in Nat \ {0}
  PROVE  /\ ~Closes(w, IndexOf(x))
         /\ WindowOf(u, Append(t, x)) /\ RingOf(r, u, Append(t, x))
<1> PICK i \in Nat : i = IndexOf(x)
  OBVIOUS
<1>1. w \in Window /\ w.size = 1 /\ w.last = i /\ w.bucket.index = i /\ Shows(w.bucket, t) /\ i # 0
  BY DEF WindowOf
<1>2. ~Starts(w, i)
  BY <1>1 DEF Starts
<1>3. ~Closes(w, i)
  BY <1>2 DEF Closes
<1> PICK y : y = Append(t, x)
  OBVIOUS
<1>4. /\ y \in Seq(Tick) /\ y # <<>> /\ Len(y) = Len(t) + 1 /\ y[Len(y)] = x /\ Len(t) \in Nat
      /\ \A k \in 1 .. Len(t) : y[k] = t[k]
  OBVIOUS
<1>5. x.pnl \in Int /\ Len(w.bucket.stats) = 1
  BY <1>1 DEF Tick, Shows
<1>6. /\ u \in Window /\ u.size = 1 /\ Len(u.bucket.stats) = 1 /\ u.last = i /\ u.bucket.index = i
      /\ u.bucket.stats[1] = StatsPush(w.bucket.stats[1], x.pnl)
  BY <1>1, <1>2, <1>5, PushedOne
<1>7. Shows(u.bucket, y) /\ u.bucket.stats[1].count > 0
  <2>1. u.bucket.stats[1].count = w.bucket.stats[1].count + 1 /\ u.bucket.stats[1].sum = w.bucket.stats[1].sum + x.pnl
    BY <1>6 DEF StatsPush
  <2>2. /\ w.bucket.stats[1].count = Cardinality(SeenAt(t, i))
        /\ w.bucket.stats[1].sum = Total(Amounts(t, i))
    BY <1>1 DEF Shows
  <2>3. /\ Cardinality(SeenAt(y, i)) = Cardinality(SeenAt(t, i)) + 1
        /\ Total(Amounts(y, i)) = Total(Amounts(t, i)) + x.pnl
        /\ Cardinality(SeenAt(t, i)) \in Nat
    BY PointAppends, PointTyped
  <2>4. u.bucket \in Bucket
    BY <1>6 DEF Window
  <2> QED BY <1>6, <2>1, <2>2, <2>3, <2>4 DEF Shows
<1>8. \A k \in 1 .. Len(y) : IndexOf(y[k]) <= i /\ (k \in 1 .. Len(t) \/ y[k] = x)
  <2>1. \A k \in 1 .. Len(t) : IndexOf(t[k]) <= i
    BY <1>1 DEF WindowOf
  <2> QED BY <1>4, <2>1
<1>9. ASSUME NEW j \in Nat, j > i
      PROVE  Cardinality(SeenAt(y, j)) = 0 /\ Total(Amounts(y, j)) = 0
  <2>1. Cardinality(SeenAt(t, j)) = 0 /\ Total(Amounts(t, j)) = 0
    BY <1>1, <1>9 DEF WindowOf
  <2> QED BY <1>9, <2>1, PointAppends
<1>10. WindowOf(u, y)
  BY <1>4, <1>6, <1>7, <1>8, <1>9 DEF WindowOf
<1>11. RingOf(r, u, y)
  <2>1. /\ r \in Seq(Bucket) /\ Len(r) <= Samples
        /\ \A l, m \in 1 .. Len(r) : l < m => r[l].index < r[m].index
    BY DEF RingOf
  <2>2. ASSUME NEW m \in 1 .. Len(r)
        PROVE  /\ Shows(r[m], y) /\ r[m].index < i
               /\ \E k \in 1 .. Len(y) : r[m].index = IndexOf(y[k])
    <3>1. Shows(r[m], t) /\ r[m].index < i /\ r[m].index \in Nat
      BY <1>1 DEF RingOf, Shows, Bucket
    <3>2. Shows(r[m], y)
      BY <3>1, StillShows
    <3>3. PICK k \in 1 .. Len(t) : r[m].index = IndexOf(t[k])
      BY DEF RingOf
    <3>4. k \in 1 .. Len(y) /\ y[k] = t[k]
      BY <1>4
    <3> QED BY <3>1, <3>2, <3>3, <3>4
  <2>3. ASSUME NEW k \in 1 .. Len(y)
        PROVE  \/ IndexOf(y[k]) = i
               \/ \E m \in 1 .. Len(r) : r[m].index = IndexOf(y[k])
               \/ Len(r) = Samples /\ \A m \in 1 .. Len(r) : r[m].index > IndexOf(y[k])
    <3>1. CASE y[k] = x
      BY <3>1
    <3>2. CASE k \in 1 .. Len(t)
      BY <1>1, <1>4, <3>2 DEF RingOf
    <3> QED BY <1>8, <3>1, <3>2
  <2> QED BY <1>6, <2>1, <2>2, <2>3 DEF RingOf
<1> QED BY <1>3, <1>10, <1>11

\* A result that opens a bucket.
LEMMA NextBucket ==
  ASSUME NEW t \in Seq(Tick), NEW x \in Tick, NEW w, WindowOf(w, t),
         NEW r, RingOf(r, w, t), IndexOf(x) \in Nat \ {0},
         IndexOf(x) > w.bucket.index,
         NEW u, u = WindowPush(w, IndexOf(x), <<x.pnl>>),
         NEW q, q = IF t = <<>> THEN r ELSE LastOf(Samples, Append(r, w.bucket))
  PROVE  /\ Closes(w, IndexOf(x)) <=> t # <<>>
         /\ WindowOf(u, Append(t, x)) /\ RingOf(q, u, Append(t, x))
         /\ t # <<>> => Len(q) > 0
<1> PICK i \in Nat : i = IndexOf(x)
  OBVIOUS
<1> PICK b : b = w.bucket
  OBVIOUS
<1>1. /\ w \in Window /\ w.size = 1 /\ w.last = b.index /\ Shows(b, t) /\ i # 0 /\ i > b.index
      /\ b \in Bucket /\ b.index \in Nat /\ Len(b.stats) = 1
  BY DEF WindowOf, Shows, Bucket
<1>2. Starts(w, i)
  BY <1>1 DEF Starts
<1>3. Closes(w, i) <=> t # <<>>
  <2>1. CASE t = <<>>
    <3>1. b.stats[1].count = 0
      BY <2>1, <1>1, PointStarts DEF Shows
    <3> QED BY <2>1, <3>1 DEF Closes, Count
  <2>2. CASE t # <<>>
    BY <1>1, <1>2, <2>2 DEF Closes, Count, WindowOf
  <2> QED BY <2>1, <2>2
<1> PICK y : y = Append(t, x)
  OBVIOUS
<1>4. /\ y \in Seq(Tick) /\ y # <<>> /\ Len(y) = Len(t) + 1 /\ y[Len(y)] = x /\ Len(t) \in Nat
      /\ (\A k \in 1 .. Len(t) : y[k] = t[k]) /\ Len(y) \in 1 .. Len(y)
  OBVIOUS
<1>5. x.pnl \in Int
  BY DEF Tick
<1>6. /\ u \in Window /\ u.size = 1 /\ Len(u.bucket.stats) = 1 /\ u.last = i /\ u.bucket.index = i
      /\ u.bucket.stats[1] = StatsPush(NewStats, x.pnl)
  BY <1>1, <1>2, <1>5, PushedOne
<1>7. Shows(u.bucket, y) /\ u.bucket.stats[1].count > 0
  <2>1. u.bucket.stats[1].count = 1 /\ u.bucket.stats[1].sum = x.pnl
    BY <1>5, <1>6 DEF StatsPush, NewStats
  <2>2. Cardinality(SeenAt(t, i)) = 0 /\ Total(Amounts(t, i)) = 0
    BY <1>1 DEF WindowOf
  <2>3. Cardinality(SeenAt(y, i)) = 0 + 1 /\ Total(Amounts(y, i)) = 0 + x.pnl
    BY <2>2, PointAppends
  <2>4. u.bucket \in Bucket
    BY <1>6 DEF Window
  <2> QED BY <1>5, <1>6, <2>1, <2>3, <2>4 DEF Shows
<1>8. \A k \in 1 .. Len(t) : IndexOf(t[k]) <= b.index /\ IndexOf(t[k]) \in Nat
  <2>1. \A k \in 1 .. Len(t) : IndexOf(t[k]) <= b.index
    BY DEF WindowOf
  <2>2. ASSUME NEW k \in 1 .. Len(t) PROVE IndexOf(t[k]) \in Nat
    <3>1. t[k] \in Tick
      OBVIOUS
    <3>2. t[k].time \in Nat
      BY <3>1 DEF Tick
    <3> PICK z \in Nat : z = t[k].time
      BY <3>2
    <3>3. z <= z
      OBVIOUS
    <3>4. z \div Duration \in Nat
      BY <3>3, Later
    <3> QED BY <3>4 DEF IndexOf
  <2> QED BY <2>1, <2>2
<1>9. \A k \in 1 .. Len(y) : IndexOf(y[k]) <= i /\ (k \in 1 .. Len(t) \/ y[k] = x)
  BY <1>1, <1>4, <1>8
<1>10. ASSUME NEW j \in Nat, j > i
       PROVE  Cardinality(SeenAt(y, j)) = 0 /\ Total(Amounts(y, j)) = 0
  <2>1. Cardinality(SeenAt(t, j)) = 0 /\ Total(Amounts(t, j)) = 0
    BY <1>1, <1>10 DEF WindowOf
  <2> QED BY <1>10, <2>1, PointAppends
<1>11. WindowOf(u, y)
  BY <1>4, <1>6, <1>7, <1>9, <1>10 DEF WindowOf
<1>12. /\ r \in Seq(Bucket) /\ Len(r) <= Samples /\ Samples \in Nat \ {0} /\ Len(r) \in Nat
       /\ \A l, m \in 1 .. Len(r) : l < m => r[l].index < r[m].index
  BY BoundsAssumption DEF RingOf
<1>13. ASSUME NEW m \in 1 .. Len(r)
       PROVE  /\ Shows(r[m], y) /\ r[m].index < b.index /\ r[m].index \in Nat
              /\ \E k \in 1 .. Len(y) : r[m].index = IndexOf(y[k])
  <2>1. Shows(r[m], t) /\ r[m].index < b.index /\ r[m].index \in Nat /\ r[m].index # i
    <3>1. r[m] \in Bucket /\ Shows(r[m], t) /\ r[m].index < w.bucket.index
      BY DEF RingOf
    <3>2. r[m].index \in Nat
      BY ONLY <3>1 DEF Bucket
    <3> QED BY <1>1, <3>1, <3>2
  <2>2. Shows(r[m], y)
    BY <2>1, StillShows
  <2>3. PICK k \in 1 .. Len(t) : r[m].index = IndexOf(t[k])
    BY DEF RingOf
  <2>4. k \in 1 .. Len(y) /\ y[k] = t[k]
    BY <1>4
  <2> QED BY <2>1, <2>2, <2>3, <2>4
<1>14. CASE t = <<>>
  <2>1. q = r /\ Len(t) = 0
    BY <1>14
  <2>2. Len(r) = 0
    <3>1. SUFFICES ASSUME Len(r) # 0 PROVE FALSE
      OBVIOUS
    <3>2. 1 \in 1 .. Len(r)
      BY <1>12, <3>1
    <3>3. \E k \in 1 .. Len(t) : r[1].index = IndexOf(t[k])
      BY <3>2 DEF RingOf
    <3> QED BY <2>1, <3>3
  <2>3. \A k \in 1 .. Len(y) : IndexOf(y[k]) = i
    BY <1>4, <1>9, <2>1
  <2>4. RingOf(r, u, y)
    BY <1>6, <1>12, <2>2, <2>3 DEF RingOf
  <2> QED BY <1>3, <1>11, <1>14, <2>1, <2>4
<1>15. CASE t # <<>>
  <2>1. q = LastOf(Samples, Append(r, b))
    BY <1>15
  <2>0. Shifted(q, r, b, Samples, Bucket)
    <3>1. r \in Seq(Bucket) /\ b \in Bucket /\ Samples \in Nat \ {0} /\ Len(r) <= Samples
      BY <1>1, <1>12
    <3> QED BY ONLY <2>1, <3>1, LastOfAppend
  <2>2. q \in Seq(Bucket) /\ Len(q) <= Samples /\ Len(q) # 0 /\ Len(q) \in Nat
    BY <2>0 DEF Shifted
  <2>3. PICK d \in {0, 1} : /\ Len(q) = Len(r) + 1 - d /\ (d = 1 <=> Len(r) = Samples)
                            /\ q[Len(q)] = b
                            /\ \A m \in 1 .. Len(q) - 1 : q[m] = r[m + d]
    BY <2>0 DEF Shifted, ShiftedBy
  <2>4. ASSUME NEW m \in 1 .. Len(q)
        PROVE  /\ m = Len(q) => q[m] = b
               /\ m # Len(q) => m + d \in 1 .. Len(r) /\ q[m] = r[m + d]
    <3>1. d \in {0, 1} /\ Len(q) = Len(r) + 1 - d /\ Len(r) \in Nat /\ Len(q) \in Nat
      BY <1>12, <2>2, <2>3
    <3>2. m # Len(q) => m + d \in 1 .. Len(r) /\ m \in 1 .. Len(q) - 1
      BY ONLY <3>1, m \in 1 .. Len(q)
    <3> QED BY <2>3, <3>2
  <2>5. Shows(b, y) /\ b.index < i /\ \E k \in 1 .. Len(y) : b.index = IndexOf(y[k])
    <3>1. b.index = IndexOf(t[Len(t)]) /\ b.index # i
      BY <1>1, <1>15 DEF WindowOf
    <3>2. Shows(b, y)
      BY <1>1, <3>1, StillShows
    <3>3. Len(t) \in 1 .. Len(y) /\ y[Len(t)] = t[Len(t)]
      BY <1>4, <1>15
    <3> QED BY <1>1, <3>1, <3>2, <3>3
  <2>6. ASSUME NEW m \in 1 .. Len(q)
        PROVE  /\ Shows(q[m], y) /\ q[m].index < i
               /\ \E k \in 1 .. Len(y) : q[m].index = IndexOf(y[k])
    <3>1. CASE m = Len(q)
      BY <2>4, <2>5, <3>1
    <3>2. CASE m # Len(q)
      <4> PICK o \in 1 .. Len(r) : o = m + d
        BY <2>4, <3>2
      <4>1. q[m] = r[o]
        BY <2>4, <3>2
      <4>2. /\ Shows(r[o], y) /\ r[o].index < b.index /\ r[o].index \in Nat
            /\ \E k \in 1 .. Len(y) : r[o].index = IndexOf(y[k])
        BY <1>13
      <4>3. r[o].index < i
        BY <1>1, <4>2
      <4> QED BY <4>1, <4>2, <4>3
    <3> QED BY <3>1, <3>2
  <2>7. ASSUME NEW l \in 1 .. Len(q), NEW m \in 1 .. Len(q), l < m
        PROVE  q[l].index < q[m].index
    <3>1. l # Len(q)
      BY <2>2, <2>7
    <3> PICK o \in 1 .. Len(r) : o = l + d
      BY <2>4, <3>1
    <3>2. q[l] = r[o]
      BY <2>4, <3>1
    <3>3. CASE m = Len(q)
      BY <1>13, <2>4, <3>2, <3>3
    <3>4. CASE m # Len(q)
      <4> PICK v \in 1 .. Len(r) : v = m + d
        BY <2>4, <3>4
      <4>1. q[m] = r[v] /\ o < v
        BY <2>4, <2>7, <3>4
      <4> QED BY <1>12, <3>2, <4>1
    <3> QED BY <3>3, <3>4
  <2>8. ASSUME NEW k \in 1 .. Len(y)
        PROVE  \/ IndexOf(y[k]) = i
               \/ \E m \in 1 .. Len(q) : q[m].index = IndexOf(y[k])
               \/ Len(q) = Samples /\ \A m \in 1 .. Len(q) : q[m].index > IndexOf(y[k])
    <3>1. CASE y[k] = x
      BY <3>1
    <3>2. CASE k \in 1 .. Len(t)
      <4> PICK c \in Nat : c = IndexOf(t[k])
        BY <1>8, <3>2
      <4>0. IndexOf(y[k]) = c /\ c <= b.index
        BY <1>4, <1>8, <3>2
      <4>1. \/ c = b.index
            \/ \E m \in 1 .. Len(r) : r[m].index = c
            \/ Len(r) = Samples /\ \A m \in 1 .. Len(r) : r[m].index > c
        BY <3>2 DEF RingOf
      <4>2. CASE c = b.index
        <5>1. Len(q) \in 1 .. Len(q) /\ q[Len(q)] = b
          BY <2>2, <2>3
        <5> QED BY <4>0, <4>2, <5>1
      <4>3. ASSUME NEW m \in 1 .. Len(r), r[m].index = c, c # b.index
            PROVE  \/ \E n \in 1 .. Len(q) : q[n].index = c
                   \/ Len(q) = Samples /\ \A n \in 1 .. Len(q) : q[n].index > c
        <5>1. CASE m - d >= 1
          <6> PICK n \in Nat : n = m - d
            BY <5>1
          <6>2. d \in {0, 1} /\ Len(q) = Len(r) + 1 - d /\ Len(r) \in Nat
            BY <1>12, <2>3
          <6>1. n \in 1 .. Len(q) /\ n # Len(q) /\ m = n + d
            BY ONLY <5>1, <6>2, m \in 1 .. Len(r), n = m - d
          <6>3. q[n] = r[n + d]
            BY <2>4, <6>1
          <6> QED BY ONLY <4>3, <6>1, <6>3
        <5>2. CASE m - d < 1
          <6>1. d = 1 /\ m = 1 /\ Len(q) = Samples
            BY <2>3, <5>2, <1>12
          <6>2. ASSUME NEW n \in 1 .. Len(q) PROVE q[n].index > c
            <7>1. CASE n = Len(q)
              <8>1. q[n] = b /\ c <= b.index /\ c # b.index /\ b.index \in Nat
                BY <1>1, <2>4, <4>0, <4>3, <7>1
              <8> QED BY ONLY <8>1, c \in Nat
            <7>2. CASE n # Len(q)
              <8> PICK o \in 1 .. Len(r) : o = n + d
                BY <2>4, <7>2
              <8>1. q[n] = r[o] /\ m < o
                BY <2>4, <6>1, <7>2
              <8>2. r[m].index < r[o].index /\ r[o].index \in Nat
                BY <1>12, <1>13, <8>1
              <8> QED BY <4>3, <8>1, <8>2
            <7> QED BY <7>1, <7>2
          <6> QED BY <6>1, <6>2
        <5>3. m \in Nat /\ d \in {0, 1}
          BY <1>12, <2>3
        <5>4. m - d >= 1 \/ m - d < 1
          BY ONLY <5>3
        <5> QED BY ONLY <5>1, <5>2, <5>4
      <4>4. ASSUME Len(r) = Samples, \A m \in 1 .. Len(r) : r[m].index > c
            PROVE  Len(q) = Samples /\ \A n \in 1 .. Len(q) : q[n].index > c
        <5>1. d = 1 /\ Len(q) = Samples
          BY <1>12, <2>3, <4>4
        <5>2. ASSUME NEW n \in 1 .. Len(q) PROVE q[n].index > c
          <6>1. CASE n = Len(q)
            <7>1. 1 \in 1 .. Len(r)
              BY <1>12, <4>4
            <7>2. r[1].index > c /\ r[1].index < b.index /\ r[1].index \in Nat
              BY <1>13, <4>4, <7>1
            <7>3. q[n] = b /\ b.index \in Nat
              BY <1>1, <2>4, <6>1
            <7> QED BY ONLY <7>2, <7>3, c \in Nat
          <6>2. CASE n # Len(q)
            <7> PICK o \in 1 .. Len(r) : o = n + d
              BY <2>4, <6>2
            <7> QED BY <2>4, <4>4, <6>2
          <6> QED BY <6>1, <6>2
        <5> QED BY <5>1, <5>2
      <4> QED BY <4>0, <4>1, <4>2, <4>3, <4>4
    <3> QED BY <1>9, <3>1, <3>2
  <2>9. RingOf(q, u, y)
    BY <1>6, <2>2, <2>6, <2>7, <2>8 DEF RingOf
  <2> QED BY <1>3, <1>11, <1>15, <2>2, <2>9
<1> QED BY <1>14, <1>15

HistoryOf(h, t) ==
  /\ h = [window |-> h.window, ring |-> h.ring] /\ IsRing(h.ring, Samples) /\ h.ring \in Ring
  /\ WindowOf(h.window, t) /\ RingOf(RingGet(h.ring), h.window, t)

LEMMA RingStaysTyped ==
  ASSUME NEW r \in Ring, IsRing(r, Samples), NEW b \in Bucket
  PROVE  RingPush(r, b) \in Ring
<1> PICK p : p = RingPush(r, b)
  OBVIOUS
<1>1. IsRing(p, Samples)
  BY RingAdds, BoundsAssumption
<1>2. p.values = [r.values EXCEPT ![r.index] = b]
  <2>1. r = [size |-> Samples, index |-> r.index, count |-> r.count, values |-> r.values]
    BY DEF IsRing
  <2> QED BY <2>1 DEF RingPush
<1>3. p.values \in [0 .. Samples - 1 -> Bucket \cup {Nil}]
  BY <1>2 DEF Ring
<1>4. /\ p = [size |-> Samples, index |-> p.index, count |-> p.count, values |-> p.values]
      /\ p.index \in 0 .. Samples - 1 /\ p.count \in Nat
  BY <1>1 DEF IsRing
<1> QED BY <1>3, <1>4 DEF Ring

LEMMA NewHistoryOK == HistoryOf(NewProfit, <<>>)
<1> PICK h : h = NewProfit
  OBVIOUS
<1>1. h = [window |-> NewWindow(1, 1), ring |-> NewRing(Samples)]
  BY DEF NewProfit, NewHistory
<1>2. IsRing(h.ring, Samples) /\ RingGet(h.ring) = <<>>
  BY <1>1, RingStarts, BoundsAssumption
<1>3. h.ring \in Ring
  BY <1>1, BoundsAssumption DEF NewRing, Ring
<1> PICK w : w = h.window
  OBVIOUS
<1>4. w = [size |-> 1, last |-> 0, bucket |-> [index |-> 0, stats |-> <<NewStats>>]]
  <2>1. NewCollector(1) = <<NewStats>>
    BY DEF NewCollector
  <2> QED BY <1>1, <2>1 DEF NewWindow, NewBucket
<1>5. WindowOf(w, <<>>)
  <2> PICK st : st = <<NewStats>>
    OBVIOUS
  <2>1. st \in Seq(Stats) /\ Len(st) = 1 /\ st[1] = NewStats
    BY NewStatsOK
  <2>2. w.bucket \in Bucket /\ w.bucket.index = 0 /\ w.bucket.stats = st
    BY <1>4, <2>1 DEF Bucket
  <2>3. w \in Window /\ w.size = 1 /\ w.last = 0
    BY <1>4, <2>2 DEF Window
  <2>4. Shows(w.bucket, <<>>)
    BY <2>1, <2>2, PointStarts DEF Shows, NewStats
  <2>5. <<>> \in Seq(Tick) /\ Len(<<>>) = 0
    OBVIOUS
  <2> QED BY <2>2, <2>3, <2>4, <2>5, PointStarts DEF WindowOf
<1>6. RingOf(<<>>, w, <<>>)
  <2>1. <<>> \in Seq(Bucket) /\ Len(<<>>) = 0 /\ Samples \in Nat
    BY BoundsAssumption
  <2> QED BY <2>1 DEF RingOf
<1>7. h = [window |-> h.window, ring |-> h.ring]
  BY <1>1
<1>8. HistoryOf(h, <<>>)
  BY <1>2, <1>3, <1>5, <1>6, <1>7 DEF HistoryOf
<1> QED BY <1>8

\* A result of a signal no earlier than the ones before.
LEMMA HistoryGrows ==
  ASSUME NEW t, TicksOK(t), NEW x \in Tick, Duration <= x.time,
         \A k \in 1 .. Len(t) : t[k].time <= x.time,
         NEW h, HistoryOf(h, t), NEW g, g = HistoryPush(h, x.time, Duration, x.pnl)
  PROVE  /\ HistoryOf(g, Append(t, x))
         /\ HistoryCloses(h, x.time, Duration) => /\ \A k \in 1 .. Len(t) : IndexOf(t[k]) < IndexOf(x)
<1> PICK i : i = IndexOf(x)
  OBVIOUS
<1> PICK w, r : w = h.window /\ r = RingGet(h.ring)
  OBVIOUS
<1> PICK u : u = WindowPush(w, i, <<x.pnl>>)
  OBVIOUS
<1>1. /\ WindowOf(w, t) /\ RingOf(r, w, t) /\ IsRing(h.ring, Samples) /\ h.ring \in Ring
      /\ t \in Seq(Tick) /\ w.bucket \in Bucket
  BY DEF HistoryOf, TicksOK, WindowOf, Shows
<1>2. i \in Nat \ {0}
  <2> PICK z \in Nat : z = x.time
    BY DEF Tick
  <2>1. z <= z
    OBVIOUS
  <2>2. z \div Duration \in Nat /\ z \div Duration >= 1
    BY <2>1, Later
  <2> QED BY <2>2 DEF IndexOf
<1>3. /\ g = [window |-> u, ring |-> IF Closes(w, i) THEN RingPush(h.ring, w.bucket) ELSE h.ring]
      /\ HistoryCloses(h, x.time, Duration) <=> Closes(w, i)
  BY DEF HistoryPush, HistoryCloses, IndexOf
<1>4. \A k \in 1 .. Len(t) : IndexOf(t[k]) <= w.bucket.index
  BY <1>1 DEF WindowOf
<1>5. t # <<>> => w.bucket.index \in Nat /\ w.bucket.index <= i
  <2> SUFFICES ASSUME t # <<>> PROVE w.bucket.index \in Nat /\ w.bucket.index <= i
    OBVIOUS
  <2>1. w.bucket.index = IndexOf(t[Len(t)]) /\ Len(t) \in 1 .. Len(t) /\ t[Len(t)] \in Tick
    BY <1>1 DEF WindowOf
  <2> PICK y, z \in Nat : y = t[Len(t)].time /\ z = x.time /\ y \in Nat
    BY <2>1 DEF Tick
  <2>2. y <= z
    BY <2>1
  <2>3. y \div Duration \in Nat /\ y \div Duration <= z \div Duration
    BY <2>2, Later
  <2> QED BY <2>1, <2>3 DEF IndexOf
<1>6. CASE t # <<>> /\ i = w.bucket.index
  <2>1. ~Closes(w, i) /\ WindowOf(u, Append(t, x)) /\ RingOf(r, u, Append(t, x))
    BY <1>1, <1>2, <1>6, SameBucket
  <2>2. g = [window |-> u, ring |-> h.ring]
    BY <1>3, <2>1
  <2>3. g.window = u /\ g.ring = h.ring /\ g = [window |-> g.window, ring |-> g.ring]
    BY <2>2
  <2>4. HistoryOf(g, Append(t, x))
    BY <1>1, <2>1, <2>3 DEF HistoryOf
  <2> QED BY <1>3, <2>1, <2>4
<1>7. CASE t = <<>> \/ i > w.bucket.index
  <2>0. i > w.bucket.index /\ w.bucket.index \in Nat
    <3>1. w.bucket.index \in Nat /\ (t = <<>> => w.bucket.index = 0)
      BY <1>1 DEF WindowOf, Bucket
    <3> QED BY <1>2, <1>7, <3>1
  <2> PICK q : q = IF t = <<>> THEN r ELSE LastOf(Samples, Append(r, w.bucket))
    OBVIOUS
  <2>1. /\ Closes(w, i) <=> t # <<>>
        /\ WindowOf(u, Append(t, x)) /\ RingOf(q, u, Append(t, x))
    BY <1>1, <1>2, <2>0, NextBucket
  <2>2. g.window = u /\ g = [window |-> g.window, ring |-> g.ring]
    BY <1>3
  <2>3. IsRing(g.ring, Samples) /\ g.ring \in Ring /\ RingGet(g.ring) = q
    <3>1. CASE t = <<>>
      BY <1>1, <1>3, <2>1, <3>1
    <3>2. CASE t # <<>>
      <4>1. g.ring = RingPush(h.ring, w.bucket)
        BY <1>3, <2>1, <3>2
      <4>2. /\ IsRing(g.ring, Samples)
            /\ RingGet(g.ring) = LastOf(Samples, Append(RingGet(h.ring), w.bucket))
        BY <1>1, <4>1, RingAdds, BoundsAssumption
      <4>3. g.ring \in Ring
        BY <1>1, <4>1, RingStaysTyped
      <4> QED BY <3>2, <4>2, <4>3
    <3> QED BY <3>1, <3>2
  <2>4. HistoryOf(g, Append(t, x))
    BY <2>1, <2>2, <2>3 DEF HistoryOf
  <2>5. \A k \in 1 .. Len(t) : IndexOf(t[k]) < i
    <3> SUFFICES ASSUME NEW k \in 1 .. Len(t) PROVE IndexOf(t[k]) < i
      OBVIOUS
    <3>1. t[k] \in Tick
      BY <1>1
    <3> PICK z \in Nat : z = t[k].time
      BY <3>1 DEF Tick
    <3>2. z <= z
      OBVIOUS
    <3>3. IndexOf(t[k]) \in Nat
      BY <3>2, Later DEF IndexOf
    <3> QED BY <1>2, <1>4, <2>0, <3>3
  <2> QED BY <2>4, <2>5
<1> QED BY <1>2, <1>5, <1>6, <1>7

LEMMA TicksGrow ==
  ASSUME NEW t, TicksOK(t), NEW x \in Tick, Duration <= x.time,
         \A k \in 1 .. Len(t) : t[k].time <= x.time
  PROVE  TicksOK(Append(t, x))
<1> PICK y : y = Append(t, x)
  OBVIOUS
<1>1. t \in Seq(Tick)
  BY DEF TicksOK
<1>2. /\ y \in Seq(Tick) /\ Len(y) = Len(t) + 1 /\ y[Len(t) + 1] = x /\ Len(t) \in Nat
      /\ \A k \in 1 .. Len(t) : y[k] = t[k]
  BY <1>1
<1>3. x.time \in Nat
  BY DEF Tick
<1>4. \A k \in 1 .. Len(y) : k = Len(t) + 1 \/ k \in 1 .. Len(t)
  BY <1>2
<1>5. \A k \in 1 .. Len(y) : Duration <= y[k].time
  BY <1>2, <1>4 DEF TicksOK
<1>6. ASSUME NEW j \in 1 .. Len(y), NEW k \in 1 .. Len(y), j <= k PROVE y[j].time <= y[k].time
  <2>1. CASE k \in 1 .. Len(t)
    <3>1. j \in 1 .. Len(t)
      BY <1>2, <1>6, <2>1
    <3> QED BY <1>2, <1>6, <2>1, <3>1 DEF TicksOK
  <2>2. CASE k = Len(t) + 1
    <3>1. y[k] = x
      BY <1>2, <2>2
    <3>2. CASE j = Len(t) + 1
      BY <1>2, <1>3, <3>1, <3>2
    <3>3. CASE j \in 1 .. Len(t)
      BY <1>2, <3>1, <3>3
    <3> QED BY <1>4, <3>2, <3>3
  <2> QED BY <1>4, <2>1, <2>2
<1>7. TicksOK(y)
  BY <1>2, <1>5, <1>6 DEF TicksOK
<1> QED BY <1>7

-----------------------------------------------------------------------------
(* The trend of a position.                                                *)

LastFit(f) == IF f = <<>> THEN <<0, 0>> ELSE f[Len(f)]

\* The trend tr says of the last fit of f whether it is a shift.
ShiftsOf(tr, f) ==
  \A i \in 1 .. 2 :
    tr.shift[i] # None <=>
      Len(f) > 1 /\ f[Len(f)][i] * f[Len(f) - 1][i] < 0 /\ Size(f[Len(f)][i]) > Threshold

TrendOf(tr, f) ==
  /\ tr \in Trend \cup {None} /\ f \in Seq(Int \X Int)
  /\ tr = None => f = <<>>
  /\ tr # None => tr.now = LastFit(f) /\ (f # <<>> => ShiftsOf(tr, f))

LEMMA AgedOK ==
  ASSUME NEW tr, NEW f, TrendOf(tr, f), NEW a, a = Aged(tr)
  PROVE  /\ a \in Trend /\ a.live = FALSE /\ a.now = LastFit(f) /\ a.last = LastFit(f)
         /\ f # <<>> => ShiftsOf(a, f)
<1>1. CASE tr = None
  <2>1. a = [live |-> FALSE, last |-> <<0, 0>>, now |-> <<0, 0>>,
             type |-> <<None, None>>, shift |-> <<None, None>>] /\ f = <<>>
    BY <1>1 DEF Aged, NewTrend, TrendOf
  <2>2. <<None, None>> \in Seq(Types \cup {None}) /\ <<0, 0>> \in Int \X Int
    OBVIOUS
  <2>3. a \in Trend
    BY <2>1, <2>2 DEF Trend
  <2> QED BY <2>1, <2>3 DEF LastFit
<1>2. CASE tr # None
  <2>1. /\ tr = [live |-> tr.live, last |-> tr.last, now |-> tr.now, type |-> tr.type, shift |-> tr.shift]
        /\ tr.now = LastFit(f) /\ (f # <<>> => ShiftsOf(tr, f)) /\ tr \in Trend
    BY <1>2 DEF TrendOf, Trend
  <2>2. a = [live |-> FALSE, last |-> tr.now, now |-> tr.now, type |-> tr.type, shift |-> tr.shift]
    BY <1>2, <2>1 DEF Aged
  <2>3. a \in Trend
    BY <2>1, <2>2 DEF Trend
  <2> QED BY <2>1, <2>2, <2>3 DEF ShiftsOf
<1> QED BY <1>1, <1>2

LEMMA TrendingIs ==
  ASSUME NEW v \in Int
  PROVE  Trending(v) \in Types \cup {None} /\ (Trending(v) # None <=> Size(v) > Threshold)
<1>1. "Sell" # None /\ "Buy" # None
  BY NoneAssumption DEF Types
<1>2. Size(v) \in Nat
  BY DEF Size
<1> QED BY <1>1, <1>2, BoundsAssumption DEF Trending, Types

LEMMA ShiftingIs ==
  ASSUME NEW v \in Int, NEW before \in Int
  PROVE  /\ Shifting(v, before) \in Types \cup {None}
         /\ Shifting(v, before) # None <=> v * before < 0 /\ Size(v) > Threshold
BY TrendingIs DEF Shifting

\* The trend a fit gives.
Refitted(a, fit) ==
  [a EXCEPT !.live = TRUE, !.now = fit,
            !.type = [i \in 1 .. 2 |-> Trending(fit[i])],
            !.shift = [i \in 1 .. 2 |-> Shifting(fit[i], a.last[i])]]

LEMMA RefittedOK ==
  ASSUME NEW a \in Trend, NEW f \in Seq(Int \X Int), a.last = LastFit(f), NEW fit \in Int \X Int,
         NEW b, b = Refitted(a, fit)
  PROVE  b \in Trend /\ TrendOf(b, Append(f, fit))
<1> PICK ty, sh : /\ ty = [i \in 1 .. 2 |-> Trending(fit[i])]
                  /\ sh = [i \in 1 .. 2 |-> Shifting(fit[i], a.last[i])]
  OBVIOUS
<1>1. a = [live |-> a.live, last |-> a.last, now |-> a.now, type |-> a.type, shift |-> a.shift]
      /\ a.last \in Int \X Int
  BY DEF Trend
<1>2. b = [live |-> TRUE, last |-> a.last, now |-> fit, type |-> ty, shift |-> sh]
  BY <1>1 DEF Refitted
<1>3. \A i \in 1 .. 2 : fit[i] \in Int /\ a.last[i] \in Int
  BY <1>1
<1>4. ty \in Seq(Types \cup {None})
  <2>1. \A i \in 1 .. 2 : Trending(fit[i]) \in Types \cup {None}
    BY <1>3, TrendingIs
  <2> QED BY <2>1
<1>5. sh \in Seq(Types \cup {None})
  <2>1. \A i \in 1 .. 2 : Shifting(fit[i], a.last[i]) \in Types \cup {None}
    BY <1>3, ShiftingIs
  <2> QED BY <2>1
<1>6. b \in Trend
  BY <1>1, <1>2, <1>4, <1>5 DEF Trend
<1> PICK g : g = Append(f, fit)
  OBVIOUS
<1>7. /\ g \in Seq(Int \X Int) /\ g # <<>> /\ Len(g) = Len(f) + 1 /\ g[Len(g)] = fit
      /\ (f # <<>> => g[Len(g) - 1] = f[Len(f)]) /\ Len(f) \in Nat /\ (f = <<>> <=> Len(f) = 0)
  OBVIOUS
<1>8. ShiftsOf(b, g)
  <2> SUFFICES ASSUME NEW i \in 1 .. 2
               PROVE  b.shift[i] # None <=> /\ Len(g) > 1 /\ g[Len(g)][i] * g[Len(g) - 1][i] < 0
                                            /\ Size(g[Len(g)][i]) > Threshold
    BY DEF ShiftsOf
  <2> PICK v \in Int, y \in Int : v = fit[i] /\ y = a.last[i]
    BY <1>3
  <2>1. b.shift[i] # None <=> v * y < 0 /\ Size(v) > Threshold
    <3>1. b.shift[i] = Shifting(v, y)
      BY <1>2
    <3>2. Shifting(v, y) # None <=> v * y < 0 /\ Size(v) > Threshold
      BY ONLY ShiftingIs, v \in Int, y \in Int
    <3> QED BY ONLY <3>1, <3>2
  <2>2. CASE f = <<>>
    <3>1. y = 0 /\ ~(Len(g) > 1)
      BY <1>7, <2>2 DEF LastFit
    <3>2. ~(v * y < 0)
      BY <3>1
    <3> QED BY <2>1, <3>1, <3>2
  <2>3. CASE f # <<>>
    <3>1. g[Len(g) - 1][i] = y /\ Len(g) > 1 /\ g[Len(g)][i] = v
      BY <1>7, <2>3 DEF LastFit
    <3> QED BY <2>1, <3>1
  <2> QED BY <2>2, <2>3
<1>9. b.now = LastFit(g) /\ b # None
  <2>1. b # None
    BY <1>6, NoneAssumption
  <2> QED BY <1>2, <1>7, <2>1 DEF LastFit
<1>10. TrendOf(b, g)
  BY <1>6, <1>7, <1>8, <1>9 DEF TrendOf
<1> QED BY <1>6, <1>10

-----------------------------------------------------------------------------
(* The position and what it saw.                                           *)

PositionOK(p, t, f) ==
  p \in Position /\ HistoryOf(p.history, t) /\ TicksOK(t) /\ TrendOf(p.trend, f)

PositionInv ==
  position # None =>
    /\ PositionOK(position, ticks, fits)
    /\ ticks # <<>> => last # None /\ \A k \in 1 .. Len(ticks) : ticks[k].time <= last.time

LEMMA OpenPositionOK ==
  ASSUME NEW t \in Types, NEW price \in Nat
  PROVE  PositionOK(OpenPosition(t, price), <<>>, <<>>)
<1> PICK p : p = OpenPosition(t, price)
  OBVIOUS
<1>1. p = [type |-> t, open |-> price, pnl |-> 0, history |-> NewProfit, trend |-> None]
  BY DEF OpenPosition
<1>2. HistoryOf(p.history, <<>>)
  BY <1>1, NewHistoryOK
<1>3. p.history \in [window : Window, ring : Ring]
  BY <1>2 DEF HistoryOf, WindowOf
<1>4. p \in Position
  BY <1>1, <1>3 DEF Position
<1>5. TrendOf(p.trend, <<>>)
  BY <1>1 DEF TrendOf
<1>6. TicksOK(<<>>)
  <2>1. <<>> \in Seq(Tick) /\ Len(<<>>) = 0
    OBVIOUS
  <2> QED BY <2>1 DEF TicksOK
<1>7. PositionOK(p, <<>>, <<>>)
  BY <1>2, <1>4, <1>5, <1>6 DEF PositionOK
<1> QED BY <1>7

LEMMA PnLTyped ==
  ASSUME NEW p \in Position, NEW price \in Nat
  PROVE  PnL(p, price) \in Int
<1> PICK side \in Int, open \in Nat : side = Side(p.type) /\ open = p.open
  BY DEF Side, Position
<1>1. 1000 * side * (price - open) \in Int /\ Fee * open \in Int
  BY BoundsAssumption
<1> QED BY <1>1 DEF PnL

\* What a signal makes of a position.
UpdatedOK(q, p, s, fit, t, f) ==
  /\ PositionOK(q, Append(t, [time |-> s.time, pnl |-> q.pnl]),
                IF Fitted(p, s.time) THEN Append(f, fit) ELSE f)
  /\ q.type = p.type /\ q.open = p.open /\ q.trend \in Trend /\ q.pnl \in Int
  /\ q.trend.live => Fitted(p, s.time)
  /\ q.history = HistoryPush(p.history, s.time, Duration, q.pnl)
  /\ HistoryCloses(p.history, s.time, Duration) =>
       \A k \in 1 .. Len(t) : IndexOf(t[k]) < s.time \div Duration

LEMMA UpdateOK ==
  ASSUME NEW p, NEW t, NEW f, PositionOK(p, t, f), NEW s \in Signal, Duration <= s.time,
         \A k \in 1 .. Len(t) : t[k].time <= s.time, NEW fit \in Curves,
         NEW q, q = Update(p, s, fit)
  PROVE  UpdatedOK(q, p, s, fit, t, f)
<1>1. /\ p = [type |-> p.type, open |-> p.open, pnl |-> p.pnl, trend |-> p.trend, history |-> p.history]
      /\ p.type \in Types /\ p.open \in Nat /\ p \in Position /\ s.max \in Nat /\ s.time \in Nat
  BY DEF PositionOK, Position, Signal
<1> PICK v \in Int : v = PnL(p, s.max)
  BY <1>1, PnLTyped
<1> PICK a : a = Aged(p.trend)
  OBVIOUS
<1> PICK h : h = HistoryPush(p.history, s.time, Duration, v)
  OBVIOUS
<1> PICK tr : tr = IF Fitted(p, s.time) THEN Refitted(a, fit) ELSE a
  OBVIOUS
<1>2. q = [type |-> p.type, open |-> p.open, pnl |-> v, trend |-> tr, history |-> h]
  BY <1>1 DEF Update, Refitted
<1> PICK x : x = [time |-> s.time, pnl |-> v]
  OBVIOUS
<1>3. x \in Tick /\ x.time = s.time /\ x.pnl = v /\ Duration <= x.time
      /\ (\A k \in 1 .. Len(t) : t[k].time <= x.time)
  BY <1>1 DEF Tick
<1>4. TicksOK(t) /\ HistoryOf(p.history, t) /\ TrendOf(p.trend, f)
  BY DEF PositionOK
<1>5. /\ HistoryOf(h, Append(t, x))
      /\ HistoryCloses(p.history, s.time, Duration) => \A k \in 1 .. Len(t) : IndexOf(t[k]) < IndexOf(x)
  <2>1. h = HistoryPush(p.history, x.time, Duration, x.pnl)
    BY <1>3
  <2> QED BY <1>3, <1>4, <2>1, HistoryGrows
<1>6. TicksOK(Append(t, x))
  BY <1>3, <1>4, TicksGrow
<1>7. /\ a \in Trend /\ a.live = FALSE /\ a.last = LastFit(f) /\ a.now = LastFit(f)
      /\ (f # <<>> => ShiftsOf(a, f)) /\ f \in Seq(Int \X Int)
  <2>1. /\ a \in Trend /\ a.live = FALSE /\ a.now = LastFit(f) /\ a.last = LastFit(f)
        /\ f # <<>> => ShiftsOf(a, f)
    BY ONLY <1>4, a = Aged(p.trend), AgedOK
  <2>2. f \in Seq(Int \X Int)
    BY ONLY <1>4 DEF TrendOf
  <2> QED BY ONLY <2>1, <2>2
<1>8. /\ tr \in Trend /\ (tr.live => Fitted(p, s.time))
      /\ TrendOf(tr, IF Fitted(p, s.time) THEN Append(f, fit) ELSE f)
  <2>1. CASE Fitted(p, s.time)
    <3>1. fit \in Int \X Int
      BY BoundsAssumption
    <3>2. tr = Refitted(a, fit)
      BY <2>1
    <3>3. tr \in Trend /\ TrendOf(tr, Append(f, fit))
      BY <1>7, <3>1, <3>2, RefittedOK
    <3> QED BY <2>1, <3>3
  <2>2. CASE ~Fitted(p, s.time)
    <3>1. tr = a /\ a # None
      BY <1>7, <2>2, NoneAssumption
    <3>2. TrendOf(tr, f)
      BY <1>7, <3>1 DEF TrendOf
    <3> QED BY <1>7, <2>2, <3>1, <3>2
  <2> QED BY <2>1, <2>2
<1>9. q \in Position
  <2>1. h \in [window : Window, ring : Ring]
    BY <1>5 DEF HistoryOf, WindowOf
  <2> QED BY <1>1, <1>2, <1>8, <2>1 DEF Position
<1>10. PositionOK(q, Append(t, x), IF Fitted(p, s.time) THEN Append(f, fit) ELSE f)
  BY <1>2, <1>5, <1>6, <1>8, <1>9 DEF PositionOK
<1>11. /\ q.pnl = v /\ x = [time |-> s.time, pnl |-> q.pnl] /\ q.history = h /\ q.trend = tr
       /\ q.type = p.type /\ q.open = p.open /\ IndexOf(x) = s.time \div Duration
  BY <1>2, <1>3 DEF IndexOf
<1> QED BY <1>5, <1>8, <1>10, <1>11 DEF UpdatedOK

\* A signal that finds a position.
LEMMA SeenOK ==
  ASSUME FeedInv, SignalsInv, PositionInv, position # None, NEW s, NEW fit \in Curves,
         Gives(s, fit), NEW q, q = Update(position, s, fit)
  PROVE  /\ UpdatedOK(q, position, s, fit, ticks, fits)
         /\ ticks' = Append(ticks, [time |-> s.time, pnl |-> q.pnl])
         /\ fits' = IF Fitted(position, s.time) THEN Append(fits, fit) ELSE fits
         /\ IF AssessTrend(q) THEN position' = None ELSE position' = q
<1>1. s \in Signal /\ Duration <= s.time /\ (last # None => last.time <= s.time) /\ Deliver(s, fit)
  BY DEF Gives, Timely
<1>2. PositionOK(position, ticks, fits)
  BY DEF PositionInv
<1>3. \A k \in 1 .. Len(ticks) : ticks[k].time <= s.time
  <2> SUFFICES ASSUME NEW k \in 1 .. Len(ticks) PROVE ticks[k].time <= s.time
    OBVIOUS
  <2>1. ticks \in Seq(Tick) /\ ticks # <<>>
    BY <1>2 DEF PositionOK, TicksOK
  <2>2. ticks[k] \in Tick
    BY <2>1
  <2>3. last # None /\ ticks[k].time <= last.time /\ last.time <= s.time
    BY <1>1, <2>1 DEF PositionInv
  <2>4. ticks[k].time \in Nat /\ last.time \in Nat /\ s.time \in Nat
    BY <1>1, <2>2, <2>3 DEF Tick, Signal, SignalsInv
  <2> QED BY <2>3, <2>4
<1>4. UpdatedOK(q, position, s, fit, ticks, fits)
  BY <1>1, <1>2, <1>3, UpdateOK
<1> QED BY <1>1, <1>4 DEF Deliver

LEMMA PositionGiven ==
  ASSUME FeedInv, SignalsInv, PositionInv, NEW s, NEW fit \in Curves, Gives(s, fit)
  PROVE  PositionInv'
<1>1. CASE position' = None
  BY <1>1 DEF PositionInv
<1>2. CASE position' # None
  <2>1. position # None
    BY <1>2 DEF Gives, Deliver
  <2> PICK q : q = Update(position, s, fit)
    OBVIOUS
  <2>2. /\ UpdatedOK(q, position, s, fit, ticks, fits)
        /\ ticks' = Append(ticks, [time |-> s.time, pnl |-> q.pnl])
        /\ fits' = IF Fitted(position, s.time) THEN Append(fits, fit) ELSE fits
        /\ position' = q
    BY <1>2, <2>1, SeenOK
  <2>3. PositionOK(position', ticks', fits')
    BY <2>2 DEF UpdatedOK
  <2>4. last' \in Signal /\ last'.time = s.time
    BY DEF Gives
  <2>5. last' # None
    BY <2>4, NoneIsNone
  <2>6. TicksOK(ticks') /\ ticks \in Seq(Tick)
    BY <2>1, <2>3 DEF PositionOK, PositionInv, TicksOK
  <2> PICK y \in Seq(Tick) : y = ticks'
    BY <2>6 DEF TicksOK
  <2>7. /\ Len(y) \in 1 .. Len(y) /\ y[Len(y)] = [time |-> s.time, pnl |-> q.pnl]
    BY <2>2, <2>6
  <2>8. \A k \in 1 .. Len(y) : k <= Len(y) /\ y[k].time <= y[Len(y)].time
    BY <2>6, <2>7 DEF TicksOK
  <2>9. \A k \in 1 .. Len(ticks') : ticks'[k].time <= last'.time
    BY <2>4, <2>7, <2>8
  <2> QED BY <2>3, <2>5, <2>9 DEF PositionInv
<1> QED BY <1>1, <1>2

LEMMA PositionFlushed ==
  ASSUME FeedInv, SignalsInv, PositionInv, NEW fit \in Curves, Flushed(fit)
  PROVE  PositionInv'
<1>1. CASE Idles
  BY <1>1 DEF Idles, PositionInv
<1> QED BY <1>1, FlushGives, PositionGiven

LEMMA PositionStep ==
  ASSUME FeedInv, SignalsInv, PositionInv, [Next]_vars
  PROVE  PositionInv'
<1>1. CASE UNCHANGED <<last, position, ticks, fits>>
  BY <1>1 DEF PositionInv
<1>2. ASSUME NEW p, NEW dt, Trade(p, dt) PROVE UNCHANGED <<last, position, ticks, fits>>
  BY <1>2 DEF Trade
<1>3. ASSUME NEW fit \in Curves, Flush(fit) PROVE PositionInv'
  BY <1>3, PositionFlushed DEF Flush
<1>4. ASSUME NEW p, NEW dt, NEW fit \in Curves, LateTrade(p, dt, fit) PROVE PositionInv'
  BY <1>4, PositionFlushed DEF LateTrade
<1>5. ASSUME NEW t \in Types, Strategy(t) PROVE PositionInv'
  <2>1. /\ position' = OpenPosition(t, signal.price) /\ ticks' = <<>> /\ fits' = <<>>
        /\ signal \in Signal
    BY <1>5 DEF Strategy, SignalsInv
  <2>2. signal.price \in Nat
    BY <2>1 DEF Signal
  <2>3. PositionOK(position', ticks', fits')
    BY <2>1, <2>2, OpenPositionOK
  <2> QED BY <2>1, <2>3 DEF PositionInv
<1> QED BY <1>1, <1>2, <1>3, <1>4, <1>5 DEF Next, vars

LEMMA PositionStart == Init => PositionInv
BY DEF Init, PositionInv

\* The history of a position says of two fits that follow each other whether
\* the direction changed, however many signals came in between and whatever
\* they were: the value before is handed on by every signal and only used when
\* a bucket closes.
THEOREM ShiftsAreSwitches == Spec => []ShiftIsSwitch
<1>1. PositionInv => ShiftIsSwitch
  <2> SUFFICES ASSUME PositionInv, position # None, fits # <<>>
               PROVE  ShiftsOf(position.trend, fits)
    BY DEF ShiftIsSwitch, ShiftsOf
  <2> QED BY DEF PositionInv, PositionOK, TrendOf
<1>2. Init => FeedInv /\ SignalsInv /\ PositionInv
  BY FeedStart, PositionStart
<1>3. FeedInv /\ SignalsInv /\ PositionInv /\ [Next]_vars => (FeedInv /\ SignalsInv /\ PositionInv)'
  BY FeedStep, PositionStep
<1> QED BY <1>1, <1>2, <1>3, PTL DEF Spec

-----------------------------------------------------------------------------
(* The points of a history are the newest buckets of time with results.    *)

\* The n values of d are those of I with at most k greater ones.
AreLast(d, n, I, k) ==
  {d[m] : m \in 1 .. n} = {i \in I : Cardinality({j \in I : j > i}) <= k}

\* Of a finite set of numbers, those with at most k greater ones are the last.
LEMMA Ranked ==
  ASSUME NEW n \in Nat, NEW d \in [1 .. n -> Nat], \A l, m \in 1 .. n : l < m => d[l] < d[m],
         NEW I, IsFiniteSet(I), I \subseteq Nat, \A m \in 1 .. n : d[m] \in I,
         NEW k \in Nat, n <= k + 1,
         \A i \in I : (\E m \in 1 .. n : d[m] = i) \/ (n = k + 1 /\ \A m \in 1 .. n : d[m] > i)
  PROVE  AreLast(d, n, I, k)
<1>1. ASSUME NEW i \in I
      PROVE  IsFiniteSet({j \in I : j > i}) /\ Cardinality({j \in I : j > i}) \in Nat
  <2>1. {j \in I : j > i} \in SUBSET I
    OBVIOUS
  <2> QED BY <2>1, FS_Subset, FS_CardinalityType
<1>2. ASSUME NEW m \in 1 .. n
      PROVE  Cardinality({j \in I : j > d[m]}) <= k
  <2> PICK J : J = {j \in I : j > d[m]}
    OBVIOUS
  <2> PICK T : T = m + 1 .. n
    OBVIOUS
  <2>1. IsFiniteSet(J) /\ Cardinality(J) \in Nat
    BY <1>1
  <2>2. IsFiniteSet(T) /\ Cardinality(T) \in Nat /\ Cardinality(T) <= k
    <3>1. m + 1 \in Int /\ n \in Int
      OBVIOUS
    <3>2. IsFiniteSet(T) /\ Cardinality(T) = IF m + 1 > n THEN 0 ELSE n - (m + 1) + 1
      BY <3>1, FS_Interval
    <3> QED BY <3>2
  <2>3. ASSUME NEW j \in J PROVE \E o \in T : d[o] = j
    <3>1. j \in I /\ j > d[m] /\ j \in Nat /\ d[m] \in Nat
      OBVIOUS
    <3>2. ~(\A o \in 1 .. n : d[o] > j)
      BY <3>1
    <3>3. PICK o \in 1 .. n : d[o] = j
      BY <3>1, <3>2
    <3>4. m < o
      <4>1. ~(o < m) /\ o # m
        BY <3>1, <3>3
      <4> QED BY <4>1
    <3> QED BY <3>3, <3>4
  <2> PICK f : f = [j \in J |-> CHOOSE o \in T : d[o] = j]
    OBVIOUS
  <2>4. f \in [J -> T] /\ \A j \in J : d[f[j]] = j
    BY <2>3
  <2>5. \A x, y \in J : x # y => f[x] # f[y]
    BY <2>4
  <2>6. ~(Cardinality(T) < Cardinality(J))
    <3>1. SUFFICES ASSUME Cardinality(T) < Cardinality(J) PROVE FALSE
      OBVIOUS
    <3>2. IsFiniteSet(J) /\ IsFiniteSet(T) /\ f \in [J -> T]
      BY <2>1, <2>2, <2>4
    <3>3. \E x, y \in J : x # y /\ f[x] = f[y]
      BY ONLY <3>1, <3>2, FS_PigeonHole
    <3> QED BY <2>5, <3>3
  <2> QED BY <2>1, <2>2, <2>6
<1>3. ASSUME NEW i \in I, Cardinality({j \in I : j > i}) <= k
      PROVE  \E m \in 1 .. n : d[m] = i
  <2>1. SUFFICES ASSUME n = k + 1, \A m \in 1 .. n : d[m] > i PROVE FALSE
    OBVIOUS
  <2> PICK J : J = {j \in I : j > i}
    OBVIOUS
  <2>2. IsFiniteSet(J) /\ Cardinality(J) \in Nat /\ Cardinality(J) <= k
    BY <1>1, <1>3
  <2>3. d \in [1 .. n -> J]
    BY <2>1
  <2>4. IsFiniteSet(1 .. n) /\ Cardinality(1 .. n) = n
    <3>1. 1 \in Int /\ n \in Int /\ ~(1 > n)
      BY <2>1
    <3>2. IsFiniteSet(1 .. n) /\ Cardinality(1 .. n) = IF 1 > n THEN 0 ELSE n - 1 + 1
      BY <3>1, FS_Interval
    <3> QED BY <3>1, <3>2
  <2>5. Cardinality(J) < Cardinality(1 .. n)
    BY <2>1, <2>2, <2>4
  <2>6. PICK x \in 1 .. n, y \in 1 .. n : x # y /\ d[x] = d[y]
    BY <2>2, <2>3, <2>4, <2>5, FS_PigeonHole
  <2>7. d[x] \in Nat /\ d[y] \in Nat /\ (x < y \/ y < x)
    BY <2>6
  <2> QED BY <2>6, <2>7
<1> QED BY <1>2, <1>3 DEF AreLast

\* The indices of results.
IndicesOf(t) == {IndexOf(t[k]) : k \in 1 .. Len(t)}

LEMMA IndicesFinite ==
  ASSUME NEW t, TicksOK(t)
  PROVE  /\ {x.time \div Duration : x \in ToSet(t)} = IndicesOf(t)
         /\ IndicesOf(t) \subseteq Nat
         /\ \A w : WindowOf(w, t) => IsFiniteSet(IndicesOf(t))
<1>1. t \in Seq(Tick) /\ DOMAIN t = 1 .. Len(t)
  BY DEF TicksOK
<1>2. {x.time \div Duration : x \in ToSet(t)} = IndicesOf(t)
  BY <1>1 DEF ToSet, IndicesOf, IndexOf
<1>3. ASSUME NEW k \in 1 .. Len(t) PROVE IndexOf(t[k]) \in Nat
  <2>1. t[k] \in Tick
    BY <1>1
  <2> PICK z \in Nat : z = t[k].time
    BY <2>1 DEF Tick
  <2>2. z <= z
    OBVIOUS
  <2>3. z \div Duration \in Nat
    BY <2>2, Later
  <2> QED BY <2>3 DEF IndexOf
<1>4. IndicesOf(t) \in SUBSET Nat
  BY <1>3 DEF IndicesOf
<1>5. ASSUME NEW w, WindowOf(w, t) PROVE IsFiniteSet(IndicesOf(t))
  <2> PICK n \in Nat : n = w.bucket.index
    BY <1>5 DEF WindowOf, Shows, Bucket
  <2>1. \A i \in IndicesOf(t) : i <= n
    BY <1>5 DEF WindowOf, IndicesOf
  <2> QED BY <1>4, <2>1, FS_BoundedSetOfNaturals
<1> QED BY <1>2, <1>4, <1>5

\* The points of a history that saw something.
PointsOf(q, t) ==
  /\ q \in Seq(Bucket) /\ Len(q) \in Nat /\ Len(q) <= Samples + 1
  /\ \A m \in 1 .. Len(q) : Shows(q[m], t) /\ q[m].index \in IndicesOf(t)
  /\ \A l, m \in 1 .. Len(q) : l < m => q[l].index < q[m].index
  /\ \A i \in IndicesOf(t) :
       \/ \E m \in 1 .. Len(q) : q[m].index = i
       \/ Len(q) = Samples + 1 /\ \A m \in 1 .. Len(q) : q[m].index > i

PointShown(b) == [index |-> b.index, count |-> Count(b.stats), sum |-> b.stats[1].sum]

LEMMA HistoryPoints ==
  ASSUME NEW t, TicksOK(t), t # <<>>, NEW h, HistoryOf(h, t)
  PROVE  PointsOf(Points(h), t)
<1> PICK w, r : w = h.window /\ r = RingGet(h.ring)
  OBVIOUS
<1>1. /\ WindowOf(w, t) /\ RingOf(r, w, t) /\ r \in Seq(Bucket) /\ Len(r) <= Samples
      /\ t \in Seq(Tick) /\ Samples \in Nat \ {0} /\ Len(t) \in 1 .. Len(t)
  BY BoundsAssumption DEF HistoryOf, RingOf, TicksOK
<1> PICK b \in Bucket : b = w.bucket
  BY <1>1 DEF WindowOf, Shows
<1>2. Shows(b, t) /\ b.index = IndexOf(t[Len(t)]) /\ b.index \in Nat
  BY <1>1 DEF WindowOf, Bucket
<1> PICK q : q = Append(r, b)
  OBVIOUS
<1>3. /\ q = Points(h) /\ q \in Seq(Bucket) /\ Len(q) = Len(r) + 1 /\ q[Len(q)] = b /\ Len(r) \in Nat
      /\ \A m \in 1 .. Len(r) : q[m] = r[m]
  BY <1>1 DEF Points
<1>4. \A m \in 1 .. Len(q) : m = Len(q) \/ m \in 1 .. Len(r)
  BY <1>3
<1>5. \A m \in 1 .. Len(r) : /\ Shows(r[m], t) /\ r[m].index < b.index
                             /\ r[m].index \in IndicesOf(t)
  BY <1>1 DEF RingOf, IndicesOf
<1>6. b.index \in IndicesOf(t)
  BY <1>1, <1>2 DEF IndicesOf
<1>7. \A m \in 1 .. Len(q) : Shows(q[m], t) /\ q[m].index \in IndicesOf(t)
  BY <1>2, <1>3, <1>4, <1>5, <1>6
<1>8. ASSUME NEW l \in 1 .. Len(q), NEW m \in 1 .. Len(q), l < m PROVE q[l].index < q[m].index
  <2>1. l \in 1 .. Len(r) /\ q[l] = r[l]
    BY <1>3, <1>4, <1>8
  <2>2. CASE m = Len(q)
    BY <1>3, <1>5, <2>1, <2>2
  <2>3. CASE m \in 1 .. Len(r)
    BY <1>1, <1>3, <1>8, <2>1, <2>3 DEF RingOf
  <2> QED BY <1>4, <2>2, <2>3
<1>9. ASSUME NEW i \in IndicesOf(t)
      PROVE  \/ \E m \in 1 .. Len(q) : q[m].index = i
             \/ Len(q) = Samples + 1 /\ \A m \in 1 .. Len(q) : q[m].index > i
  <2>1. PICK k \in 1 .. Len(t) : i = IndexOf(t[k])
    BY DEF IndicesOf
  <2>2. i \in Nat
    BY IndicesFinite
  <2>3. \/ i = b.index
        \/ \E m \in 1 .. Len(r) : r[m].index = i
        \/ Len(r) = Samples /\ \A m \in 1 .. Len(r) : r[m].index > i
    BY <1>1, <2>1 DEF RingOf
  <2>4. CASE i = b.index
    <3>1. Len(q) \in 1 .. Len(q)
      BY <1>3
    <3> QED BY <1>3, <2>4, <3>1
  <2>5. CASE \E m \in 1 .. Len(r) : r[m].index = i
    BY <1>3, <2>5
  <2>6. CASE Len(r) = Samples /\ \A m \in 1 .. Len(r) : r[m].index > i
    <3>1. 1 \in 1 .. Len(r)
      BY <1>1, <2>6
    <3>2. r[1].index > i /\ r[1].index < b.index /\ r[1].index \in Nat
      BY <1>5, <2>6, <3>1 DEF Shows, Bucket
    <3>3. b.index > i
      BY <1>2, <2>2, <3>2
    <3> QED BY <1>3, <1>4, <2>6, <3>3
  <2> QED BY <2>3, <2>4, <2>5, <2>6
<1>10. PointsOf(q, t)
  BY <1>1, <1>3, <1>7, <1>8, <1>9 DEF PointsOf
<1> QED BY <1>3, <1>10

\* The history a position keeps in two windows and a ring is what it saw: the
\* counts and sums of its buckets are those of the results in their time, none
\* is missing between them, and only buckets beyond the last Samples are gone.
THEOREM HistoriesAreExact == Spec => []PointsAreHistory
<1>1. PositionInv => PointsAreHistory
  <2> SUFFICES ASSUME PositionInv, position # None, ticks # <<>> PROVE PointsAreHistory
    BY DEF PointsAreHistory
  <2> PICK h, q : h = position.history /\ q = Points(h)
    OBVIOUS
  <2>1. HistoryOf(h, ticks) /\ TicksOK(ticks) /\ WindowOf(h.window, ticks) /\ ticks \in Seq(Tick)
    BY DEF PositionInv, PositionOK, HistoryOf, TicksOK
  <2>2. PointsOf(q, ticks)
    BY <2>1, HistoryPoints
  <2>3. Indices = IndicesOf(ticks) /\ IndicesOf(ticks) \subseteq Nat /\ IsFiniteSet(IndicesOf(ticks))
    BY <2>1, IndicesFinite DEF Indices
  <2> PICK n \in Nat : n = Len(q)
    BY <2>2 DEF PointsOf
  <2> PICK d : d = [m \in 1 .. n |-> q[m].index]
    OBVIOUS
  <2>4. d \in [1 .. n -> Nat] /\ \A m \in 1 .. n : d[m] \in IndicesOf(ticks)
    BY <2>2, <2>3 DEF PointsOf
  <2>5. \A l, m \in 1 .. n : l < m => d[l] < d[m]
    BY <2>2 DEF PointsOf
  <2>6. \A i \in IndicesOf(ticks) : \/ \E m \in 1 .. n : d[m] = i
                                    \/ n = Samples + 1 /\ \A m \in 1 .. n : d[m] > i
    BY <2>2 DEF PointsOf
  <2> PICK I : I = IndicesOf(ticks)
    OBVIOUS
  <2>7. n <= Samples + 1 /\ Samples \in Nat
    BY <2>2, BoundsAssumption DEF PointsOf
  <2>8. AreLast(d, n, I, Samples)
    <3>1. IsFiniteSet(I) /\ I \subseteq Nat
      BY <2>3
    <3>2. /\ \A m \in 1 .. n : d[m] \in I
          /\ \A i \in I : \/ \E m \in 1 .. n : d[m] = i
                          \/ n = Samples + 1 /\ \A m \in 1 .. n : d[m] > i
      BY <2>4, <2>6
    <3>3. d \in [1 .. n -> Nat]
      BY <2>4
    <3> QED BY ONLY n \in Nat, <2>5, <2>7, <3>1, <3>2, <3>3, Ranked
  <2> PICK newest : newest = {i \in Indices : Cardinality({j \in Indices : j > i}) <= Samples}
    OBVIOUS
  <2>9. {q[m].index : m \in 1 .. n} = newest
    <3>1. {d[m] : m \in 1 .. n} = newest
      BY <2>3, <2>8 DEF AreLast
    <3>2. \A m \in 1 .. n : d[m] = q[m].index
      OBVIOUS
    <3> QED BY ONLY <3>1, <3>2
  <2>10. ASSUME NEW i PROVE PointOf(i) = PointIn(ticks, i)
    <3>1. SeenAt(ticks, i) = {k \in DOMAIN ticks : ticks[k].time \div Duration = i}
      BY DEF SeenAt, IndexOf
    <3>2. Amounts(ticks, i) = [k \in DOMAIN ticks |-> IF k \in SeenAt(ticks, i) THEN ticks[k].pnl ELSE 0]
      BY DEF Amounts
    <3> QED BY <3>1, <3>2 DEF PointOf, PointIn
  <2>11. \A m \in 1 .. n : PointShown(q[m]) = PointOf(q[m].index)
    BY <2>2, <2>10 DEF PointsOf, Shows, Count, PointIn, PointShown
  <2>12. ToSet(q) = {q[m] : m \in 1 .. n} /\ DOMAIN q = 1 .. n
    BY <2>2 DEF ToSet, PointsOf
  <2>13. {PointShown(b) : b \in ToSet(q)} = {PointOf(i) : i \in newest}
    <3>1. ASSUME NEW b \in ToSet(q) PROVE \E i \in newest : PointShown(b) = PointOf(i)
      <4>1. PICK m \in 1 .. n : b = q[m]
        BY <2>12
      <4> QED BY <2>9, <2>11, <4>1
    <3>2. ASSUME NEW i \in newest PROVE \E b \in ToSet(q) : PointShown(b) = PointOf(i)
      <4>1. PICK m \in 1 .. n : i = q[m].index
        BY <2>9
      <4> QED BY <2>11, <2>12, <4>1
    <3> QED BY ONLY <3>1, <3>2
  <2>14. {[index |-> b.index, count |-> Count(b.stats), sum |-> b.stats[1].sum] : b \in ToSet(q)}
           = {PointOf(i) : i \in newest}
    BY <2>13 DEF PointShown
  <2>15. \A l, m \in DOMAIN q : l < m => q[l].index < q[m].index
    BY <2>2, <2>12 DEF PointsOf
  <2> QED BY <2>14, <2>15 DEF PointsAreHistory
<1>2. Init => FeedInv /\ SignalsInv /\ PositionInv
  BY FeedStart, PositionStart
<1>3. FeedInv /\ SignalsInv /\ PositionInv /\ [Next]_vars => (FeedInv /\ SignalsInv /\ PositionInv)'
  BY FeedStep, PositionStep
<1> QED BY <1>1, <1>2, <1>3, PTL DEF Spec

\* What a signal that closes a position finds.
LEMMA ClosedFresh ==
  ASSUME FeedInv, SignalsInv, PositionInv, position # None, NEW s, NEW fit \in Curves,
         Gives(s, fit), position' = None
  PROVE  /\ Cardinality({t.time \div Duration : t \in ToSet(ticks')}) >= 3
         /\ Fitted(position, signal'.time)
         /\ signal'.time \div Duration \notin Indices
<1> PICK q : q = Update(position, s, fit)
  OBVIOUS
<1>1. /\ UpdatedOK(q, position, s, fit, ticks, fits)
      /\ ticks' = Append(ticks, [time |-> s.time, pnl |-> q.pnl])
      /\ IF AssessTrend(q) THEN position' = None ELSE position' = q
  BY SeenOK
<1>2. signal' = s
  BY DEF Gives, Deliver
<1> PICK t : t = Append(ticks, [time |-> s.time, pnl |-> q.pnl])
  OBVIOUS
<1>3. HistoryOf(q.history, t) /\ TicksOK(t) /\ q \in Position
  BY <1>1 DEF UpdatedOK, PositionOK
<1>4. q.trend.live
  <2>1. AssessTrend(q)
    BY <1>1, <1>3, NoneAssumption
  <2> QED BY <2>1 DEF AssessTrend, Assessed
<1>5. Fitted(position, s.time)
  BY <1>1, <1>4 DEF UpdatedOK
<1>6. TicksOK(ticks)
  BY DEF PositionInv, PositionOK
<1>7. s.time \div Duration \notin Indices
  <2>1. HistoryCloses(position.history, s.time, Duration)
    BY <1>5 DEF Fitted
  <2>2. \A k \in 1 .. Len(ticks) : IndexOf(ticks[k]) < s.time \div Duration
    BY <1>1, <2>1 DEF UpdatedOK
  <2>3. Indices = IndicesOf(ticks) /\ IndicesOf(ticks) \subseteq Nat
    BY <1>6, IndicesFinite DEF Indices
  <2>4. \A i \in IndicesOf(ticks) : i \in Nat /\ i < s.time \div Duration
    BY <2>2, <2>3 DEF IndicesOf
  <2> QED BY <2>3, <2>4
<1>8. t \in Seq(Tick) /\ t # <<>>
  <2>1. ticks \in Seq(Tick) /\ t \in Seq(Tick)
    BY <1>3, <1>6 DEF TicksOK
  <2> QED BY <2>1
<1> PICK z : z = Points(q.history)
  OBVIOUS
<1>9. PointsOf(z, t)
  BY <1>3, <1>8, HistoryPoints
<1>10. Len(z) >= 3
  <2> PICK g : g = HistoryPush(position.history, s.time, Duration, 0)
    OBVIOUS
  <2>1. Len(Points(g)) >= 3
    BY <1>5 DEF Fitted, Fits
  <2>2. g.ring = q.history.ring
    BY <1>1 DEF UpdatedOK, HistoryPush
  <2>3. RingGet(g.ring) \in Seq(Bucket)
    BY <1>3, <2>2 DEF HistoryOf, RingOf
  <2>4. Len(Points(g)) = Len(RingGet(g.ring)) + 1 /\ Len(z) = Len(RingGet(g.ring)) + 1
    BY <2>2, <2>3 DEF Points
  <2> QED BY <2>1, <2>4
<1>11. IsFiniteSet(IndicesOf(t)) /\ Cardinality(IndicesOf(t)) \in Nat
  BY <1>3, IndicesFinite, FS_CardinalityType DEF HistoryOf
<1> PICK a, b, c : a = z[1].index /\ b = z[2].index /\ c = z[3].index
  OBVIOUS
<1>12. {a, b, c} \subseteq IndicesOf(t) /\ a < b /\ b < c /\ a < c
  <2>1. Len(z) \in Nat /\ 1 \in 1 .. Len(z) /\ 2 \in 1 .. Len(z) /\ 3 \in 1 .. Len(z)
    BY <1>9, <1>10 DEF PointsOf
  <2> QED BY <1>9, <2>1 DEF PointsOf
<1>13. a \in Nat /\ b \in Nat /\ c \in Nat
  BY <1>3, <1>12, IndicesFinite
<1>14. Cardinality({a, b, c}) = 3
  <2> PICK A, B, C : A = {a} /\ B = A \cup {b} /\ C = B \cup {c}
    OBVIOUS
  <2>1. IsFiniteSet(A) /\ Cardinality(A) = 1
    BY FS_Singleton
  <2>2. a # b /\ b # c /\ a # c
    BY <1>12, <1>13
  <2>3. b \notin A /\ c \notin B /\ C = {a, b, c}
    BY <2>2
  <2>4. IsFiniteSet(B) /\ Cardinality(B) = 1 + 1
    BY ONLY <2>1, <2>3, FS_AddElement, B = A \cup {b}
  <2>5. Cardinality(C) = 1 + 1 + 1
    BY ONLY <2>3, <2>4, FS_AddElement, C = B \cup {c}
  <2> QED BY <2>3, <2>5
<1>15. Cardinality({a, b, c}) <= Cardinality(IndicesOf(t))
  BY <1>11, <1>12, FS_Subset
<1>16. {x.time \div Duration : x \in ToSet(ticks')} = IndicesOf(t)
  BY <1>1, <1>3, IndicesFinite
<1>17. Cardinality({x.time \div Duration : x \in ToSet(ticks')}) >= 3
  BY <1>11, <1>14, <1>15, <1>16
<1> QED BY <1>2, <1>5, <1>7, <1>17

\* A position is closed for a trend only by the signal the trend was computed
\* for: AssessTrend can not act on the trend of an earlier signal, and two
\* fits need three buckets of time, so neither does it act on a guess.
THEOREM ClosesWhenFresh == Spec => ClosesOnFreshTrend
<1> DEFINE Fresh == /\ Cardinality({t.time \div Duration : t \in ToSet(ticks')}) >= 3
                    /\ Fitted(position, signal'.time)
                    /\ signal'.time \div Duration \notin Indices
<1>1. FeedInv /\ SignalsInv /\ PositionInv /\ [Next]_vars
        => [position # None /\ position' = None => Fresh]_vars
  <2> SUFFICES ASSUME FeedInv, SignalsInv, PositionInv, Next, position # None, position' = None
               PROVE  Fresh
    OBVIOUS
  <2>1. ASSUME NEW fit \in Curves, Flushed(fit) PROVE Fresh
    <3>1. ~Idles
      BY DEF Idles
    <3>2. PICK s : Gives(s, fit)
      BY <2>1, <3>1, FlushGives
    <3> QED BY <3>2, ClosedFresh
  <2>2. ASSUME NEW t \in Types, Strategy(t) PROVE FALSE
    <3>1. position' = OpenPosition(t, signal.price) /\ signal \in Signal
      BY <2>2 DEF Strategy, SignalsInv
    <3>2. position' \in Position
      BY <3>1, OpenPositionOK DEF PositionOK, Signal
    <3> QED BY <3>2, NoneAssumption
  <2>3. ASSUME NEW p, NEW dt, Trade(p, dt) PROVE FALSE
    BY <2>3 DEF Trade
  <2> QED BY <2>1, <2>2, <2>3 DEF Next, Flush, LateTrade
<1>2. Init => FeedInv /\ SignalsInv /\ PositionInv
  BY FeedStart, PositionStart
<1>3. FeedInv /\ SignalsInv /\ PositionInv /\ [Next]_vars => (FeedInv /\ SignalsInv /\ PositionInv)'
  BY FeedStep, PositionStep
<1> QED BY <1>1, <1>2, <1>3, PTL DEF Spec, ClosesOnFreshTrend

-----------------------------------------------------------------------------
(* The local exchange and the book.                                        *)

\* An order the local exchange was sent.
Placed == [coin : {"coin"}, type : Types, otype : {"Market"}, leverage : {"L_5"},
           volume : {1}, price : Nat, ok : {TRUE}]

\* The shape of an order that is being built.
Building(o, type, otype, leverage, volume, price, ok) ==
  o = [coin |-> "coin", type |-> type, otype |-> otype, leverage |-> leverage,
       volume |-> volume, price |-> price, ok |-> ok]

LEMMA Builds ==
  ASSUME NEW type, NEW otype, NEW leverage, NEW volume, NEW price, NEW ok, ok = TRUE, NEW x,
         NEW o, Building(o, type, otype, leverage, volume, price, ok)
  PROVE  /\ type = "NoType" => Building(WithType(o, x), x, otype, leverage, volume, price, ok)
         /\ otype = "NoOrderType" => Building(WithOType(o, x), type, x, leverage, volume, price, ok)
         /\ leverage = "NoLeverage" => Building(WithLeverage(o, x), type, otype, x, volume, price, ok)
         /\ volume = 0 => Building(WithVolume(o, x), type, otype, leverage, x, price, ok)
         /\ Building([o EXCEPT !.price = x], type, otype, leverage, volume, x, ok)
         /\ otype = "Market" /\ volume = 1 /\ type # "NoType" =>
              Building(Create(o), type, otype, leverage, volume, price, ok)
<1> PICK coin : coin = "coin"
  OBVIOUS
<1>0. o = [coin |-> coin, type |-> type, otype |-> otype, leverage |-> leverage,
           volume |-> volume, price |-> price, ok |-> ok]
  BY DEF Building
<1>1. ASSUME type = "NoType", NEW p, p = WithType(o, x)
      PROVE  p = [coin |-> coin, type |-> x, otype |-> otype, leverage |-> leverage,
                  volume |-> volume, price |-> price, ok |-> ok]
  BY ONLY <1>0, <1>1, ok = TRUE DEF WithType, With
<1>2. ASSUME otype = "NoOrderType", NEW p, p = WithOType(o, x)
      PROVE  p = [coin |-> coin, type |-> type, otype |-> x, leverage |-> leverage,
                  volume |-> volume, price |-> price, ok |-> ok]
  BY ONLY <1>0, <1>2, ok = TRUE DEF WithOType, With
<1>3. ASSUME leverage = "NoLeverage", NEW p, p = WithLeverage(o, x)
      PROVE  p = [coin |-> coin, type |-> type, otype |-> otype, leverage |-> x,
                  volume |-> volume, price |-> price, ok |-> ok]
  BY ONLY <1>0, <1>3, ok = TRUE DEF WithLeverage, With
<1>4. ASSUME volume = 0, NEW p, p = WithVolume(o, x)
      PROVE  p = [coin |-> coin, type |-> type, otype |-> otype, leverage |-> leverage,
                  volume |-> x, price |-> price, ok |-> ok]
  BY ONLY <1>0, <1>4, ok = TRUE DEF WithVolume, With
<1>5. ASSUME NEW p, p = [o EXCEPT !.price = x]
      PROVE  p = [coin |-> coin, type |-> type, otype |-> otype, leverage |-> leverage,
                  volume |-> volume, price |-> x, ok |-> ok]
  BY ONLY <1>0, <1>5, ok = TRUE
<1>6. ASSUME otype = "Market", volume = 1, type # "NoType", NEW p, p = Create(o)
      PROVE  p = [coin |-> coin, type |-> type, otype |-> otype, leverage |-> leverage,
                  volume |-> volume, price |-> price, ok |-> ok]
  <2>1. /\ o.ok = ok /\ o.otype = otype /\ o.price = price /\ o.volume = volume /\ o.type = type
    BY ONLY <1>0
  <2>2. p = [o EXCEPT !.ok = /\ ok /\ otype \in Conditional \cup {"Market"}
                             /\ (otype \in Conditional => price > 0)
                             /\ volume > 0 /\ type # "NoType"]
    BY ONLY <1>6, <2>1 DEF Create
  <2> PICK y : y = /\ ok /\ otype \in Conditional \cup {"Market"}
                   /\ (otype \in Conditional => price > 0)
                   /\ volume > 0 /\ type # "NoType"
    OBVIOUS
  <2>3. y = ok
    <3>1. ok /\ otype \in Conditional \cup {"Market"}
      BY ONLY <1>6, ok = TRUE
    <3>2. (otype \in Conditional => price > 0) /\ volume > 0 /\ type # "NoType"
      BY ONLY <1>6 DEF Conditional
    <3>3. y = TRUE
      BY <3>1, <3>2, Zenon
    <3> QED BY ONLY <3>3, ok = TRUE
  <2>4. p = [o EXCEPT !.ok = y]
    BY <2>2
  <2> QED BY ONLY <1>0, <2>3, <2>4
<1> QED BY <1>1, <1>2, <1>3, <1>4, <1>5, <1>6 DEF Building

LEMMA OrderPlaced ==
  ASSUME NEW t \in Types, NEW price \in Nat
  PROVE  /\ Order(t, price) \in Placed /\ Order(t, price).type = t
         /\ Order(t, price).price = price /\ Order(t, price).volume = 1
<1> PICK yes : yes = TRUE
  OBVIOUS
<1> PICK z : z = NewOrder("coin")
  OBVIOUS
<1>0. Building(z, "NoType", "NoOrderType", "NoLeverage", 0, 0, yes)
  BY DEF NewOrder, Building
<1> PICK a : a = WithOType(z, "Market")
  OBVIOUS
<1>1. Building(a, "NoType", "Market", "NoLeverage", 0, 0, yes)
  BY <1>0, Builds
<1> PICK b : b = WithType(a, t)
  OBVIOUS
<1>2. Building(b, t, "Market", "NoLeverage", 0, 0, yes)
  BY <1>1, Builds
<1> PICK c : c = WithVolume(b, 1)
  OBVIOUS
<1>3. Building(c, t, "Market", "NoLeverage", 1, 0, yes)
  BY <1>2, Builds
<1> PICK d : d = WithLeverage(c, "L_5")
  OBVIOUS
<1>4. Building(d, t, "Market", "L_5", 1, 0, yes)
  BY <1>3, Builds
<1>5. t # "NoType"
  <2>1. t = "Buy" \/ t = "Sell"
    BY DEF Types
  <2> QED BY <2>1
<1>6. Building(Create(d), t, "Market", "L_5", 1, 0, yes)
  BY <1>4, <1>5, Builds
<1>7. Building(Order(t, price), t, "Market", "L_5", 1, price, yes)
  <2> PICK e : e = Create(d)
    OBVIOUS
  <2>1. Order(t, price) = [e EXCEPT !.price = price]
    BY DEF Order, MarketOrder
  <2>2. Building(e, t, "Market", "L_5", 1, 0, yes)
    BY <1>6
  <2>3. Building([e EXCEPT !.price = price], t, "Market", "L_5", 1, price, yes)
    BY <2>2, Builds
  <2> QED BY <2>1, <2>3
<1> PICK f : f = Order(t, price)
  OBVIOUS
<1>8. /\ f = [coin |-> "coin", type |-> t, otype |-> "Market", leverage |-> "L_5",
              volume |-> 1, price |-> price, ok |-> yes]
      /\ yes \in {TRUE}
  BY <1>7 DEF Building
<1>9. f \in Placed /\ f.type = t /\ f.price = price /\ f.volume = 1
  BY ONLY <1>8, t \in Types, price \in Nat DEF Placed
<1> QED BY <1>9

\* What an order adds to the report's wallet and to its volume.
Sign(o) == IF o.type = "Sell" THEN 1 ELSE -1
Paid(orders) == [i \in DOMAIN orders |-> Sign(orders[i]) * orders[i].price * orders[i].volume]
Sold(orders) == [i \in DOMAIN orders |-> Sign(orders[i]) * orders[i].volume]

LEMMA SumGrows ==
  ASSUME NEW a \in Seq(Int), NEW b \in Seq(Int), Len(b) = Len(a) + 1,
         \A k \in 1 .. Len(a) : b[k] = a[k], NEW y \in Int, b[Len(b)] = y
  PROVE  Total(b) = Total(a) + y
<1>1. b = Append(a, y)
  OBVIOUS
<1> QED BY <1>1, TotalAdds

LEMMA ReportAdds ==
  ASSUME NEW orders \in Seq(Placed), NEW o \in Placed
  PROVE  /\ Total(Paid(Append(orders, o))) = Total(Paid(orders)) + Sign(o) * o.price
         /\ Total(Sold(Append(orders, o))) = Total(Sold(orders)) + Sign(o)
         /\ Total(Paid(orders)) \in Int /\ Total(Sold(orders)) \in Int
<1> PICK n \in Nat : n = Len(orders)
  OBVIOUS
<1> PICK u : u = Append(orders, o)
  OBVIOUS
<1>1. /\ u \in Seq(Placed) /\ DOMAIN orders = 1 .. n /\ DOMAIN u = 1 .. n + 1 /\ u[n + 1] = o
      /\ \A k \in 1 .. n : u[k] = orders[k]
  OBVIOUS
<1>2. \A x \in Placed : /\ Sign(x) * x.price * x.volume = Sign(x) * x.price /\ Sign(x) * x.volume = Sign(x)
                        /\ Sign(x) \in Int /\ Sign(x) * x.price \in Int
  <2> SUFFICES ASSUME NEW x \in Placed
               PROVE  /\ Sign(x) * x.price * x.volume = Sign(x) * x.price /\ Sign(x) * x.volume = Sign(x)
                      /\ Sign(x) \in Int /\ Sign(x) * x.price \in Int
    OBVIOUS
  <2> PICK e \in Int, p \in Nat : e = Sign(x) /\ p = x.price /\ x.volume = 1
    BY DEF Sign, Placed
  <2>1. e * p \in Int /\ e * p * 1 = e * p /\ e * 1 = e
    OBVIOUS
  <2> QED BY <2>1
<1>3. \A k \in 1 .. n : orders[k] \in Placed
  OBVIOUS
<1> PICK a, b : a = Paid(orders) /\ b = Paid(u)
  OBVIOUS
<1>4. /\ a = [k \in 1 .. n |-> Sign(orders[k]) * orders[k].price * orders[k].volume]
      /\ b = [k \in 1 .. n + 1 |-> Sign(u[k]) * u[k].price * u[k].volume]
  BY <1>1 DEF Paid
<1>5. a \in Seq(Int) /\ Len(a) = n
  BY <1>2, <1>3, <1>4
<1>6. \A k \in 1 .. n + 1 : u[k] \in Placed
  BY <1>1
<1>7. b \in Seq(Int) /\ Len(b) = n + 1
  BY <1>2, <1>4, <1>6
<1>8. (\A k \in 1 .. n : b[k] = a[k]) /\ b[n + 1] = Sign(o) * o.price
  BY <1>1, <1>2, <1>4
<1>9. Total(b) = Total(a) + Sign(o) * o.price
  <2> PICK y \in Int : y = Sign(o) * o.price
    BY <1>2
  <2>1. Len(b) = Len(a) + 1 /\ (\A k \in 1 .. Len(a) : b[k] = a[k]) /\ b[Len(b)] = y
    BY <1>5, <1>7, <1>8
  <2>2. Total(b) = Total(a) + y
    BY ONLY <1>5, <1>7, <2>1, SumGrows, y \in Int
  <2> QED BY <2>2
<1> PICK c, d : c = Sold(orders) /\ d = Sold(u)
  OBVIOUS
<1>10. /\ c = [k \in 1 .. n |-> Sign(orders[k]) * orders[k].volume]
       /\ d = [k \in 1 .. n + 1 |-> Sign(u[k]) * u[k].volume]
  BY <1>1 DEF Sold
<1>11. c \in Seq(Int) /\ Len(c) = n
  BY <1>2, <1>3, <1>10
<1>12. d \in Seq(Int) /\ Len(d) = n + 1
  BY <1>2, <1>6, <1>10
<1>13. (\A k \in 1 .. n : d[k] = c[k]) /\ d[n + 1] = Sign(o)
  BY <1>1, <1>2, <1>10
<1>14. Total(d) = Total(c) + Sign(o)
  <2> PICK y \in Int : y = Sign(o)
    BY <1>2
  <2>1. Len(d) = Len(c) + 1 /\ (\A k \in 1 .. Len(c) : d[k] = c[k]) /\ d[Len(d)] = y
    BY <1>11, <1>12, <1>13
  <2>2. Total(d) = Total(c) + y
    BY ONLY <1>11, <1>12, <2>1, SumGrows, y \in Int
  <2> QED BY <2>2
<1>15. Total(a) \in Int /\ Total(c) \in Int
  BY <1>5, <1>11, TotalAdds
<1> QED BY <1>9, <1>14, <1>15

\* An exchange of which the report is the wallet.
ExchangeOK(e) ==
  /\ e = [orders |-> e.orders, value |-> e.value, volume |-> e.volume, price |-> e.price]
  /\ e.orders \in Seq(Placed) /\ e.value \in Int /\ e.volume \in Int /\ e.price \in Nat
  /\ Total(Paid(e.orders)) = e.value /\ Total(Sold(e.orders)) = -e.volume

\* After an order of type t, and after a trade.
Booked(f, e, t, price) ==
  /\ ExchangeOK(f) /\ f.price = e.price
  /\ f.value = e.value - Side(t) * price /\ f.volume = e.volume + Side(t)

LEMMA OrderBooked ==
  ASSUME NEW e, ExchangeOK(e), NEW t \in Types, NEW price \in Nat
  PROVE  Booked(OpenOrder(e, Order(t, price)), e, t, price)
<1> PICK o : o = Order(t, price)
  OBVIOUS
<1>1. o \in Placed /\ o.type = t /\ o.price = price /\ o.volume = 1
  BY OrderPlaced
<1> PICK side \in Int : side = Side(t) /\ side = IF o.type = "Buy" THEN 1 ELSE -1
  BY <1>1 DEF Side
<1>2. Sign(o) = -side
  BY <1>1 DEF Sign, Types
<1>3. -side * price = -(side * price) /\ side * price \in Int /\ side * price * 1 = side * price
      /\ side * 1 = side
  OBVIOUS
<1> PICK f : f = OpenOrder(e, o)
  OBVIOUS
<1>4. f = [orders |-> Append(e.orders, o), value |-> e.value - side * o.price * o.volume,
           volume |-> e.volume + side * o.volume, price |-> e.price]
  BY DEF OpenOrder, ExchangeOK
<1>5. /\ f.orders = Append(e.orders, o) /\ f.value = e.value - side * price
      /\ f.volume = e.volume + side /\ f.price = e.price
      /\ f = [orders |-> f.orders, value |-> f.value, volume |-> f.volume, price |-> f.price]
  BY <1>1, <1>3, <1>4
<1>6. /\ e.orders \in Seq(Placed) /\ e.value \in Int /\ e.volume \in Int /\ e.price \in Nat
      /\ Total(Paid(e.orders)) = e.value /\ Total(Sold(e.orders)) = -e.volume
  BY DEF ExchangeOK
<1>7. f.orders \in Seq(Placed)
  BY <1>1, <1>5, <1>6
<1>8. /\ Total(Paid(f.orders)) = e.value + Sign(o) * price
      /\ Total(Sold(f.orders)) = -e.volume + Sign(o)
  BY <1>1, <1>5, <1>6, ReportAdds
<1>9. Total(Paid(f.orders)) = f.value /\ Total(Sold(f.orders)) = -f.volume
  <2>1. Sign(o) * price = -(side * price) /\ Sign(o) = -side
    BY <1>2, <1>3
  <2>2. Total(Paid(f.orders)) = e.value + -(side * price) /\ Total(Sold(f.orders)) = -e.volume + -side
    BY ONLY <1>8, <2>1
  <2>3. side * price \in Int /\ side \in Int /\ e.value \in Int /\ e.volume \in Int
    BY <1>3, <1>6
  <2>4. f.value = e.value - side * price /\ f.volume = e.volume + side
    BY <1>5
  <2> PICK sp \in Int : sp = side * price
    BY <2>3
  <2> QED BY ONLY <2>2, <2>3, <2>4, sp \in Int, sp = side * price
<1>10. f.value \in Int /\ f.volume \in Int
  BY <1>3, <1>5, <1>6
<1>11. ExchangeOK(f)
  BY <1>5, <1>6, <1>7, <1>9, <1>10 DEF ExchangeOK
<1> QED BY <1>5, <1>11 DEF Booked

LEMMA TradeBooked ==
  ASSUME NEW e, ExchangeOK(e), NEW price \in Nat, NEW f, f = Process(e, price)
  PROVE  ExchangeOK(f) /\ f.price = price /\ f.value = e.value /\ f.volume = e.volume
<1>1. f = [orders |-> e.orders, value |-> e.value, volume |-> e.volume, price |-> price]
  BY DEF Process, ExchangeOK
<1> QED BY <1>1 DEF ExchangeOK

\* The exchange has what the book says of the position p and the result r.
Agree(e, p, r) ==
  /\ ExchangeOK(e) /\ r \in Int
  /\ e.volume = IF p = None THEN 0 ELSE Side(p.type)
  /\ e.value = IF p = None THEN r ELSE r - Side(p.type) * p.open

BookInv == Agree(exchange, position, realised)

LEMMA OtherSide ==
  ASSUME NEW t \in Types
  PROVE  Inv(t) \in Types /\ Side(t) \in {1, -1} /\ Side(Inv(t)) = -Side(t)
         /\ \A u \in Types : u # t => u = Inv(t)
BY DEF Inv, Side, Types

LEMMA BookGiven ==
  ASSUME FeedInv, SignalsInv, PositionInv, BookInv, NEW s, NEW fit \in Curves, Gives(s, fit)
  PROVE  BookInv'
<1>1. Deliver(s, fit) /\ s \in Signal /\ s.price \in Nat
  BY DEF Gives, Timely, Signal
<1> PICK e : e = Process(exchange, s.price)
  OBVIOUS
<1>2. ExchangeOK(e) /\ e.value = exchange.value /\ e.volume = exchange.volume
  BY <1>1, TradeBooked DEF BookInv, Agree
<1>3. CASE position = None
  <2>1. exchange' = e /\ position' = position /\ realised' = realised
    BY <1>1, <1>3 DEF Deliver
  <2>2. Agree(exchange', position', realised')
    BY <1>2, <2>1 DEF BookInv, Agree
  <2> QED BY <2>2 DEF BookInv
<1>4. CASE position # None
  <2> PICK q : q = Update(position, s, fit)
    OBVIOUS
  <2>1. UpdatedOK(q, position, s, fit, ticks, fits)
    BY <1>4, SeenOK
  <2>2. q.type = position.type /\ q.open = position.open /\ position \in Position
    BY <1>4, <2>1 DEF UpdatedOK, PositionInv, PositionOK
  <2> PICK t \in Types, open \in Nat : t = position.type /\ open = position.open
    BY <2>2 DEF Position
  <2>3. /\ exchange.volume = Side(t) /\ exchange.value = realised - Side(t) * open
        /\ realised \in Int
    BY <1>4 DEF BookInv, Agree
  <2>4. CASE AssessTrend(q)
    <3>1. /\ exchange' = OpenOrder(e, Order(Inv(t), s.price)) /\ position' = None
          /\ realised' = realised + Side(t) * (s.price - open)
      BY <1>1, <1>4, <2>2, <2>4 DEF Deliver, Result
    <3>2. Booked(exchange', e, Inv(t), s.price)
      BY <1>1, <1>2, <3>1, OrderBooked, OtherSide
    <3>3. /\ exchange'.value = realised - Side(t) * open - Side(Inv(t)) * s.price
          /\ exchange'.volume = Side(t) + Side(Inv(t)) /\ ExchangeOK(exchange')
      BY <1>2, <2>3, <3>2 DEF Booked
    <3>4. exchange'.volume = 0 /\ exchange'.value = realised' /\ realised' \in Int
      <4> PICK m \in {1, -1}, price \in Nat : m = Side(t) /\ -m = Side(Inv(t)) /\ price = s.price
        BY <1>1, OtherSide
      <4>1. CASE m = 1
        BY <2>3, <3>1, <3>3, <4>1
      <4>2. CASE m = -1
        BY <2>3, <3>1, <3>3, <4>2
      <4> QED BY <4>1, <4>2
    <3>5. Agree(exchange', position', realised')
      BY <3>1, <3>3, <3>4 DEF Agree
    <3> QED BY <3>5 DEF BookInv
  <2>5. CASE ~AssessTrend(q)
    <3>1. exchange' = e /\ position' = q /\ realised' = realised
      BY <1>1, <1>4, <2>5 DEF Deliver
    <3>2. q # None
      BY <2>1, NoneAssumption DEF UpdatedOK, PositionOK
    <3>3. Agree(exchange', position', realised')
      BY <1>2, <2>2, <2>3, <3>1, <3>2 DEF Agree
    <3> QED BY <3>3 DEF BookInv
  <2> QED BY <2>4, <2>5
<1> QED BY <1>3, <1>4

LEMMA BookTurned ==
  ASSUME SignalsInv, PositionInv, BookInv, NEW t \in Types, Strategy(t)
  PROVE  BookInv'
<1> PICK price \in Nat : price = signal.price
  BY DEF Strategy, SignalsInv, Signal
<1> PICK e : e = OpenOrder(exchange, Order(t, price))
  OBVIOUS
<1>1. ExchangeOK(exchange) /\ Booked(e, exchange, t, price) /\ realised \in Int
  BY OrderBooked DEF BookInv, Agree
<1> PICK side \in {1, -1} : side = Side(t)
  BY OtherSide
<1> PICK p : p = OpenPosition(t, price)
  OBVIOUS
<1>2. /\ position' = p /\ p.type = t /\ p.open = price /\ p # None
  <2>1. position' = p /\ p.type = t /\ p.open = price
    BY DEF Strategy, OpenPosition
  <2>2. p \in Position
    BY OpenPositionOK DEF PositionOK
  <2> QED BY <2>1, <2>2, NoneAssumption
<1>3. CASE position = None
  <2>1. exchange' = e /\ realised' = realised + 0
    BY <1>3 DEF Strategy
  <2>2. exchange.volume = 0 /\ exchange.value = realised
    BY <1>3 DEF BookInv, Agree
  <2>3. ExchangeOK(e) /\ e.value = realised - side * price /\ e.volume = 0 + side
    BY <1>1, <2>2 DEF Booked
  <2>4. realised' = realised
    BY <1>1, <2>1
  <2>5. Agree(exchange', position', realised')
    BY <1>1, <1>2, <2>1, <2>3, <2>4 DEF Agree
  <2> QED BY <2>5 DEF BookInv
<1>4. CASE position # None
  <2>1. /\ exchange' = OpenOrder(e, Order(t, price)) /\ realised' = realised + Result(position, price)
        /\ position.type # t
    BY <1>4 DEF Strategy
  <2>2. position \in Position
    BY <1>4 DEF PositionInv, PositionOK
  <2> PICK open \in Nat : open = position.open
    BY <2>2 DEF Position
  <2>3. position.type \in Types /\ position.type = Inv(t) /\ Side(position.type) = -side
    BY <2>1, <2>2, OtherSide DEF Position
  <2>4. exchange.volume = -side /\ exchange.value = realised - (-side) * open
    BY <1>4, <2>3 DEF BookInv, Agree
  <2>5. Booked(exchange', e, t, price)
    <3>1. Booked(OpenOrder(e, Order(t, price)), e, t, price)
      BY <1>1, OrderBooked DEF Booked
    <3> QED BY ONLY <2>1, <3>1
  <2>6. /\ ExchangeOK(exchange') /\ exchange'.volume = -side + side + side
        /\ exchange'.value = realised - (-side) * open - side * price - side * price
    BY <1>1, <2>4, <2>5 DEF Booked
  <2>7. realised' = realised + (-side) * (price - open)
    BY <2>1, <2>3 DEF Result
  <2>8. exchange'.volume = side /\ exchange'.value = realised' - side * price /\ realised' \in Int
    <3>1. CASE side = 1
      BY <1>1, <2>6, <2>7, <3>1
    <3>2. CASE side = -1
      BY <1>1, <2>6, <2>7, <3>2
    <3> QED BY <3>1, <3>2
  <2>9. Agree(exchange', position', realised')
    BY <1>2, <2>6, <2>8 DEF Agree
  <2> QED BY <2>9 DEF BookInv
<1> QED BY <1>3, <1>4

LEMMA BookStep ==
  ASSUME FeedInv, SignalsInv, PositionInv, BookInv, [Next]_vars
  PROVE  BookInv'
<1>1. CASE UNCHANGED <<exchange, position, realised>>
  BY <1>1 DEF BookInv
<1>2. ASSUME NEW p, NEW dt, Trade(p, dt) PROVE UNCHANGED <<exchange, position, realised>>
  BY <1>2 DEF Trade
<1>3. ASSUME NEW fit \in Curves, Flushed(fit) PROVE BookInv'
  <2>1. Idles => UNCHANGED <<exchange, position, realised>>
    BY DEF Idles
  <2> QED BY <1>1, <1>3, <2>1, FlushGives, BookGiven
<1>4. ASSUME NEW t \in Types, Strategy(t) PROVE BookInv'
  BY <1>4, BookTurned
<1> QED BY <1>1, <1>2, <1>3, <1>4 DEF Next, vars, Flush, LateTrade

LEMMA BookStart == Init => BookInv
<1> SUFFICES ASSUME Init PROVE BookInv
  OBVIOUS
<1>1. exchange = [orders |-> <<>>, value |-> 0, volume |-> 0, price |-> 0]
      /\ position = None /\ realised = 0
  BY DEF Init, NewExchange
<1>2. Paid(<<>>) = <<>> /\ Sold(<<>>) = <<>> /\ Total(<<>>) = 0 /\ <<>> \in Seq(Placed)
  BY TotalAdds DEF Paid, Sold
<1>3. ExchangeOK(exchange)
  BY <1>1, <1>2 DEF ExchangeOK
<1> QED BY <1>1, <1>3 DEF BookInv, Agree

BacktestInv == FeedInv /\ SignalsInv /\ PositionInv /\ BookInv

LEMMA BacktestHolds == Spec => []BacktestInv
<1>1. Init => BacktestInv
  BY FeedStart, PositionStart, BookStart DEF BacktestInv
<1>2. BacktestInv /\ [Next]_vars => BacktestInv'
  BY FeedStep, PositionStep, BookStep DEF BacktestInv
<1> QED BY <1>1, <1>2, PTL DEF Spec

\* The wallet of the local exchange holds the lot of the open position and
\* nothing else, whether positions are closed by a trend or turned by two
\* orders of the strategy.
THEOREM VolumeFollowsBook == Spec => []VolumeIsBook
<1>1. BacktestInv => VolumeIsBook
  BY DEF BacktestInv, BookInv, Agree, VolumeIsBook
<1> QED BY <1>1, BacktestHolds, PTL

\* The two accounts of the local exchange agree: the report Gather sums from
\* the list of orders, and the wallet OpenOrder kept, both are the result of
\* the closed positions and of the open one.
THEOREM ReportsBalance == Spec => []ReportBalances
<1>1. BacktestInv => ReportBalances
  <2> SUFFICES ASSUME BacktestInv PROVE ReportBalances
    OBVIOUS
  <2> PICK report : report = Gather(exchange)
    OBVIOUS
  <2>1. ExchangeOK(exchange) /\ realised \in Int
    BY DEF BacktestInv, BookInv, Agree
  <2> PICK value \in Int, volume \in Int, price \in Nat :
             value = exchange.value /\ volume = exchange.volume /\ price = exchange.price
    BY <2>1 DEF ExchangeOK
  <2>2. report.profit = Total(Paid(exchange.orders)) - Total(Sold(exchange.orders)) * price
    BY DEF Gather, Paid, Sold, Sign
  <2>3. Total(Paid(exchange.orders)) = value /\ Total(Sold(exchange.orders)) = -volume
    BY <2>1 DEF ExchangeOK
  <2>4. report.profit = value - (-volume) * price
    BY <2>2, <2>3
  <2>5. report.profit = value + volume * price
    BY <2>4
  <2>6. report.profit = realised + (IF position = None THEN 0 ELSE Result(position, price))
    <3>1. CASE position = None
      <4>1. volume = 0 /\ value = realised
        BY <3>1 DEF BacktestInv, BookInv, Agree
      <4>2. report.profit = realised
        BY <2>1, <2>5, <4>1
      <4> QED BY <2>1, <3>1, <4>2
    <3>2. CASE position # None
      <4> PICK t \in Types, open \in Nat : t = position.type /\ open = position.open
        BY <3>2 DEF BacktestInv, PositionInv, PositionOK, Position
      <4>1. volume = Side(t) /\ value = realised - Side(t) * open
        BY <3>2 DEF BacktestInv, BookInv, Agree
      <4>2. Result(position, price) = volume * (price - open)
        BY <4>1 DEF Result
      <4>3. volume = 1 \/ volume = -1
        BY <4>1, OtherSide
      <4>4. report.profit = realised + volume * (price - open)
        BY <2>1, <2>5, <4>1, <4>3
      <4> QED BY <3>2, <4>2, <4>4
    <3> QED BY <3>1, <3>2
  <2> QED BY <2>5, <2>6 DEF ReportBalances
<1> QED BY <1>1, BacktestHolds, PTL

\* The shapes of the containers of internal/buffer, of the signals, the trend
\* and the orders: what Get and Extract unroll is as long as the bucket counts
\* say, and every order was complete when Create looked at it.
THEOREM TypeCorrect == Spec => []TypeOK
<1>1. BacktestInv => TypeOK
  <2> SUFFICES ASSUME BacktestInv PROVE TypeOK
    OBVIOUS
  <2>1. interval \in Collecting \cup {None}
    BY DEF BacktestInv, FeedInv, Opened, Collects, Collecting
  <2>2. position \in Position \cup {None}
    BY DEF BacktestInv, PositionInv, PositionOK
  <2>3. \A i \in DOMAIN exchange.orders : exchange.orders[i].ok
    <3>1. exchange.orders \in Seq(Placed)
      BY DEF BacktestInv, BookInv, Agree, ExchangeOK
    <3>2. \A i \in DOMAIN exchange.orders : exchange.orders[i] \in Placed
      BY <3>1
    <3> QED BY <3>2 DEF Placed
  <2>4. exchange.volume \in Int /\ exchange.value \in Int /\ exchange.price \in Nat /\ realised \in Int
    BY DEF BacktestInv, BookInv, Agree, ExchangeOK
  <2>5. clock \in Nat /\ trades \in 0 .. MaxTrades /\ flushes \in 0 .. MaxFlushes
        /\ live \in BOOLEAN /\ timer \in BOOLEAN
    BY DEF BacktestInv, FeedInv
  <2>6. {signal, last} \subseteq Signal \cup {None}
    BY DEF BacktestInv, SignalsInv
  <2> QED BY <2>1, <2>2, <2>3, <2>4, <2>5, <2>6 DEF TypeOK
<1> QED BY <1>1, BacktestHolds, PTL

=============================================================================
