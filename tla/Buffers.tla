------------------------------- MODULE Buffers ------------------------------
(***************************************************************************)
(* The containers of internal/buffer as values and the operators that      *)
(* return their next value: Ring, Buffer and MultiBuffer, Stats, Bucket,   *)
(* Window and HistoryWindow.  The mean of a Stats is sum / count; its      *)
(* variance and exponential average are left out.                          *)
(***************************************************************************)
LOCAL INSTANCE Integers
LOCAL INSTANCE Sequences

CONSTANTS
  Nil,      \* a slot of a ring that was not written yet
  MaxFloat  \* math.MaxFloat64, above every value pushed

-----------------------------------------------------------------------------
(* Ring.                                                                   *)

NewRing(n) == [size |-> n, index |-> 0, count |-> 0, values |-> [i \in 0 .. n - 1 |-> Nil]]

\* Mutant: the index does not wrap.
RingPushOn(r, v) ==
  [r EXCEPT !.values[r.index] = v, !.index = @ + 1, !.count = @ + 1]

RingPush(r, v) ==
  [r EXCEPT !.values[r.index] = v, !.index = (@ + 1) % r.size, !.count = @ + 1]

\* Mutant: the slots in the order of the array.
RingGetUnrolled(r) ==
  LET l == IF r.count < r.size THEN r.count ELSE r.size
  IN  [i \in 1 .. l |-> r.values[i - 1]]

\* Get: oldest first.  Once the ring wrapped, the oldest is the next written.
RingGet(r) ==
  LET l == IF r.count < r.size THEN r.count ELSE r.size
  IN  [i \in 1 .. l |-> r.values[IF r.count > l THEN (r.index + i - 1) % r.size ELSE i - 1]]

-----------------------------------------------------------------------------
(* Buffer and MultiBuffer: a queue of at most n values.                    *)

Overflows(q, n) == Len(q) + 1 > n

\* Mutant: the newest value is not kept once the queue is full.
QueueKeepOld(q, n, x) == IF Overflows(q, n) THEN q ELSE Append(q, x)

\* Mutant: the queue grows.
QueueGrow(q, n, x) == Append(q, x)

QueuePush(q, n, x) == IF Overflows(q, n) THEN Tail(Append(q, x)) ELSE Append(q, x)

Newest(q) == IF q = <<>> THEN Nil ELSE q[Len(q)]

-----------------------------------------------------------------------------
(* Stats.                                                                  *)

NewStats ==
  [count |-> 0, sum |-> 0, first |-> 0, last |-> 0, min |-> MaxFloat, max |-> 0]

\* A minimum or a maximum of zero counts as not set.
StatsPush(s, v) ==
  [count |-> s.count + 1, sum |-> s.sum + v,
   first |-> IF s.count = 0 THEN v ELSE s.first, last |-> v,
   min |-> IF s.min = 0 \/ s.min > v THEN v ELSE s.min,
   max |-> IF s.max = 0 \/ s.max < v THEN v ELSE s.max]

\* StatsCollector: one Stats per dimension.
NewCollector(dim) == [i \in 1 .. dim |-> NewStats]

\* Values of another dimension would end the process.
CollectorPush(stats, v) == [i \in DOMAIN stats |-> StatsPush(stats[i], v[i])]

Count(stats) == stats[1].count

-----------------------------------------------------------------------------
(* Window: buckets of consecutive values with one index.                   *)

NewBucket(id, dim) == [index |-> id, stats |-> NewCollector(dim)]

NewWindow(n, dim) == [size |-> n, last |-> 0, bucket |-> NewBucket(0, dim)]

\* Mutant: an index that is the current one opens a bucket.
StartsEarly(w, index) == index = 0 \/ (w.size > 0 /\ index >= w.last)

Starts(w, index) == index = 0 \/ (w.size > 0 /\ index >= w.last + w.size)

\* A value that opens a bucket closes the one before, unless that is empty or
\* the index starts again at zero.
Closes(w, index) == index # 0 /\ Starts(w, index) /\ Count(w.bucket.stats) > 0

WindowPush(w, index, v) ==
  LET open == IF Starts(w, index)
              THEN [w EXCEPT !.last = index,
                                  !.bucket = NewBucket(index, Len(w.bucket.stats))]
              ELSE w
  IN  [open EXCEPT !.bucket.stats = CollectorPush(@, v)]

-----------------------------------------------------------------------------
(* HistoryWindow: a time window and the ring of its closed buckets.  Push  *)
(* has a value receiver, so the Index it writes is lost; the window and    *)
(* the ring are shared.                                                    *)

NewHistory(n) == [window |-> NewWindow(1, 1), ring |-> NewRing(n)]

HistoryCloses(h, time, duration) == Closes(h.window, time \div duration)

HistoryPush(h, time, duration, v) ==
  [window |-> WindowPush(h.window, time \div duration, <<v>>),
   ring |-> IF HistoryCloses(h, time, duration) THEN RingPush(h.ring, h.window.bucket) ELSE h.ring]

\* Extract: the closed buckets and then the current one.
Points(h) == Append(RingGet(h.ring), h.window.bucket)

\* Polynomial: enough points for the degree.
Fits(h, degree) == Len(Points(h)) >= degree + 1
=============================================================================
