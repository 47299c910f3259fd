--------------------------- MODULE Trainer_proofs ---------------------------
(***************************************************************************)
(* Proofs about Trainer, for every choice of trends, polynomials, sizes,   *)
(* spreads and number of signals.  The invariants build on each other:     *)
(* the types, what the windows keep, which predictions are known, and      *)
(* then the scores and the counts.                                         *)
(***************************************************************************)
EXTENDS Trainer, TLAPS, SequenceTheorems, FiniteSetTheorems

Directions == -1 .. 1
Answered == Directions \cup {None}
Performance == [num : Nat, total : Nat, of : [Outcomes -> Nat]]
Scores == [prediction : [Details -> Answered], performance : [Details -> Performance]]
Track == [prediction : Answered, losses : 0 .. Losses, total : Nat, match : Nat, false : Nat]

LEMMA ShapeFacts == \A i \in Members : Orders[i] \in Shapes /\ Size(i) \in 1 .. 4
BY OrdersAssumption DEF Members, Shapes, Size

LEMMA DetailFacts ==
  /\ Gru # Multi /\ Hmm # Multi /\ \A i \in Members : Poly(i) # Multi
  /\ Learned \subseteq Details
  /\ 1 \in Members
BY OrdersAssumption DEF Gru, Hmm, Multi, Poly, Learned, Details, Members

LEMMA SignIsDirection == \A v, gap : Sign(v, gap) \in Directions
BY DEF Sign, Directions

\* A push: the new value, then what was there, as far as it fits.
IsPushed(r, q, n, x) ==
  /\ Len(r) <= n /\ Len(r) = IF Len(q) < n THEN Len(q) + 1 ELSE n
  /\ \A i \in 0 .. Len(r) - 1 : r[Len(r) - i] = IF i = 0 THEN x ELSE q[Len(q) - (i - 1)]

LEMMA Pushed ==
  ASSUME NEW S, NEW q \in Seq(S), NEW n \in Nat, NEW x \in S, Len(q) <= n
  PROVE  QueuePush(q, n, x) \in Seq(S) /\ IsPushed(QueuePush(q, n, x), q, n, x)
<1> PICK r : r = QueuePush(q, n, x)
  OBVIOUS
<1> DEFINE all == Append(q, x)
<1>1. /\ all \in Seq(S) /\ Len(all) = Len(q) + 1 /\ all # <<>>
      /\ \A i \in 1 .. Len(q) : all[i] = q[i]
      /\ all[Len(q) + 1] = x
  BY AppendProperties
<1>2. Len(q) \in Nat
  OBVIOUS
<1>3. CASE Len(q) < n
  <2>1. r = all
    BY <1>2, <1>3 DEF QueuePush, Overflows
  <2> HIDE DEF all
  <2> QED BY <2>1, <1>1, <1>2, <1>3 DEF IsPushed
<1>4. CASE Len(q) = n
  <2>1. r = Tail(all)
    BY <1>4 DEF QueuePush, Overflows
  <2> HIDE DEF all
  <2>2. r \in Seq(S) /\ Len(r) = n
    BY <2>1, <1>1, <1>4, HeadTailProperties
  <2>3. \A i \in 1 .. n : r[i] = all[i + 1]
    BY <2>1, <1>1, <1>4, HeadTailProperties
  <2>4. ASSUME NEW i \in 0 .. n - 1 PROVE r[n - i] = IF i = 0 THEN x ELSE q[n - (i - 1)]
    <3>1. n - i \in 1 .. n
      OBVIOUS
    <3>2. r[n - i] = all[n - i + 1]
      BY <3>1, <2>3
    <3>3. n - i + 1 = n - (i - 1)
      OBVIOUS
    <3> QED BY <3>2, <3>3, <1>1, <1>4
  <2> QED BY <2>2, <2>4, <1>4 DEF IsPushed
<1> QED BY <1>2, <1>3, <1>4

\* A slice: k elements after the first a.
LEMMA Slice ==
  ASSUME NEW S, NEW s \in Seq(S), NEW a \in Nat, NEW k \in Nat, a + k <= Len(s)
  PROVE  /\ SubSeq(s, a + 1, a + k) \in [1 .. k -> S]
         /\ SubSeq(s, a + 1, a + k) = [i \in 1 .. k |-> s[a + i]]
<1>1. SubSeq(s, a + 1, a + k) = [i \in 1 .. k |-> s[a + i]]
  OBVIOUS
<1>2. \A i \in 1 .. k : s[a + i] \in S
  BY ElementOfSeq
<1> QED BY <1>1, <1>2

-----------------------------------------------------------------------------
(* Types.                                                                  *)

\* The tables of the model are functions on pairs of directions.
HmmOK ==
  /\ hmm = [buffer |-> hmm.buffer, count |-> hmm.count,
            state |-> hmm.state, samples |-> hmm.samples]
  /\ hmm.buffer \in Seq(Directions) /\ Len(hmm.buffer) <= LookBack + LookAhead
  /\ hmm.count \in Nat
  /\ \A p \in DOMAIN hmm.state : hmm.state[p] \in Nat /\ p[2] \in [1 .. LookAhead -> Directions]

\* The windows.
QueuesOK ==
  /\ observed \in Seq(Trends)
  /\ collected \in Seq(Trends) /\ Len(collected) <= Warm
  /\ set = [in |-> set.in, out |-> set.out]
  /\ set.in \in Seq(Trends) /\ Len(set.in) <= In
  /\ set.out \in Seq(Trends) /\ Len(set.out) <= Out
  /\ poly \in [Members -> Seq(Trends)] /\ copies \in [Members -> Seq(Trends)]
  /\ \A i \in Members : Len(poly[i]) <= Size(i) /\ Len(copies[i]) <= Size(i)

TypeInv ==
  /\ HmmOK /\ QueuesOK
  /\ base \in [Details -> Track] /\ tracker \in Scores /\ reprocess \in Scores
  /\ made \in Seq([Details -> Answered])

LEMMA TypeInit == Init => TypeInv
<1> SUFFICES ASSUME Init PROVE TypeInv
  OBVIOUS
<1>1. HmmOK
  BY SizesAssumption DEF Init, HmmOK, NewHMM
<1>2. QueuesOK
  BY ShapeFacts, SizesAssumption DEF Init, QueuesOK
<1>3. base \in [Details -> Track]
  BY SizesAssumption DEF Init, NewTracker, Track, Answered
<1>4. NoScores \in Scores
  BY DEF NoScores, Scores, Performance, Answered
<1> QED BY <1>1, <1>2, <1>3, <1>4 DEF TypeInv, Init

LEMMA Bumped ==
  ASSUME NEW f \in [Outcomes -> Nat], NEW o \in Outcomes, NEW g, g = [f EXCEPT ![o] = @ + 1]
  PROVE  /\ g \in [Outcomes -> Nat]
         /\ \A x \in Outcomes : g[x] = f[x] + (IF x = o THEN 1 ELSE 0)
OBVIOUS

LEMMA OutcomeType == \A r, p : Outcome(r, p) \in Outcomes
BY DEF Outcome, Outcomes

LEMMA ScoredType ==
  ASSUME NEW s \in Scores, NEW v PROVE Scored(s, v) \in [Details -> Performance]
<1>1. ASSUME NEW d \in Details
      PROVE  Scored(s, v)[d] \in Performance
  <2> DEFINE p == s.performance[d]
             o == Outcome(Sign(v, Half), s.prediction[d])
  <2>1. p \in Performance
    BY DEF Scores
  <2>2. Scored(s, v)[d]
          = IF s.prediction[d] = None THEN p
            ELSE [num |-> p.num + 1, total |-> p.total + (IF s.prediction[d] = 0 THEN 0 ELSE 1),
                  of |-> [p.of EXCEPT ![o] = @ + 1]]
    BY DEF Scored
  <2> HIDE DEF p, o
  <2>3. /\ p.num + 1 \in Nat /\ p.total + (IF s.prediction[d] = 0 THEN 0 ELSE 1) \in Nat
        /\ [p.of EXCEPT ![o] = @ + 1] \in [Outcomes -> Nat]
    <3>1. p.num \in Nat /\ p.total \in Nat /\ p.of \in [Outcomes -> Nat]
      BY <2>1 DEF Performance
    <3>2. [p.of EXCEPT ![o] = @ + 1] \in [Outcomes -> Nat]
      <4>1. o \in Outcomes
        BY OutcomeType DEF o
      <4> QED BY <3>1, <4>1, Bumped
    <3> QED BY <3>1, <3>2
  <2> QED BY <2>1, <2>2, <2>3 DEF Performance
<1>2. Scored(s, v) \in [Details -> Performance]
  BY <1>1 DEF Scored
<1> QED BY <1>2

\* Fields of a record, one by one.
LEMMA TrackFields ==
  ASSUME NEW b \in Track
  PROVE  /\ b = [prediction |-> b.prediction, losses |-> b.losses, total |-> b.total,
                 match |-> b.match, false |-> b.false]
         /\ b.prediction \in Answered /\ b.losses \in 0 .. Losses
         /\ b.total \in Nat /\ b.match \in Nat /\ b.false \in Nat
BY DEF Track

LEMMA TrackRecord ==
  ASSUME NEW p \in Answered, NEW l \in 0 .. Losses, NEW t \in Nat, NEW m \in Nat, NEW f \in Nat,
         NEW x,
         x = [prediction |-> p, losses |-> l, total |-> t, match |-> m, false |-> f]
  PROVE  x \in Track /\ x.prediction = p /\ x.match = m /\ x.false = f
BY DEF Track

LEMMA TrackPredicts ==
  ASSUME NEW b \in Track, NEW a \in Answered, NEW x, x = [b EXCEPT !.prediction = a]
  PROVE  x \in Track /\ x.prediction = a /\ x.match = b.match /\ x.false = b.false
BY TrackFields, TrackRecord

\* What an assessment counts.
LEMMA AssessedFields ==
  ASSUME NEW d, NEW b \in Track, NEW v, NEW x, x = Assessed(d, b, v)
  PROVE  /\ x \in Track
         /\ \/ x.match = b.match /\ x.false = b.false
            \/ /\ x.match = b.match + 1 /\ x.false = b.false
               /\ b.prediction \notin {None, 0} /\ Loss(d, v, b.prediction) = 0
            \/ x.match = b.match /\ x.false = b.false + 1 /\ b.prediction \notin {None, 0}
<1>1. /\ b = [prediction |-> b.prediction, losses |-> b.losses, total |-> b.total,
              match |-> b.match, false |-> b.false]
      /\ b.prediction \in Answered
      /\ b.losses \in 0 .. Losses /\ b.total \in Nat /\ b.match \in Nat /\ b.false \in Nat
  BY TrackFields
<1>2. CASE b.prediction = None
  BY <1>2 DEF Assessed
<1>3. CASE b.prediction # None /\ b.losses < Losses
  <2>1. x = [b EXCEPT !.losses = @ + 1]
    BY <1>3 DEF Assessed
  <2>2. x = [prediction |-> b.prediction, losses |-> b.losses + 1, total |-> b.total,
             match |-> b.match, false |-> b.false]
    BY <2>1, <1>1
  <2>3. b.losses + 1 \in 0 .. Losses
    BY <1>1, <1>3, SizesAssumption
  <2> QED BY <2>2, <2>3, <1>1, TrackRecord
<1>4. CASE b.prediction # None /\ ~(b.losses < Losses)
  <2> DEFINE hit == Loss(d, v, b.prediction) = 0
  <2>1. PICK match, false :
          /\ match = IF b.prediction # 0 /\ hit THEN b.match + 1 ELSE b.match
          /\ false = IF b.prediction # 0 /\ ~hit THEN b.false + 1 ELSE b.false
    OBVIOUS
  <2>2. x = [b EXCEPT !.total = @ + 1, !.match = match, !.false = false]
    BY <1>4, <2>1 DEF Assessed
  <2>3. match \in Nat /\ false \in Nat
    BY <1>1, <2>1
  <2>4. x = [prediction |-> b.prediction, losses |-> b.losses, total |-> b.total + 1,
             match |-> match, false |-> false]
    BY <2>2, <1>1
  <2>5. x \in Track /\ x.match = match /\ x.false = false
    BY <2>3, <2>4, <1>1, TrackRecord
  <2> QED BY <2>1, <2>5, <1>4
<1> QED BY <1>2, <1>3, <1>4

LEMMA QueuesKept ==
  ASSUME QueuesOK, NEW v \in Trends
  PROVE  /\ PolyTrain(v) \in [Members -> Seq(Trends)] /\ MultiTrain(v) \in [Members -> Seq(Trends)]
         /\ \A i \in Members : Len(PolyTrain(v)[i]) <= Size(i) /\ Len(MultiTrain(v)[i]) <= Size(i)
<1>1. \A i \in Members : /\ QueuePush(poly[i], Size(i), v) \in Seq(Trends)
                         /\ Len(QueuePush(poly[i], Size(i), v)) <= Size(i)
                         /\ QueuePush(copies[i], Size(i), v) \in Seq(Trends)
                         /\ Len(QueuePush(copies[i], Size(i), v)) <= Size(i)
  <2> TAKE i \in Members
  <2>1. /\ Size(i) \in Nat /\ poly[i] \in Seq(Trends) /\ copies[i] \in Seq(Trends)
        /\ Len(poly[i]) <= Size(i) /\ Len(copies[i]) <= Size(i)
    <3>1. Size(i) \in Nat
      BY ShapeFacts
    <3> QED BY <3>1 DEF QueuesOK
  <2> QED BY <2>1, Pushed DEF IsPushed
<1> QED BY <1>1 DEF PolyTrain, MultiTrain, QueuesOK

Width == LookBack + LookAhead
NoMove == [i \in 1 .. LookAhead |-> 0]

\* What Add does to the model: the buffer is a queue, and once it is full what
\* is left in it is counted.
AddedPair(q) == <<SubSeq(Tail(q), 1, LookBack), Ends(q, LookAhead)>>

Added(h, w, ignored) ==
  LET q == Append(hmm.buffer, w)
  IN  /\ h = [buffer |-> h.buffer, count |-> h.count, state |-> h.state, samples |-> h.samples]
      /\ h.buffer = QueuePush(hmm.buffer, Width, w) /\ h.count = hmm.count + 1
      /\ Len(hmm.buffer) < Width => h.state = hmm.state /\ h.samples = hmm.samples
      /\ Len(hmm.buffer) = Width =>
           /\ h.state = Counted(hmm.state, AddedPair(q))
           /\ h.samples = IF Ends(q, LookAhead) = ignored THEN hmm.samples
                          ELSE Counted(hmm.samples, AddedPair(q))

LEMMA Adds ==
  ASSUME HmmOK, NEW w \in Directions, NEW ignored
  PROVE  Added(Add(hmm, w, ignored), w, ignored)
<1> PICK h, q : h = Add(hmm, w, ignored) /\ q = Append(hmm.buffer, w)
  OBVIOUS
<1>1. /\ Len(q) = Len(hmm.buffer) + 1 /\ Len(hmm.buffer) \in Nat /\ Width \in Nat
      /\ Len(hmm.buffer) <= Width
  BY AppendProperties, SizesAssumption DEF HmmOK, Width
<1>2. hmm = [buffer |-> hmm.buffer, count |-> hmm.count, state |-> hmm.state,
             samples |-> hmm.samples]
  BY DEF HmmOK
<1>3. CASE Len(hmm.buffer) < Width
  <2>1. h = [hmm EXCEPT !.buffer = q, !.count = @ + 1]
    BY <1>1, <1>3 DEF Add, Width
  <2>2. h = [buffer |-> q, count |-> hmm.count + 1, state |-> hmm.state, samples |-> hmm.samples]
    BY <2>1, <1>2
  <2>3. QueuePush(hmm.buffer, Width, w) = q
    BY <1>1, <1>3 DEF QueuePush, Overflows
  <2> QED BY <2>2, <2>3, <1>1, <1>3 DEF Added
<1>4. CASE Len(hmm.buffer) = Width
  <2>1. ~(Len(q) <= LookBack + LookAhead)
    BY <1>1, <1>4 DEF Width
  <2>2. h = [buffer |-> Tail(q), count |-> hmm.count + 1,
             state |-> Counted(hmm.state, AddedPair(q)),
             samples |-> IF AddedPair(q)[2] = ignored THEN hmm.samples
                         ELSE Counted(hmm.samples, AddedPair(q))]
    BY <2>1 DEF Add, AddedPair
  <2>3. QueuePush(hmm.buffer, Width, w) = Tail(q)
    BY <1>1, <1>4 DEF QueuePush, Overflows
  <2>4. AddedPair(q)[2] = Ends(q, LookAhead)
    BY DEF AddedPair
  <2> QED BY <2>2, <2>3, <2>4, <1>1, <1>4 DEF Added
<1> QED BY <1>1, <1>3, <1>4

LEMMA HmmKept ==
  ASSUME HmmOK, NEW w \in Directions, hmm' = Add(hmm, w, NoMove)
  PROVE  HmmOK'
<1>1. PICK h, q : h = hmm' /\ q = Append(hmm.buffer, w)
  OBVIOUS
<1>2. /\ h = [buffer |-> h.buffer, count |-> h.count, state |-> h.state, samples |-> h.samples]
      /\ h.buffer = QueuePush(hmm.buffer, Width, w) /\ h.count = hmm.count + 1
      /\ Len(hmm.buffer) < Width => h.state = hmm.state
      /\ Len(hmm.buffer) = Width => h.state = Counted(hmm.state, AddedPair(q))
  <2>1. Added(h, w, NoMove)
    BY <1>1, Adds
  <2> QED BY <1>1, <2>1 DEF Added
<1>3. hmm.buffer \in Seq(Directions) /\ Len(hmm.buffer) <= Width /\ Width \in Nat /\ hmm.count \in Nat
  BY SizesAssumption DEF HmmOK, Width
<1>4. h.buffer \in Seq(Directions) /\ Len(h.buffer) <= Width
  BY <1>2, <1>3, Pushed DEF IsPushed
<1>5. \A p \in DOMAIN hmm.state :
        hmm.state[p] \in Nat /\ p[2] \in [1 .. LookAhead -> Directions]
  BY DEF HmmOK
<1>6. CASE Len(hmm.buffer) = Width
  <2>1. q \in Seq(Directions) /\ Len(q) = Width + 1
    BY <1>1, <1>3, <1>6, AppendProperties
  <2>2. /\ LookAhead \in Nat /\ Len(q) - LookAhead + 1 \in 1 .. Len(q) + 1
        /\ Len(q) - (Len(q) - LookAhead + 1) + 1 = LookAhead
    BY <2>1, SizesAssumption DEF Width
  <2>3. Ends(q, LookAhead) \in [1 .. LookAhead -> Directions]
    <3>1. Ends(q, LookAhead) = SubSeq(q, (Width + 1 - LookAhead) + 1, (Width + 1 - LookAhead) + LookAhead)
      BY <2>1, <2>2, <1>3 DEF Ends
    <3>2. Width + 1 - LookAhead \in Nat /\ (Width + 1 - LookAhead) + LookAhead <= Len(q)
      BY <2>1, SizesAssumption DEF Width
    <3>3. SubSeq(q, (Width + 1 - LookAhead) + 1, (Width + 1 - LookAhead) + LookAhead)
            \in [1 .. LookAhead -> Directions]
      BY ONLY <2>1, <2>2, <3>2, Slice
    <3> QED BY ONLY <3>1, <3>3
  <2>4. \A p \in DOMAIN Counted(hmm.state, AddedPair(q)) :
          /\ p \in DOMAIN hmm.state \/ p = AddedPair(q)
          /\ Counted(hmm.state, AddedPair(q))[p] \in Nat
    BY <1>5 DEF Counted
  <2>5. AddedPair(q)[2] = Ends(q, LookAhead)
    BY DEF AddedPair
  <2>6. \A p \in DOMAIN h.state : h.state[p] \in Nat /\ p[2] \in [1 .. LookAhead -> Directions]
    BY <2>3, <2>4, <2>5, <1>2, <1>5, <1>6
  <2> QED BY <1>1, <1>2, <1>3, <1>4, <2>6 DEF HmmOK, Width
<1>7. CASE Len(hmm.buffer) < Width
  BY <1>1, <1>2, <1>3, <1>4, <1>5, <1>7 DEF HmmOK, Width
<1> QED BY <1>3, <1>6, <1>7

-----------------------------------------------------------------------------
(* What the networks answer is a direction.                                *)

LEMMA HmmAnswersDirections ==
  ASSUME NEW model, NEW input,
         \A p \in DOMAIN model.state : p[2] \in [1 .. LookAhead -> Directions]
  PROVE  HmmAnswers(model, input) \subseteq Directions
<1> DEFINE values == Predict(model, Emojis(input))
<1>1. \A x \in values : x \in [1 .. LookAhead -> Directions]
  BY DEF Predict, Best
<1> HIDE DEF values
<1>2. \A x \in values : Direction(x) \in Directions
  BY <1>1, SizesAssumption DEF Direction, Directions
<1>3. HmmAnswers(model, input) = IF values = {} THEN {0} ELSE {Direction(x) : x \in values}
  BY DEF HmmAnswers, values
<1> QED BY <1>2, <1>3 DEF Directions

LEMMA PolyPredictsDirection == \A i, buffer, newest : PolyPredict(i, buffer, newest) \in Directions
BY SignIsDirection DEF PolyPredict

LEMMA AnswerDirection ==
  ASSUME NEW d \in Details, NEW gru \in Directions, NEW h \in Directions, NEW v
  PROVE  Answer(d, gru, h, v) \in Directions
<1>1. PICK answers : answers = [i \in Members |-> PolyPredict(i, copies'[i], v)]
  OBVIOUS
<1>2. Agreed(answers) \in Directions
  BY <1>1, PolyPredictsDirection, DetailFacts DEF Agreed, Directions
<1>3. PolyPredict(d[2], poly'[d[2]], v) \in Directions
  BY PolyPredictsDirection
<1> QED BY <1>1, <1>2, <1>3 DEF Answer

\* What Learn does with the answers.
Answering(v, ans) ==
  /\ made' = Append(made, ans)
  /\ base' = [d \in Details |->
               IF d \in Learned THEN [Assessed(d, base[d], v) EXCEPT !.prediction = ans[d]]
               ELSE base[d]]
  /\ tracker' = [performance |-> Scored(tracker, v),
                 prediction |-> [d \in Details |->
                   IF d \in Learned THEN ans[d] ELSE tracker.prediction[d]]]
  /\ reprocess' = [performance |-> Scored(reprocess, v), prediction |-> ans]

LEMMA Learning ==
  ASSUME TypeInv, NEW v \in Trends, NEW input, Learn(v, input)
  PROVE  \E ans \in [Details -> Answered] :
           Answering(v, ans) /\ \A d \in Details : ans[d] # None <=> d \in Learned
<1>1. HmmOK'
  BY HmmKept, SignIsDirection DEF Learn, TypeInv, Emoji, NoMove
<1>2. \A p \in DOMAIN (hmm').state : p[2] \in [1 .. LookAhead -> Directions]
  BY <1>1 DEF HmmOK
<1>3. PICK gru \in GruAnswers, h \in HmmAnswers(hmm', input) :
        LET out == [d \in Learned |-> Answer(d, gru, h, v)]
        IN  /\ base' = [d \in Details |->
                          IF d \in DOMAIN out
                          THEN [Assessed(d, base[d], v) EXCEPT !.prediction = out[d]]
                          ELSE base[d]]
            /\ tracker' = [performance |-> Scored(tracker, v),
                           prediction |-> [d \in Details |->
                             IF d \in DOMAIN out THEN out[d] ELSE tracker.prediction[d]]]
            /\ reprocess' = Reprocessed(v, [d \in Details |->
                             IF d \in DOMAIN out THEN out[d] ELSE None])
            /\ made' = Append(made, [d \in Details |->
                         IF d \in DOMAIN out THEN out[d] ELSE None])
  BY DEF Learn
<1>4. gru \in Directions /\ h \in Directions
  BY <1>2, HmmAnswersDirections, SizesAssumption DEF GruAnswers, Directions
<1>5. PICK out \in [Learned -> Directions] : out = [d \in Learned |-> Answer(d, gru, h, v)]
  BY <1>4, AnswerDirection, DetailFacts
<1>6. PICK ans : ans = [d \in Details |-> IF d \in Learned THEN out[d] ELSE None]
  OBVIOUS
<1>7. /\ ans \in [Details -> Answered]
      /\ \A d \in Details : ans[d] # None <=> d \in Learned
  BY <1>5, <1>6, SizesAssumption DEF Answered, Directions
<1>8. DOMAIN out = Learned /\ \A d \in Learned : out[d] = ans[d]
  BY <1>5, <1>6, DetailFacts
<1>9. Answering(v, ans)
  <2>1. made' = Append(made, ans) /\ reprocess' = [performance |-> Scored(reprocess, v), prediction |-> ans]
    BY <1>3, <1>5, <1>6, <1>8 DEF Reprocessed
  <2>2. base' = [d \in Details |->
                  IF d \in Learned THEN [Assessed(d, base[d], v) EXCEPT !.prediction = ans[d]]
                  ELSE base[d]]
    BY <1>3, <1>5, <1>8
  <2>3. tracker' = [performance |-> Scored(tracker, v),
                    prediction |-> [d \in Details |->
                      IF d \in Learned THEN ans[d] ELSE tracker.prediction[d]]]
    BY <1>3, <1>5, <1>8
  <2> QED BY <2>1, <2>2, <2>3 DEF Answering
<1> QED BY <1>7, <1>9

-----------------------------------------------------------------------------
(* A signal: no vector yet, a vector that fills the data set, or one that  *)
(* the networks learn from.                                                *)

Collecting ==
  ~Overflows(collected, Warm) /\ UNCHANGED <<set, nets, base, tracker, reprocess, made>>

Filling(v) ==
  /\ Overflows(collected, Warm) /\ ~Ready /\ set' = SetPush(Newest(collected), v)
  /\ UNCHANGED <<nets, base>>
  /\ made' = Append(made, [d \in Details |-> None])
  /\ tracker' = [tracker EXCEPT !.performance = Scored(tracker, v)]
  /\ reprocess' = Reprocessed(v, reprocess.prediction)

Learns(v, ans) ==
  /\ Overflows(collected, Warm) /\ Ready /\ set' = SetPush(Newest(collected), v)
  /\ poly' = PolyTrain(v) /\ copies' = MultiTrain(v)
  /\ hmm' = Add(hmm, Emoji(v), NoMove)
  /\ ans \in [Details -> Answered] /\ \A d \in Details : ans[d] # None <=> d \in Learned
  /\ Answering(v, ans)

LEMMA SignalCases ==
  ASSUME TypeInv, NEW v \in Trends, Signal(v)
  PROVE  /\ observed' = Append(observed, v) /\ collected' = QueuePush(collected, Warm, v)
         /\ Collecting \/ Filling(v) \/ \E ans : Learns(v, ans)
<1>1. CASE ~Overflows(collected, Warm)
  BY <1>1 DEF Signal, Collecting
<1>2. CASE Overflows(collected, Warm) /\ ~Ready
  BY <1>2 DEF Signal, Vector, Filling
<1>3. CASE Overflows(collected, Warm) /\ Ready
  <2>1. set' = SetPush(Newest(collected), v) /\ Learn(v, Append(set'.in, v))
    BY <1>3 DEF Signal, Vector
  <2>2. poly' = PolyTrain(v) /\ copies' = MultiTrain(v) /\ hmm' = Add(hmm, Emoji(v), NoMove)
    BY <2>1 DEF Learn, NoMove
  <2>3. \E ans \in [Details -> Answered] :
          Answering(v, ans) /\ \A d \in Details : ans[d] # None <=> d \in Learned
    BY <2>1, Learning
  <2> QED BY <1>3, <2>1, <2>2, <2>3 DEF Signal, Learns
<1> QED BY <1>1, <1>2, <1>3 DEF Signal

LEMMA SetKept ==
  ASSUME QueuesOK, NEW v \in Trends, Overflows(collected, Warm),
         set' = SetPush(Newest(collected), v)
  PROVE  /\ set' = [in |-> set'.in, out |-> set'.out]
         /\ set'.in = QueuePush(set.in, In, collected[Len(collected)])
         /\ set'.out = QueuePush(set.out, Out, v)
         /\ set'.in \in Seq(Trends) /\ Len(set'.in) <= In
         /\ set'.out \in Seq(Trends) /\ Len(set'.out) <= Out
         /\ Len(collected) = Warm /\ collected[Len(collected)] \in Trends
<1>1. Len(collected) = Warm /\ Warm \in Nat \ {0} /\ collected \in Seq(Trends) /\ collected # <<>>
  <2>1. Warm \in Nat \ {0}
    BY SizesAssumption
  <2>2. collected \in Seq(Trends) /\ Len(collected) <= Warm /\ Len(collected) >= Warm
    <3>1. collected \in Seq(Trends) /\ Len(collected) <= Warm /\ Len(collected) + 1 > Warm
      BY DEF QueuesOK, Overflows
    <3> QED BY ONLY <3>1, <2>1
  <2> QED BY ONLY <2>1, <2>2
<1>2. collected[Len(collected)] \in Trends
  BY <1>1
<1>3. Newest(collected) = collected[Len(collected)]
  BY <1>1 DEF Newest
<1>4. /\ set' = [in |-> set'.in, out |-> set'.out]
      /\ set'.in = QueuePush(set.in, In, collected[Len(collected)])
      /\ set'.out = QueuePush(set.out, Out, v)
  BY <1>3 DEF SetPush
<1>5. set.in \in Seq(Trends) /\ Len(set.in) <= In /\ In \in Nat
  BY SizesAssumption DEF QueuesOK
<1>6. set.out \in Seq(Trends) /\ Len(set.out) <= Out /\ Out \in Nat
  BY SizesAssumption DEF QueuesOK
<1>7. set'.in \in Seq(Trends) /\ Len(set'.in) <= In
  BY <1>2, <1>4, <1>5, Pushed DEF IsPushed
<1>8. set'.out \in Seq(Trends) /\ Len(set'.out) <= Out
  BY <1>4, <1>6, Pushed DEF IsPushed
<1> QED BY <1>1, <1>2, <1>4, <1>7, <1>8

LEMMA CollectedKept ==
  ASSUME QueuesOK, NEW v \in Trends, observed' = Append(observed, v),
         collected' = QueuePush(collected, Warm, v)
  PROVE  observed' \in Seq(Trends) /\ collected' \in Seq(Trends) /\ Len(collected') <= Warm
<1>1. observed \in Seq(Trends) /\ collected \in Seq(Trends) /\ Len(collected) <= Warm /\ Warm \in Nat
  BY SizesAssumption DEF QueuesOK
<1> QED BY <1>1, Pushed DEF IsPushed

LEMMA TypeStep ==
  ASSUME TypeInv, NEW v \in Trends, Signal(v)
  PROVE  TypeInv'
<1>1. QueuesOK /\ HmmOK
  BY DEF TypeInv
<1>2. base \in [Details -> Track] /\ tracker \in Scores /\ reprocess \in Scores
      /\ made \in Seq([Details -> Answered])
  BY DEF TypeInv
<1>3. observed' \in Seq(Trends) /\ collected' \in Seq(Trends) /\ Len(collected') <= Warm
  BY <1>1, SignalCases, CollectedKept
<1>4. CASE Collecting
  <2>1. UNCHANGED <<set, nets, base, tracker, reprocess, made>>
    BY <1>4 DEF Collecting
  <2>2. QueuesOK' /\ HmmOK'
    BY <2>1, <1>1, <1>3 DEF QueuesOK, HmmOK, nets
  <2> QED BY <2>1, <2>2, <1>2 DEF TypeInv
<1>5. CASE Filling(v)
  <2>1. /\ UNCHANGED <<nets, base>> /\ made' = Append(made, [d \in Details |-> None])
        /\ tracker' = [tracker EXCEPT !.performance = Scored(tracker, v)]
        /\ reprocess' = [performance |-> Scored(reprocess, v), prediction |-> reprocess.prediction]
        /\ set' = SetPush(Newest(collected), v) /\ Overflows(collected, Warm)
    BY <1>5 DEF Filling, Reprocessed
  <2>2. HmmOK' /\ base' \in [Details -> Track]
    BY <2>1, <1>1, <1>2 DEF HmmOK, nets
  <2>3. QueuesOK'
    BY <2>1, <1>1, <1>3, SetKept DEF QueuesOK, nets
  <2>4. made' \in Seq([Details -> Answered])
    <3>1. [d \in Details |-> None] \in [Details -> Answered]
      BY DEF Answered
    <3> QED BY <2>1, <3>1, <1>2, AppendProperties
  <2>5. tracker' \in Scores
    BY <2>1, <1>2, ScoredType DEF Scores
  <2>6. reprocess' \in Scores
    BY <2>1, <1>2, ScoredType DEF Scores
  <2> QED BY <2>2, <2>3, <2>4, <2>5, <2>6 DEF TypeInv
<1>6. ASSUME NEW ans, Learns(v, ans) PROVE TypeInv'
  <2>1. /\ set' = SetPush(Newest(collected), v) /\ Overflows(collected, Warm)
        /\ poly' = PolyTrain(v) /\ copies' = MultiTrain(v)
        /\ hmm' = Add(hmm, Emoji(v), NoMove)
        /\ ans \in [Details -> Answered] /\ Answering(v, ans)
    BY <1>6 DEF Learns
  <2>2. HmmOK'
    BY <2>1, <1>1, HmmKept, SignIsDirection DEF Emoji
  <2>3. QueuesOK'
    BY <2>1, <1>1, <1>3, SetKept, QueuesKept DEF QueuesOK
  <2>4. made' \in Seq([Details -> Answered])
    BY <2>1, <1>2, AppendProperties DEF Answering
  <2>5. base' \in [Details -> Track]
    <3>1. \A d \in Details : [Assessed(d, base[d], v) EXCEPT !.prediction = ans[d]] \in Track
      BY <1>2, <2>1, AssessedFields, TrackPredicts
    <3> QED BY <3>1, <1>2, <2>1 DEF Answering
  <2>6. tracker' \in Scores
    <3>1. [d \in Details |-> IF d \in Learned THEN ans[d] ELSE tracker.prediction[d]]
            \in [Details -> Answered]
      BY <1>2, <2>1 DEF Scores
    <3> QED BY <3>1, <2>1, <1>2, ScoredType DEF Scores, Answering
  <2>7. reprocess' \in Scores
    BY <2>1, <1>2, ScoredType DEF Scores, Answering
  <2> QED BY <2>2, <2>3, <2>4, <2>5, <2>6, <2>7 DEF TypeInv
<1> QED BY <1>4, <1>5, <1>6, SignalCases

LEMMA TypeStutter == TypeInv /\ UNCHANGED vars => TypeInv'
BY DEF TypeInv, QueuesOK, HmmOK, vars, nets

\* The state has its shape: windows never grow beyond their sizes, and what a
\* network answers is a direction.
THEOREM TypeIsRight == Spec => []TypeOK
<1>1. TypeInv => TypeOK
  BY DEF TypeInv, TypeOK, QueuesOK, HmmOK, Directions, Answered, Track, Scores
<1>2. TypeInv /\ [Next]_vars => TypeInv'
  BY TypeStep, TypeStutter DEF Next
<1> QED BY TypeInit, <1>1, <1>2, PTL DEF Spec

-----------------------------------------------------------------------------
(* What the windows keep.                                                  *)

AtMost(k, n) == IF k < n THEN k ELSE n

\* q holds the newest of s, but for the last gap ones.
Latest(q, s, gap) ==
  Len(q) + gap <= Len(s) /\ \A i \in 0 .. Len(q) - 1 : q[Len(q) - i] = s[Len(s) - gap - i]

\* Every signal after the first Warm ones gave a vector; the windows hold the
\* newest observations, the inputs those before the outputs.
WindowInv ==
  /\ Len(made) = IF Len(observed) > Warm THEN Len(observed) - Warm ELSE 0
  /\ Len(collected) = AtMost(Len(observed), Warm) /\ Latest(collected, observed, 0)
  /\ Len(set.in) = AtMost(Len(made), In) /\ Latest(set.in, observed, IF observed = <<>> THEN 0 ELSE 1)
  /\ Len(set.out) = AtMost(Len(made), Out) /\ Latest(set.out, observed, 0)

LEMMA LatestPushed ==
  ASSUME NEW S, NEW q \in Seq(S), NEW s \in Seq(S), NEW n \in Nat, NEW x \in S, NEW y \in S,
         NEW gap \in Nat, Len(q) <= n, Latest(q, s, gap), gap <= Len(s),
         x = Append(s, y)[Len(s) + 1 - gap]
  PROVE  /\ Len(QueuePush(q, n, x)) = AtMost(Len(q) + 1, n)
         /\ Latest(QueuePush(q, n, x), Append(s, y), gap)
<1>1. PICK r : r = QueuePush(q, n, x)
  OBVIOUS
<1>2. /\ r \in Seq(S) /\ Len(r) <= n /\ Len(r) = IF Len(q) < n THEN Len(q) + 1 ELSE n
      /\ \A i \in 0 .. Len(r) - 1 : r[Len(r) - i] = IF i = 0 THEN x ELSE q[Len(q) - (i - 1)]
  <2>1. r \in Seq(S) /\ IsPushed(r, q, n, x)
    BY ONLY <1>1, q \in Seq(S), n \in Nat, x \in S, Len(q) <= n, Pushed
  <2> QED BY ONLY <2>1 DEF IsPushed
<1>3. PICK t : t = Append(s, y)
  OBVIOUS
<1>4. Len(t) = Len(s) + 1 /\ \A i \in 1 .. Len(s) : t[i] = s[i]
  BY <1>3, AppendProperties
<1>5. /\ Len(q) \in Nat /\ Len(s) \in Nat /\ Len(q) + gap <= Len(s)
      /\ \A i \in 0 .. Len(q) - 1 : q[Len(q) - i] = s[Len(s) - gap - i]
  BY DEF Latest
<1>6. Len(r) <= Len(q) + 1 /\ Len(r) = AtMost(Len(q) + 1, n)
  BY <1>2, <1>5 DEF AtMost
<1>7. ASSUME NEW i \in 0 .. Len(r) - 1 PROVE r[Len(r) - i] = t[Len(t) - gap - i]
  <2>1. CASE i = 0
    BY <2>1, <1>2, <1>3, <1>4, <1>5
  <2>2. CASE i # 0
    <3>1. i - 1 \in 0 .. Len(q) - 1
      BY <2>2, <1>5, <1>6
    <3>2. Len(s) - gap - (i - 1) \in 1 .. Len(s) /\ Len(t) - gap - i = Len(s) - gap - (i - 1)
      <4>1. i \in Nat /\ gap \in Nat /\ Len(q) \in Nat /\ Len(s) \in Nat
        BY <3>1, <1>5
      <4> QED BY ONLY <4>1, <3>1, <1>4, <1>5
    <3>3. r[Len(r) - i] = q[Len(q) - (i - 1)]
      BY <2>2, <1>2
    <3>4. q[Len(q) - (i - 1)] = s[Len(s) - gap - (i - 1)]
      BY <3>1, <1>5
    <3> QED BY <3>2, <3>3, <3>4, <1>4
  <2> QED BY <2>1, <2>2
<1>8. Len(r) + gap <= Len(t)
  BY <1>4, <1>5, <1>6
<1> QED BY <1>1, <1>3, <1>6, <1>7, <1>8 DEF Latest

\* The two windows: of what is pushed, and of what was pushed before it.
LEMMA LatestNow ==
  ASSUME NEW S, NEW q \in Seq(S), NEW s \in Seq(S), NEW n \in Nat, NEW y \in S,
         Len(q) <= n, Latest(q, s, 0)
  PROVE  /\ Len(QueuePush(q, n, y)) = AtMost(Len(q) + 1, n)
         /\ Latest(QueuePush(q, n, y), Append(s, y), 0)
<1>1. y = Append(s, y)[Len(s) + 1 - 0] /\ 0 <= Len(s)
  BY AppendProperties
<1> QED BY <1>1, LatestPushed

LEMMA LatestBefore ==
  ASSUME NEW S, NEW q \in Seq(S), NEW s \in Seq(S), NEW n \in Nat, NEW y \in S, s # <<>>,
         Len(q) <= n, Latest(q, s, 1)
  PROVE  /\ Len(QueuePush(q, n, s[Len(s)])) = AtMost(Len(q) + 1, n)
         /\ Latest(QueuePush(q, n, s[Len(s)]), Append(s, y), 1)
<1>1. Len(s) \in 1 .. Len(s)
  BY EmptySeq
<1>2. s[Len(s)] = Append(s, y)[Len(s) + 1 - 1] /\ 1 <= Len(s) /\ s[Len(s)] \in S
  BY <1>1, AppendProperties
<1> QED BY <1>2, LatestPushed

\* The gap stays when nothing was pushed yet.
LEMMA LatestEmpty == ASSUME NEW s, NEW gap, NEW q, q = <<>>, gap <= Len(s), Len(s) \in Nat, gap \in Nat
                     PROVE Latest(q, s, gap)
BY DEF Latest

LEMMA WindowInit == Init => WindowInv
BY SizesAssumption, LatestEmpty DEF Init, WindowInv, AtMost

LEMMA WindowStep ==
  ASSUME TypeInv, WindowInv, NEW v \in Trends, Signal(v)
  PROVE  WindowInv'
<1> DEFINE n == Len(observed)
<1>1. QueuesOK /\ made \in Seq([Details -> Answered])
  BY DEF TypeInv
<1>2. /\ observed' = Append(observed, v) /\ observed' \in Seq(Trends) /\ observed \in Seq(Trends)
      /\ Len(observed') = n + 1 /\ n \in Nat /\ observed'[n + 1] = v /\ observed' # <<>>
  <2>1. observed' = Append(observed, v) /\ observed \in Seq(Trends)
    BY <1>1, SignalCases DEF QueuesOK
  <2> QED BY <2>1, AppendProperties
<1>3. /\ Len(made) = (IF n > Warm THEN n - Warm ELSE 0) /\ Len(made) \in Nat
      /\ Len(collected) = AtMost(n, Warm) /\ Latest(collected, observed, 0)
      /\ Len(set.in) = AtMost(Len(made), In)
      /\ Latest(set.in, observed, IF observed = <<>> THEN 0 ELSE 1)
      /\ Len(set.out) = AtMost(Len(made), Out) /\ Latest(set.out, observed, 0)
  BY <1>1 DEF WindowInv
<1>4. Warm \in Nat \ {0} /\ In \in Nat \ {0} /\ Out \in Nat \ {0}
  BY SizesAssumption
<1>5. Len(collected') = AtMost(n + 1, Warm) /\ Latest(collected', observed', 0)
  <2>1. collected' = QueuePush(collected, Warm, v) /\ collected \in Seq(Trends)
        /\ Len(collected) <= Warm
    BY <1>1, SignalCases DEF QueuesOK
  <2>2. Latest(collected', observed', 0) /\ Len(collected') = AtMost(Len(collected) + 1, Warm)
    BY <2>1, <1>2, <1>3, <1>4, LatestNow
  <2> QED BY <2>2, <1>2, <1>3, <1>4 DEF AtMost
<1>6. CASE Collecting
  <2>1. n < Warm /\ set' = set /\ made' = made
    BY <1>6, <1>2, <1>3, <1>4 DEF Collecting, Overflows, AtMost
  <2>2. Len(made) = 0 /\ Len(made') = 0
    BY <2>1, <1>2, <1>3, <1>4
  <2>3. set'.in = <<>> /\ set'.out = <<>> /\ Len(set'.in) = 0 /\ Len(set'.out) = 0
    BY <2>1, <2>2, <1>1, <1>3, <1>4, EmptySeq DEF AtMost, QueuesOK
  <2>4. Latest(set'.in, observed', 1) /\ Latest(set'.out, observed', 0)
    BY <2>3, <1>2 DEF Latest
  <2> QED BY <2>1, <2>2, <2>3, <2>4, <1>2, <1>4, <1>5 DEF WindowInv, AtMost
<1>7. ASSUME NEW a \in [Details -> Answered],
             Overflows(collected, Warm), set' = SetPush(Newest(collected), v),
             made' = Append(made, a)
      PROVE  WindowInv'
  <2>1. n >= Warm /\ Len(made') = n + 1 - Warm /\ Len(made') = Len(made) + 1
    <3>1. Len(collected) >= Warm
      <4>1. Len(collected) + 1 > Warm
        BY <1>7 DEF Overflows
      <4>2. Len(collected) \in Nat /\ Warm \in Nat
        BY <1>3, <1>4, <1>1 DEF QueuesOK
      <4> QED BY ONLY <4>1, <4>2
    <3>2. made \in Seq([Details -> Answered]) /\ Len(made') = Len(made) + 1
      BY <1>1, <1>7, AppendProperties DEF QueuesOK
    <3> QED BY <3>1, <3>2, <1>2, <1>3, <1>4 DEF AtMost
  <2>2. /\ set'.in = QueuePush(set.in, In, collected[Len(collected)])
        /\ set'.out = QueuePush(set.out, Out, v)
        /\ Len(collected) = Warm /\ collected[Len(collected)] \in Trends
    BY <1>1, <1>7, SetKept
  <2>3. observed # <<>> /\ collected[Len(collected)] = observed[n]
    <3>1. collected[Warm - 0] = observed[n - 0 - 0]
      BY <2>2, <1>3, <1>4 DEF Latest
    <3> QED BY <3>1, <2>1, <2>2, <1>2, <1>4
  <2>4. Len(set'.in) = AtMost(Len(set.in) + 1, In) /\ Latest(set'.in, observed', 1)
    <3>1. set.in \in Seq(Trends) /\ Len(set.in) <= In /\ In \in Nat /\ Latest(set.in, observed, 1)
      BY <1>1, <1>3, <1>4, <2>3 DEF QueuesOK
    <3>2. QueuePush(set.in, In, observed[Len(observed)]) = set'.in
      BY <2>2, <2>3
    <3>3. /\ Len(QueuePush(set.in, In, observed[Len(observed)])) = AtMost(Len(set.in) + 1, In)
          /\ Latest(QueuePush(set.in, In, observed[Len(observed)]), Append(observed, v), 1)
      BY <3>1, <2>3, <1>2, LatestBefore
    <3> QED BY <3>2, <3>3, <1>2
  <2>5. Len(set'.out) = AtMost(Len(set.out) + 1, Out) /\ Latest(set'.out, observed', 0)
    <3>1. set.out \in Seq(Trends) /\ Len(set.out) <= Out /\ Out \in Nat
      BY <1>1, <1>4 DEF QueuesOK
    <3>2. /\ Len(QueuePush(set.out, Out, v)) = AtMost(Len(set.out) + 1, Out)
          /\ Latest(QueuePush(set.out, Out, v), Append(observed, v), 0)
      BY <3>1, <1>2, <1>3, LatestNow
    <3> QED BY <3>2, <2>2, <1>2
  <2>6. Len(set'.in) = AtMost(Len(made'), In) /\ Len(set'.out) = AtMost(Len(made'), Out)
    BY <2>1, <2>4, <2>5, <1>3, <1>4 DEF AtMost
  <2> QED BY <2>1, <2>4, <2>5, <2>6, <1>2, <1>4, <1>5, SMTT(30) DEF WindowInv
<1>8. CASE Filling(v)
  <2>1. [d \in Details |-> None] \in [Details -> Answered]
    BY DEF Answered
  <2> QED BY <1>7, <1>8, <2>1 DEF Filling
<1>9. ASSUME NEW ans, Learns(v, ans) PROVE WindowInv'
  BY <1>7, <1>9 DEF Learns, Answering
<1> QED BY <1>6, <1>8, <1>9, SignalCases

LEMMA WindowStutter == WindowInv /\ UNCHANGED vars => WindowInv'
BY DEF WindowInv, vars, nets

\* Inputs and outputs of the data set belong together.
THEOREM PairsStayPaired == Spec => []PairsFollow
<1>1. TypeInv /\ WindowInv => PairsFollow
  <2> SUFFICES ASSUME TypeInv, WindowInv PROVE PairsFollow
    OBVIOUS
  <2>1. observed \in Seq(Trends) /\ Len(observed) \in Nat /\ set.in \in Seq(Trends)
    BY DEF TypeInv, QueuesOK
  <2>2. /\ Len(set.in) = AtMost(Len(made), In) /\ Latest(set.out, observed, 0)
        /\ Latest(set.in, observed, IF observed = <<>> THEN 0 ELSE 1)
    BY DEF WindowInv
  <2>3. observed = <<>> => Len(set.in) = 0
    BY <2>1, <2>2 DEF Latest
  <2>4. \A i \in 0 .. Len(set.out) - 1 : set.out[Len(set.out) - i] = observed[Len(observed) - i]
    BY <2>1, <2>2 DEF Latest
  <2>5. \A i \in 0 .. Len(set.in) - 1 : set.in[Len(set.in) - i] = observed[Len(observed) - 1 - i]
    BY <2>1, <2>2, <2>3 DEF Latest
  <2> QED BY <2>2, <2>4, <2>5 DEF PairsFollow, Vectors, AtMost
<1>2. TypeInv /\ WindowInv /\ [Next]_vars => (TypeInv /\ WindowInv)'
  BY TypeStep, TypeStutter, WindowStep, WindowStutter DEF Next
<1> QED BY TypeInit, WindowInit, <1>1, <1>2, PTL DEF Spec

-----------------------------------------------------------------------------
(* Predictions.                                                            *)

\* A network that predicted goes on: its windows stay full, so that the last
\* prediction of everyone is the one made on the last vector.
PredInv ==
  \A d \in Details :
    /\ base[d].prediction # None => Ready /\ d \in Learned
    /\ tracker.prediction[d] = base[d].prediction /\ reprocess.prediction[d] = base[d].prediction
    /\ base[d].prediction = IF made = <<>> THEN None ELSE made[Len(made)][d]

\* The copies in the multi-network are the newest of the buffers they copy,
\* and one after the other starts once those before it are full.
CopiesInv ==
  \A i \in Members :
    /\ Latest(copies[i], poly[i], 0)
    /\ \A j \in 1 .. i - 1 : ~Overflows(copies[j], Size(j)) => copies[i] = <<>>

LEMMA StaysFull ==
  ASSUME NEW S, NEW q \in Seq(S), NEW n \in Nat, NEW x \in S, Len(q) <= n, Overflows(q, n)
  PROVE  Overflows(QueuePush(q, n, x), n)
<1>1. IsPushed(QueuePush(q, n, x), q, n, x) /\ Len(q) \in Nat
  BY Pushed
<1> QED BY <1>1 DEF IsPushed, Overflows

LEMMA PredInit == Init => PredInv /\ CopiesInv
<1>1. Init => PredInv
  BY DEF Init, PredInv, NewTracker, NoScores
<1>2. Init => CopiesInv
  BY DEF Init, CopiesInv, Latest
<1> QED BY <1>1, <1>2

LEMMA ReadyStays ==
  ASSUME QueuesOK, NEW v \in Trends, Overflows(collected, Warm),
         set' = SetPush(Newest(collected), v), Ready
  PROVE  Ready'
<1>1. /\ set'.in = QueuePush(set.in, In, collected[Len(collected)])
      /\ set'.out = QueuePush(set.out, Out, v) /\ collected[Len(collected)] \in Trends
  BY SetKept
<1>2. /\ set.in \in Seq(Trends) /\ Len(set.in) <= In /\ In \in Nat
      /\ set.out \in Seq(Trends) /\ Len(set.out) <= Out /\ Out \in Nat
  BY SizesAssumption DEF QueuesOK
<1>3. Overflows(set.in, In) /\ Overflows(set.out, Out)
  BY DEF Ready
<1>4. Overflows(set'.in, In)
  BY <1>1, <1>2, <1>3, StaysFull
<1>5. Overflows(set'.out, Out)
  BY <1>1, <1>2, <1>3, StaysFull
<1> QED BY <1>4, <1>5 DEF Ready

LEMMA PolyFacts ==
  ASSUME QueuesOK, NEW i \in Members
  PROVE  /\ poly[i] \in Seq(Trends) /\ copies[i] \in Seq(Trends) /\ Size(i) \in Nat
         /\ Len(poly[i]) <= Size(i) /\ Len(copies[i]) <= Size(i)
         /\ \A v : PolyTrain(v)[i] = QueuePush(poly[i], Size(i), v)
         /\ \A v : MultiTrain(v)[i] = IF \A j \in 1 .. i - 1 : Overflows(copies[j], Size(j))
                                      THEN QueuePush(copies[i], Size(i), v) ELSE copies[i]
<1>1. Size(i) \in Nat
  BY ShapeFacts
<1>2. /\ poly[i] \in Seq(Trends) /\ copies[i] \in Seq(Trends)
      /\ Len(poly[i]) <= Size(i) /\ Len(copies[i]) <= Size(i)
  BY DEF QueuesOK
<1>3. \A v : PolyTrain(v)[i] = QueuePush(poly[i], Size(i), v)
  BY DEF PolyTrain
<1>4. \A v : MultiTrain(v)[i] = IF \A j \in 1 .. i - 1 : Overflows(copies[j], Size(j))
                                THEN QueuePush(copies[i], Size(i), v) ELSE copies[i]
  BY DEF MultiTrain
<1> QED BY <1>1, <1>2, <1>3, <1>4

LEMMA CopyStaysFull ==
  ASSUME QueuesOK, NEW v \in Trends, NEW i \in Members, Overflows(copies[i], Size(i))
  PROVE  Overflows(MultiTrain(v)[i], Size(i))
<1>1. /\ copies[i] \in Seq(Trends) /\ Size(i) \in Nat /\ Len(copies[i]) <= Size(i)
      /\ MultiTrain(v)[i] \in {QueuePush(copies[i], Size(i), v), copies[i]}
  BY PolyFacts
<1>2. Overflows(QueuePush(copies[i], Size(i), v), Size(i))
  BY <1>1, StaysFull
<1> QED BY <1>1, <1>2

LEMMA LearnedStays ==
  ASSUME QueuesOK, NEW v \in Trends, poly' = PolyTrain(v), copies' = MultiTrain(v)
  PROVE  Learned \subseteq Learned'
<1>1. ASSUME NEW i \in Members, PolyTrained(i) PROVE PolyTrained(i)'
  <2>1. /\ poly[i] \in Seq(Trends) /\ Size(i) \in Nat /\ Len(poly[i]) <= Size(i)
        /\ poly'[i] = QueuePush(poly[i], Size(i), v)
    BY PolyFacts
  <2>2. Overflows(poly'[i], Size(i))
    BY <1>1, <2>1, StaysFull DEF PolyTrained
  <2> QED BY <2>2 DEF PolyTrained
<1>2. ASSUME MultiTrained PROVE MultiTrained'
  BY <1>2, CopyStaysFull DEF MultiTrained
<1> QED BY <1>1, <1>2 DEF Learned

LEMMA PredStep ==
  ASSUME TypeInv, PredInv, NEW v \in Trends, Signal(v)
  PROVE  PredInv'
<1>1. QueuesOK /\ base \in [Details -> Track] /\ tracker \in Scores /\ reprocess \in Scores
      /\ made \in Seq([Details -> Answered])
  BY DEF TypeInv
<1>2. CASE Collecting
  BY <1>2 DEF Collecting, PredInv, nets, Ready, Learned, PolyTrained, MultiTrained
<1>3. CASE Filling(v)
  <2>1. /\ ~Ready /\ UNCHANGED <<nets, base>> /\ made' = Append(made, [d \in Details |-> None])
        /\ tracker' = [tracker EXCEPT !.performance = Scored(tracker, v)]
        /\ reprocess' = [performance |-> Scored(reprocess, v), prediction |-> reprocess.prediction]
    BY <1>3 DEF Filling, Reprocessed
  <2>2. tracker'.prediction = tracker.prediction /\ reprocess'.prediction = reprocess.prediction
    BY <2>1, <1>1 DEF Scores
  <2>3. \A d \in Details : base[d].prediction = None /\ base'[d].prediction = None
    BY <2>1 DEF PredInv
  <2>4. [d \in Details |-> None] \in [Details -> Answered]
    BY DEF Answered
  <2>5. made' # <<>> /\ made'[Len(made')] = [d \in Details |-> None]
    BY <2>1, <2>4, <1>1, AppendProperties
  <2> QED BY <2>2, <2>3, <2>5 DEF PredInv
<1>4. ASSUME NEW ans, Learns(v, ans) PROVE PredInv'
  <2>1. /\ Overflows(collected, Warm) /\ Ready /\ set' = SetPush(Newest(collected), v)
        /\ poly' = PolyTrain(v) /\ copies' = MultiTrain(v)
        /\ ans \in [Details -> Answered] /\ \A d \in Details : ans[d] # None <=> d \in Learned
        /\ Answering(v, ans)
    BY <1>4 DEF Learns
  <2>2. Ready' /\ Learned \subseteq Learned'
    BY <2>1, <1>1, ReadyStays, LearnedStays
  <2>3. made' # <<>> /\ made'[Len(made')] = ans
    BY <2>1, <1>1, AppendProperties DEF Answering
  <2>4. reprocess'.prediction = ans
    BY <2>1 DEF Answering
  <2>5. \A d \in Details : tracker'.prediction[d] = ans[d]
    BY <2>1, <1>1 DEF Answering, PredInv
  <2>6. ASSUME NEW d \in Details PROVE base'[d].prediction = ans[d]
    <3>1. CASE d \in Learned
      <4>1. base'[d] = [Assessed(d, base[d], v) EXCEPT !.prediction = ans[d]]
        BY <3>1, <2>1 DEF Answering
      <4>2. Assessed(d, base[d], v) \in Track /\ ans[d] \in Answered
        BY <1>1, <2>1, AssessedFields
      <4> QED BY <4>1, <4>2, TrackPredicts
    <3>2. CASE d \notin Learned
      BY <3>2, <2>1 DEF Answering, PredInv
    <3> QED BY <3>1, <3>2
  <2> QED BY <2>1, <2>2, <2>3, <2>4, <2>5, <2>6 DEF PredInv
<1> QED BY <1>2, <1>3, <1>4, SignalCases

LEMMA PredStutter == PredInv /\ UNCHANGED vars => PredInv'
BY DEF PredInv, vars, nets, Ready, Learned, PolyTrained, MultiTrained

\* The predictions that are kept are never stale: everyone has the one made on
\* the last vector.
THEOREM PredictionsStayCurrent == Spec => []PredictionsCurrent
<1>1. TypeInv /\ PredInv => PredictionsCurrent
  BY DEF TypeInv, PredInv, PredictionsCurrent, Vectors
<1>2. TypeInv /\ PredInv /\ [Next]_vars => (TypeInv /\ PredInv)'
  BY TypeStep, TypeStutter, PredStep, PredStutter DEF Next
<1> QED BY TypeInit, PredInit, <1>1, <1>2, PTL DEF Spec

-----------------------------------------------------------------------------
(* The copies.                                                             *)

LEMMA BothPushed ==
  ASSUME NEW S, NEW c \in Seq(S), NEW p \in Seq(S), NEW n \in Nat, NEW x \in S,
         Len(c) <= n, Len(p) <= n, Latest(c, p, 0)
  PROVE  Latest(QueuePush(c, n, x), QueuePush(p, n, x), 0)
<1>1. PICK a, b : a = QueuePush(c, n, x) /\ b = QueuePush(p, n, x)
  OBVIOUS
<1>2. IsPushed(a, c, n, x) /\ a \in Seq(S)
  BY <1>1, Pushed
<1>3. IsPushed(b, p, n, x) /\ b \in Seq(S)
  BY <1>1, Pushed
<1>4. Len(c) <= Len(p) /\ Len(c) \in Nat /\ Len(p) \in Nat
  BY DEF Latest
<1>5. Len(a) <= Len(b) /\ Len(a) <= Len(c) + 1
  BY <1>2, <1>3, <1>4 DEF IsPushed
<1>6. ASSUME NEW i \in 0 .. Len(a) - 1 PROVE a[Len(a) - i] = b[Len(b) - i]
  <2>1. i \in 0 .. Len(b) - 1
    BY <1>2, <1>3, <1>5
  <2>2. /\ a[Len(a) - i] = IF i = 0 THEN x ELSE c[Len(c) - (i - 1)]
        /\ b[Len(b) - i] = IF i = 0 THEN x ELSE p[Len(p) - (i - 1)]
    BY <1>2, <1>3, <2>1 DEF IsPushed
  <2>3. i # 0 => i - 1 \in 0 .. Len(c) - 1
    BY <1>2, <1>4, <1>5
  <2>4. \A k \in 0 .. Len(c) - 1 : c[Len(c) - k] = p[Len(p) - k]
    BY <1>4 DEF Latest
  <2> QED BY <2>2, <2>3, <2>4
<1> QED BY <1>1, <1>2, <1>3, <1>5, <1>6 DEF Latest

LEMMA CopiesStep ==
  ASSUME TypeInv, CopiesInv, NEW v \in Trends, Signal(v)
  PROVE  CopiesInv'
<1>1. QueuesOK
  BY DEF TypeInv
<1>2. CASE UNCHANGED <<poly, copies>>
  BY <1>2 DEF CopiesInv
<1>3. CASE poly' = PolyTrain(v) /\ copies' = MultiTrain(v)
  <2> SUFFICES ASSUME NEW i \in Members
               PROVE  /\ Latest(copies'[i], poly'[i], 0)
                      /\ \A j \in 1 .. i - 1 : ~Overflows(copies'[j], Size(j)) => copies'[i] = <<>>
    BY DEF CopiesInv
  <2>1. /\ poly[i] \in Seq(Trends) /\ copies[i] \in Seq(Trends) /\ Size(i) \in Nat
        /\ Len(poly[i]) <= Size(i) /\ Len(copies[i]) <= Size(i)
        /\ poly'[i] = QueuePush(poly[i], Size(i), v)
        /\ copies'[i] = IF \A j \in 1 .. i - 1 : Overflows(copies[j], Size(j))
                        THEN QueuePush(copies[i], Size(i), v) ELSE copies[i]
    BY <1>1, <1>3, PolyFacts
  <2>2. \A j \in 1 .. i - 1 : j \in Members
    BY DEF Members
  <2>3. \A j \in 1 .. i - 1 : Overflows(copies[j], Size(j)) => Overflows(copies'[j], Size(j))
    BY <1>1, <1>3, <2>2, CopyStaysFull
  <2>4. Latest(copies[i], poly[i], 0)
        /\ \A j \in 1 .. i - 1 : ~Overflows(copies[j], Size(j)) => copies[i] = <<>>
    BY DEF CopiesInv
  <2>5. CASE \A j \in 1 .. i - 1 : Overflows(copies[j], Size(j))
    <3>1. Latest(copies'[i], poly'[i], 0)
      BY <2>1, <2>4, <2>5, BothPushed
    <3> QED BY <3>1, <2>3, <2>5
  <2>6. CASE \E j \in 1 .. i - 1 : ~Overflows(copies[j], Size(j))
    <3>1. copies'[i] = <<>>
      BY <2>1, <2>4, <2>6
    <3>2. poly'[i] \in Seq(Trends)
      BY <2>1, Pushed
    <3>3. Latest(copies'[i], poly'[i], 0)
      BY <3>1, <3>2 DEF Latest
    <3> QED BY <3>1, <3>3
  <2> QED BY <2>5, <2>6
<1> QED BY <1>2, <1>3, SignalCases DEF Collecting, Filling, Learns, nets

LEMMA CopiesStutter == CopiesInv /\ UNCHANGED vars => CopiesInv'
BY DEF CopiesInv, vars, nets

\* When the multi-network predicts, its members are what they are copies of.
THEOREM CopiesCatchUp == Spec => []CopiesAgree
<1>1. TypeInv /\ PredInv /\ CopiesInv => CopiesAgree
  <2> SUFFICES ASSUME TypeInv, PredInv, CopiesInv, base[Multi].prediction # None
               PROVE  copies = poly
    BY DEF CopiesAgree
  <2>1. Multi \in Learned
    BY DEF PredInv, Details
  <2>2. MultiTrained
    BY <2>1, DetailFacts DEF Learned, Multi, Gru, Hmm, Poly
  <2>3. QueuesOK
    BY DEF TypeInv
  <2>4. ASSUME NEW i \in Members PROVE copies[i] = poly[i]
    <3>1. /\ poly[i] \in Seq(Trends) /\ copies[i] \in Seq(Trends) /\ Size(i) \in Nat
          /\ Len(poly[i]) <= Size(i) /\ Len(copies[i]) <= Size(i)
      BY <2>3, PolyFacts
    <3>2. Len(copies[i]) = Size(i)
      BY <2>2, <3>1 DEF MultiTrained, Overflows
    <3>3. /\ Len(copies[i]) <= Len(poly[i])
          /\ \A k \in 0 .. Len(copies[i]) - 1 :
               copies[i][Len(copies[i]) - k] = poly[i][Len(poly[i]) - k]
      <4>1. Latest(copies[i], poly[i], 0)
        BY DEF CopiesInv
      <4>2. /\ Len(copies[i]) + 0 <= Len(poly[i])
            /\ \A k \in 0 .. Len(copies[i]) - 1 :
                 copies[i][Len(copies[i]) - k] = poly[i][Len(poly[i]) - 0 - k]
        BY ONLY <4>1 DEF Latest
      <4>3. Len(copies[i]) \in Nat /\ Len(poly[i]) \in Nat
        BY ONLY <3>1
      <4>4. \A k \in 0 .. Len(copies[i]) - 1 : Len(poly[i]) - 0 - k = Len(poly[i]) - k
        BY ONLY <4>3
      <4> QED BY ONLY <4>2, <4>3, <4>4
    <3>4. Len(poly[i]) = Len(copies[i])
      BY <3>1, <3>2, <3>3
    <3>5. ASSUME NEW m \in 1 .. Len(copies[i]) PROVE copies[i][m] = poly[i][m]
      <4>1. Len(copies[i]) - m \in 0 .. Len(copies[i]) - 1 /\ Len(copies[i]) - (Len(copies[i]) - m) = m
        BY <3>1
      <4> QED BY <4>1, <3>3, <3>4
    <3> QED BY <3>1, <3>4, <3>5, SeqEqual
  <2> QED BY <2>3, <2>4 DEF QueuesOK
<1>2. TypeInv /\ PredInv /\ CopiesInv /\ [Next]_vars => (TypeInv /\ PredInv /\ CopiesInv)'
  BY TypeStep, TypeStutter, PredStep, PredStutter, CopiesStep, CopiesStutter DEF Next
<1> QED BY TypeInit, PredInit, <1>1, <1>2, PTL DEF Spec

-----------------------------------------------------------------------------
(* Scores.                                                                 *)

LEMMA ScoredFields ==
  ASSUME NEW s \in Scores, NEW v, NEW d \in Details
  PROVE  LET p == s.performance[d]
             q == Scored(s, v)[d]
             prediction == s.prediction[d]
         IN  /\ p \in Performance /\ q \in Performance /\ prediction \in Answered
             /\ prediction = None => q = p
             /\ prediction # None =>
                  /\ q.total = p.total + (IF prediction = 0 THEN 0 ELSE 1)
                  /\ \A o \in Outcomes :
                       q.of[o] = p.of[o] + (IF o = Outcome(Sign(v, Half), prediction) THEN 1 ELSE 0)
<1>1. PICK p, q, prediction : /\ p = s.performance[d] /\ q = Scored(s, v)[d]
                              /\ prediction = s.prediction[d]
  OBVIOUS
<1>2. p \in Performance /\ q \in Performance /\ prediction \in Answered
  BY <1>1, ScoredType DEF Scores
<1>3. CASE prediction = None
  <2>1. q = p
    BY <1>1, <1>3 DEF Scored
  <2> QED BY <1>1, <1>2, <1>3, <2>1
<1>4. CASE prediction # None
  <2>1. PICK o : o = Outcome(Sign(v, Half), prediction)
    OBVIOUS
  <2>2. q = [num |-> p.num + 1, total |-> p.total + (IF prediction = 0 THEN 0 ELSE 1),
             of |-> [p.of EXCEPT ![o] = @ + 1]]
    BY <1>1, <1>4, <2>1 DEF Scored
  <2>3. o \in Outcomes /\ p.of \in [Outcomes -> Nat]
    BY <1>2, <2>1, OutcomeType DEF Performance
  <2>4. PICK f : f = [p.of EXCEPT ![o] = @ + 1]
    OBVIOUS
  <2>5. \A x \in Outcomes : f[x] = p.of[x] + (IF x = o THEN 1 ELSE 0)
    BY <2>3, <2>4, Bumped
  <2>6. q.of = f /\ q.total = p.total + (IF prediction = 0 THEN 0 ELSE 1)
    BY <2>2, <2>4
  <2> QED BY <1>1, <1>2, <1>4, <2>1, <2>5, <2>6
<1> QED BY <1>3, <1>4

LEMMA MatchInit == Init => MatchesAreRight
BY DEF Init, MatchesAreRight, NewTracker, NoScores, Outcomes

\* No loss, and a move was predicted: it was right for the trainer, too.
LEMMA NoLossIsRight ==
  ASSUME NEW d \in Details, NEW v \in Trends, NEW p \in Directions, p # 0, Loss(d, v, p) = 0
  PROVE  Outcome(Sign(v, Half), p) = "right"
<1>1. Len(Orders) \in Nat \ {0} /\ Sign(v, Spread) \in Directions
  BY OrdersAssumption, SignIsDirection
<1>2. Sign(v, Spread) - p = 0
  <2>1. PICK k \in Nat \ {0} : k * (Sign(v, Spread) - p) = 0
    BY <1>1 DEF Loss
  <2> QED BY <2>1, <1>1 DEF Directions
<1>3. v \in Int /\ Spread \in Nat /\ Half \in Nat /\ Half <= Spread
  BY SizesAssumption
<1>4. CASE p = 1
  <2>1. v > Spread
    BY <1>1, <1>2, <1>3, <1>4 DEF Sign, Directions
  <2>2. Sign(v, Half) = 1
    BY <2>1, <1>3 DEF Sign
  <2> QED BY <2>2, <1>4 DEF Outcome
<1>5. CASE p = -1
  <2>1. v < -Spread
    BY <1>1, <1>2, <1>3, <1>5 DEF Sign, Directions
  <2>2. Sign(v, Half) = -1
    BY <2>1, <1>3 DEF Sign
  <2> QED BY <2>2, <1>5 DEF Outcome
<1> QED BY <1>4, <1>5 DEF Directions

LEMMA MatchStep ==
  ASSUME TypeInv, PredInv, MatchesAreRight, NEW v \in Trends, Signal(v)
  PROVE  MatchesAreRight'
<1>1. base \in [Details -> Track] /\ tracker \in Scores /\ reprocess \in Scores
  BY DEF TypeInv
<1>2. CASE Collecting
  BY <1>2 DEF Collecting, MatchesAreRight
<1>3. ASSUME NEW d \in Details, NEW p, NEW q, NEW b, NEW c,
             p = tracker.performance[d], q = Scored(tracker, v)[d],
             b = base[d], tracker'.performance[d] = q, c = base'[d],
             \/ c.match = b.match /\ c.false = b.false
             \/ /\ c.match = b.match + 1 /\ c.false = b.false
                /\ b.prediction \notin {None, 0} /\ Loss(d, v, b.prediction) = 0
             \/ c.match = b.match /\ c.false = b.false + 1 /\ b.prediction \notin {None, 0}
      PROVE  /\ base'[d].match <= tracker'.performance[d].of["right"]
             /\ base'[d].match + base'[d].false <= tracker'.performance[d].total
  <2>1. /\ p.of["right"] \in Nat /\ p.total \in Nat /\ q.of["right"] \in Nat /\ q.total \in Nat
    <3>1. p \in Performance /\ q \in Performance
      BY <1>1, <1>3, ScoredFields
    <3> QED BY <3>1 DEF Performance, Outcomes
  <2>2. b.match \in Nat /\ b.false \in Nat /\ b.prediction \in Answered
    BY <1>1, <1>3, TrackFields
  <2>3. b.match <= p.of["right"] /\ b.match + b.false <= p.total
    BY <1>3 DEF MatchesAreRight
  <2>4. tracker.prediction[d] = b.prediction
    BY <1>3 DEF PredInv
  <2>5. CASE b.prediction = None
    <3>1. q = p
      BY <1>1, <1>3, <2>4, <2>5, ScoredFields
    <3> QED BY <3>1, <1>3, <2>3, <2>5
  <2>6. CASE b.prediction # None
    <3>1. /\ q.total = p.total + (IF b.prediction = 0 THEN 0 ELSE 1)
          /\ q.of["right"] = p.of["right"]
               + (IF "right" = Outcome(Sign(v, Half), b.prediction) THEN 1 ELSE 0)
      BY <1>1, <1>3, <2>4, <2>6, ScoredFields DEF Outcomes
    <3>2. b.prediction \in Directions
      BY <2>2, <2>6 DEF Answered
    <3>3. b.prediction # 0 /\ Loss(d, v, b.prediction) = 0
            => Outcome(Sign(v, Half), b.prediction) = "right"
      BY <3>2, NoLossIsRight
    <3> QED BY <3>1, <3>3, <1>3, <2>1, <2>2, <2>3
  <2> QED BY <2>5, <2>6
<1>4. CASE Filling(v)
  <2>1. base' = base /\ tracker' = [tracker EXCEPT !.performance = Scored(tracker, v)]
    BY <1>4 DEF Filling
  <2>2. tracker'.performance = Scored(tracker, v)
    BY <2>1, <1>1 DEF Scores
  <2> QED BY <1>3, <2>1, <2>2 DEF MatchesAreRight
<1>5. ASSUME NEW ans, Learns(v, ans) PROVE MatchesAreRight'
  <2>1. Answering(v, ans) /\ ans \in [Details -> Answered]
    BY <1>5 DEF Learns
  <2>2. tracker'.performance = Scored(tracker, v)
    BY <2>1 DEF Answering
  <2>3. ASSUME NEW d \in Details, NEW b, NEW c, b = base[d], c = base'[d]
        PROVE  \/ c.match = b.match /\ c.false = b.false
               \/ /\ c.match = b.match + 1 /\ c.false = b.false
                  /\ b.prediction \notin {None, 0} /\ Loss(d, v, b.prediction) = 0
               \/ c.match = b.match /\ c.false = b.false + 1 /\ b.prediction \notin {None, 0}
    <3>1. CASE d \notin Learned
      BY <3>1, <2>1, <2>3 DEF Answering
    <3>2. CASE d \in Learned
      <4>1. PICK a : a = Assessed(d, b, v)
        OBVIOUS
      <4>2. b \in Track /\ ans[d] \in Answered
        BY <1>1, <2>1, <2>3
      <4>3. c = [a EXCEPT !.prediction = ans[d]]
        BY <2>1, <2>3, <3>2, <4>1 DEF Answering
      <4>4. a \in Track
        BY <4>1, <4>2, AssessedFields
      <4>5. c.match = a.match /\ c.false = a.false
        BY <4>2, <4>3, <4>4, TrackPredicts
      <4>6. \/ a.match = b.match /\ a.false = b.false
            \/ /\ a.match = b.match + 1 /\ a.false = b.false
               /\ b.prediction \notin {None, 0} /\ Loss(d, v, b.prediction) = 0
            \/ a.match = b.match /\ a.false = b.false + 1 /\ b.prediction \notin {None, 0}
        BY <4>1, <4>2, AssessedFields
      <4> QED BY <4>5, <4>6
    <3> QED BY <3>1, <3>2
  <2> QED BY <1>3, <2>2, <2>3 DEF MatchesAreRight
<1> QED BY <1>2, <1>4, <1>5, SignalCases

LEMMA MatchStutter == MatchesAreRight /\ UNCHANGED vars => MatchesAreRight'
BY DEF MatchesAreRight, vars

\* A match of the base network is right for the trainer, and neither score
\* counts a move that was not predicted.
THEOREM MatchesStayRight == Spec => []MatchesAreRight
<1>1. TypeInv /\ PredInv /\ MatchesAreRight /\ [Next]_vars => (TypeInv /\ PredInv /\ MatchesAreRight)'
  BY TypeStep, TypeStutter, PredStep, PredStutter, MatchStep, MatchStutter DEF Next
<1> QED BY TypeInit, PredInit, MatchInit, <1>1, PTL DEF Spec

\* The vectors whose prediction for d turned out to be o.
TurnedOut(d, o) ==
  {i \in 1 .. Len(made) - 1 :
     made[i][d] # None /\ Outcome(Sign(observed[Warm + i + 1], Half), made[i][d]) = o}

ScoreInv ==
  \A d \in Details, o \in Outcomes :
    /\ tracker.performance[d].of[o] = Cardinality(TurnedOut(d, o))
    /\ reprocess.performance[d].of[o] = Cardinality(TurnedOut(d, o))

LEMMA TurnedOutFinite ==
  ASSUME made \in Seq([Details -> Answered]), NEW d, NEW o
  PROVE  IsFiniteSet(TurnedOut(d, o)) /\ Cardinality(TurnedOut(d, o)) \in Nat
<1>1. IsFiniteSet(1 .. Len(made) - 1)
  BY FS_Interval
<1>2. TurnedOut(d, o) \subseteq 1 .. Len(made) - 1
  BY DEF TurnedOut
<1> QED BY <1>1, <1>2, FS_Subset, FS_CardinalityType

LEMMA ScoreInit == Init => ScoreInv
<1> SUFFICES ASSUME Init, NEW d \in Details, NEW o \in Outcomes
             PROVE  /\ tracker.performance[d].of[o] = Cardinality(TurnedOut(d, o))
                    /\ reprocess.performance[d].of[o] = Cardinality(TurnedOut(d, o))
  BY DEF ScoreInv
<1>1. Len(made) - 1 = -1
  BY DEF Init
<1>2. TurnedOut(d, o) = {}
  BY <1>1 DEF TurnedOut
<1>3. NoScores.performance[d].of[o] = 0
  BY DEF NoScores
<1> QED BY <1>2, <1>3, FS_EmptySet DEF Init

\* The next vector decides about the last one.
LEMMA TurnsOut ==
  ASSUME TypeInv, WindowInv, PredInv, NEW v \in Trends, observed' = Append(observed, v),
         Overflows(collected, Warm), NEW a \in [Details -> Answered], made' = Append(made, a),
         NEW d \in Details, NEW o \in Outcomes
  PROVE  Cardinality(TurnedOut(d, o)')
           = Cardinality(TurnedOut(d, o))
             + (IF base[d].prediction # None
                   /\ Outcome(Sign(v, Half), base[d].prediction) = o THEN 1 ELSE 0)
<1> DEFINE n == Len(observed)
           V == Len(made)
           hit == base[d].prediction # None /\ Outcome(Sign(v, Half), base[d].prediction) = o
<1>1. /\ observed \in Seq(Trends) /\ collected \in Seq(Trends) /\ made \in Seq([Details -> Answered])
      /\ n \in Nat /\ V \in Nat /\ Warm \in Nat \ {0}
  <2>1. /\ observed \in Seq(Trends) /\ collected \in Seq(Trends) /\ made \in Seq([Details -> Answered])
    BY DEF TypeInv, QueuesOK
  <2>2. Warm \in Nat \ {0}
    BY SizesAssumption
  <2> QED BY ONLY <2>1, <2>2
<1>2. n >= Warm /\ V = n - Warm
  <2>1. Len(collected) = AtMost(n, Warm) /\ V = (IF n > Warm THEN n - Warm ELSE 0)
    BY DEF WindowInv
  <2>2. Len(collected) >= Warm
    BY <1>1 DEF Overflows
  <2> QED BY <1>1, <2>1, <2>2 DEF AtMost
<1>3. /\ Len(made') = V + 1 /\ \A i \in 1 .. V : made'[i] = made[i]
      /\ observed'[n + 1] = v /\ \A i \in 1 .. n : observed'[i] = observed[i]
  BY <1>1, AppendProperties
<1>4. TurnedOut(d, o)'
        = {i \in 1 .. V : made'[i][d] # None
                           /\ Outcome(Sign(observed'[Warm + i + 1], Half), made'[i][d]) = o}
  <2>1. Len(made') - 1 = V
    BY <1>1, <1>3
  <2> QED BY <2>1 DEF TurnedOut
<1>5. \A i \in 1 .. V - 1 : made'[i] = made[i] /\ observed'[Warm + i + 1] = observed[Warm + i + 1]
  <2> TAKE i \in 1 .. V - 1
  <2>1. i \in 1 .. V /\ Warm + i + 1 \in 1 .. n
    BY <1>1, <1>2
  <2> QED BY <2>1, <1>3
<1>6. CASE V = 0
  <2>1. made = <<>>
    BY <1>1, <1>6, EmptySeq
  <2>2. base[d].prediction = None
    BY <2>1 DEF PredInv
  <2>3. 1 .. V = {} /\ 1 .. V - 1 = {}
    BY <1>6
  <2>4. TurnedOut(d, o) = {} /\ TurnedOut(d, o)' = {}
    BY <1>4, <2>3 DEF TurnedOut
  <2> QED BY <2>2, <2>4, FS_EmptySet
<1>7. CASE V # 0
  <2>1. made # <<>> /\ V \in 1 .. V /\ V \notin 1 .. V - 1 /\ 1 .. V = (1 .. V - 1) \cup {V}
    BY <1>1, <1>7
  <2>2. base[d].prediction = made'[V][d]
    BY <1>3, <2>1 DEF PredInv
  <2>3. observed'[Warm + V + 1] = v
    BY <1>1, <1>2, <1>3
  <2>4. hit <=> made'[V][d] # None /\ Outcome(Sign(observed'[Warm + V + 1], Half), made'[V][d]) = o
    BY <2>2, <2>3
  <2> HIDE DEF hit, V, n
  <2>5. TurnedOut(d, o)' = IF hit THEN TurnedOut(d, o) \cup {V} ELSE TurnedOut(d, o)
    <3>1. TurnedOut(d, o)
            = {i \in 1 .. V - 1 : made[i][d] # None
                                   /\ Outcome(Sign(observed[Warm + i + 1], Half), made[i][d]) = o}
      BY DEF TurnedOut, V
    <3>2. TurnedOut(d, o)
            = {i \in 1 .. V - 1 : made'[i][d] # None
                                   /\ Outcome(Sign(observed'[Warm + i + 1], Half), made'[i][d]) = o}
      BY <3>1, <1>5
    <3> QED BY <3>2, <2>1, <2>4, <1>4
  <2>6. V \notin TurnedOut(d, o)
    BY <2>1 DEF TurnedOut, V
  <2>7. IsFiniteSet(TurnedOut(d, o)) /\ Cardinality(TurnedOut(d, o)) \in Nat
    BY <1>1, TurnedOutFinite
  <2>8. Cardinality(TurnedOut(d, o) \cup {V}) = Cardinality(TurnedOut(d, o)) + 1
    BY <2>6, <2>7, FS_AddElement
  <2>9. Cardinality(TurnedOut(d, o)') = Cardinality(TurnedOut(d, o)) + (IF hit THEN 1 ELSE 0)
    BY <2>5, <2>7, <2>8
  <2> QED BY <2>9 DEF hit
<1> QED BY <1>6, <1>7

LEMMA ScoreStep ==
  ASSUME TypeInv, WindowInv, PredInv, ScoreInv, NEW v \in Trends, Signal(v)
  PROVE  ScoreInv'
<1>1. /\ tracker \in Scores /\ reprocess \in Scores /\ observed \in Seq(Trends)
      /\ observed' = Append(observed, v) /\ made \in Seq([Details -> Answered])
  BY SignalCases DEF TypeInv, QueuesOK
<1>2. CASE Collecting
  <2>1. made' = made /\ tracker' = tracker /\ reprocess' = reprocess /\ ~Overflows(collected, Warm)
    BY <1>2 DEF Collecting
  <2>2. made = <<>> /\ Len(made) = 0
    <3>1. Len(collected) = AtMost(Len(observed), Warm)
          /\ Len(made) = IF Len(observed) > Warm THEN Len(observed) - Warm ELSE 0
      BY DEF WindowInv
    <3>2. Warm \in Nat /\ Len(observed) \in Nat
      BY <1>1, SizesAssumption
    <3>3. Len(made) = 0
      BY <2>1, <3>1, <3>2 DEF Overflows, AtMost
    <3> QED BY <3>3, <1>1, EmptySeq
  <2>3. \A d, o : TurnedOut(d, o) = {} /\ TurnedOut(d, o)' = {}
    BY <2>1, <2>2 DEF TurnedOut
  <2>4. \A d, o : Cardinality(TurnedOut(d, o)') = Cardinality(TurnedOut(d, o))
    BY <2>3
  <2> QED BY <2>1, <2>4 DEF ScoreInv
<1>3. ASSUME NEW a \in [Details -> Answered], Overflows(collected, Warm), made' = Append(made, a),
             tracker'.performance = Scored(tracker, v),
             reprocess'.performance = Scored(reprocess, v)
      PROVE  ScoreInv'
  <2> SUFFICES ASSUME NEW d \in Details, NEW o \in Outcomes
               PROVE  /\ tracker'.performance[d].of[o] = Cardinality(TurnedOut(d, o)')
                      /\ reprocess'.performance[d].of[o] = Cardinality(TurnedOut(d, o)')
    BY DEF ScoreInv
  <2>1. Cardinality(TurnedOut(d, o)')
          = Cardinality(TurnedOut(d, o))
            + (IF base[d].prediction # None
                  /\ Outcome(Sign(v, Half), base[d].prediction) = o THEN 1 ELSE 0)
    BY <1>1, <1>3, TurnsOut
  <2>2. ASSUME NEW s \in Scores, s.prediction[d] = base[d].prediction,
               s.performance[d].of[o] = Cardinality(TurnedOut(d, o))
        PROVE  Scored(s, v)[d].of[o] = Cardinality(TurnedOut(d, o)')
    <3>1. PICK p, q : p = s.performance[d] /\ q = Scored(s, v)[d]
      OBVIOUS
    <3>2. Cardinality(TurnedOut(d, o)) \in Nat
      BY <1>1, TurnedOutFinite
    <3>3. CASE base[d].prediction = None
      BY <3>1, <3>2, <3>3, <2>1, <2>2, ScoredFields
    <3>4. CASE base[d].prediction # None
      <4>1. q.of[o] = p.of[o] + (IF o = Outcome(Sign(v, Half), base[d].prediction) THEN 1 ELSE 0)
        BY <3>1, <3>4, <2>2, ScoredFields
      <4> QED BY <4>1, <3>1, <3>2, <3>4, <2>1, <2>2
    <3> QED BY <3>3, <3>4
  <2>3. /\ tracker.prediction[d] = base[d].prediction
        /\ reprocess.prediction[d] = base[d].prediction
    BY DEF PredInv
  <2>4. /\ tracker.performance[d].of[o] = Cardinality(TurnedOut(d, o))
        /\ reprocess.performance[d].of[o] = Cardinality(TurnedOut(d, o))
    BY DEF ScoreInv
  <2> QED BY <1>1, <1>3, <2>2, <2>3, <2>4
<1>4. CASE Filling(v)
  <2>1. /\ Overflows(collected, Warm) /\ made' = Append(made, [d \in Details |-> None])
        /\ tracker' = [tracker EXCEPT !.performance = Scored(tracker, v)]
        /\ reprocess' = [performance |-> Scored(reprocess, v), prediction |-> reprocess.prediction]
    BY <1>4 DEF Filling, Reprocessed
  <2>2. tracker'.performance = Scored(tracker, v) /\ reprocess'.performance = Scored(reprocess, v)
    BY <2>1, <1>1 DEF Scores
  <2>3. [d \in Details |-> None] \in [Details -> Answered]
    BY DEF Answered
  <2> QED BY <2>1, <2>2, <2>3, <1>3
<1>5. ASSUME NEW ans, Learns(v, ans) PROVE ScoreInv'
  <2>1. Overflows(collected, Warm) /\ ans \in [Details -> Answered] /\ Answering(v, ans)
    BY <1>5 DEF Learns
  <2>2. /\ made' = Append(made, ans) /\ tracker'.performance = Scored(tracker, v)
        /\ reprocess'.performance = Scored(reprocess, v)
    BY <2>1 DEF Answering
  <2> QED BY <2>1, <2>2, <1>3
<1> QED BY <1>2, <1>4, <1>5, SignalCases

LEMMA ScoreStutter == ScoreInv /\ UNCHANGED vars => ScoreInv'
<1> SUFFICES ASSUME ScoreInv, UNCHANGED vars PROVE ScoreInv'
  OBVIOUS
<1>1. made' = made /\ observed' = observed /\ tracker' = tracker /\ reprocess' = reprocess
  BY DEF vars
<1>2. \A d, o : TurnedOut(d, o)' = TurnedOut(d, o)
  BY <1>1 DEF TurnedOut
<1> QED BY <1>1, <1>2 DEF ScoreInv

\* Every prediction is scored once, by the trainer and by the reprocessor,
\* against the observation that followed it.
THEOREM ScoresCountOnce == Spec => []ScoredOnce
<1>1. TypeInv /\ ScoreInv => ScoredOnce
  <2> SUFFICES ASSUME TypeInv, ScoreInv, NEW d \in Details
               PROVE  LET known == {i \in 1 .. Vectors - 1 : made[i][d] # None}
                          scored(o) == {i \in known :
                            Outcome(Sign(observed[Warm + i + 1], Half), made[i][d]) = o}
                          due == [o \in Outcomes |-> Cardinality(scored(o))]
                      IN  tracker.performance[d].of = due /\ reprocess.performance[d].of = due
    BY DEF ScoredOnce
  <2> DEFINE known == {i \in 1 .. Vectors - 1 : made[i][d] # None}
             scored(o) == {i \in known :
               Outcome(Sign(observed[Warm + i + 1], Half), made[i][d]) = o}
  <2>1. \A o : scored(o) = TurnedOut(d, o)
    BY DEF TurnedOut, Vectors
  <2> HIDE DEF known, scored
  <2>2. /\ tracker.performance[d].of \in [Outcomes -> Nat]
        /\ reprocess.performance[d].of \in [Outcomes -> Nat]
    <3>1. tracker.performance[d] \in Performance /\ reprocess.performance[d] \in Performance
      BY DEF TypeInv, Scores
    <3> QED BY <3>1 DEF Performance
  <2>3. /\ tracker.performance[d].of = [o \in Outcomes |-> Cardinality(scored(o))]
        /\ reprocess.performance[d].of = [o \in Outcomes |-> Cardinality(scored(o))]
    BY <2>1, <2>2 DEF ScoreInv
  <2> QED BY <2>3 DEF known, scored
<1>2. TypeInv /\ WindowInv /\ PredInv /\ ScoreInv /\ [Next]_vars
        => (TypeInv /\ WindowInv /\ PredInv /\ ScoreInv)'
  BY TypeStep, TypeStutter, WindowStep, WindowStutter, PredStep, PredStutter,
     ScoreStep, ScoreStutter DEF Next
<1> QED BY TypeInit, WindowInit, PredInit, ScoreInit, <1>1, <1>2, PTL DEF Spec

-----------------------------------------------------------------------------
(* The counts of the model.                                                *)

\* What the model was given, and the pair that ends with the e-th of it.
Given ==
  [i \in 1 .. hmm.count |-> Sign(observed[Len(observed) - hmm.count + i], Spread)]
PairAt(s, e) == <<SubSeq(s, e - Width + 1, e - LookAhead), SubSeq(s, e - LookAhead + 1, e)>>
PairEnds == Width + 1 .. hmm.count
Occurs(p) == {e \in PairEnds : PairAt(Given, e) = p}

\* The samples of a table: its entries that end with a move.
AreSamples(t, f) ==
  DOMAIN t = {p \in DOMAIN f : p[2] # NoMove} /\ \A p \in DOMAIN t : t[p] = f[p]

\* The model gets every vector once the data set is full; its buffer is the
\* end of what it was given, and samples leaves the keys out that no move
\* followed.
HmmInv ==
  /\ hmm.count <= Len(made) /\ (hmm.count > 0 => Ready)
  /\ Len(hmm.buffer) = AtMost(hmm.count, Width) /\ Latest(hmm.buffer, Given, 0)
  /\ DOMAIN hmm.state = {PairAt(Given, e) : e \in PairEnds}
  /\ \A p \in DOMAIN hmm.state : hmm.state[p] = Cardinality(Occurs(p))
  /\ AreSamples(hmm.samples, hmm.state)

LEMMA SlicePair ==
  ASSUME NEW s \in Seq(Directions), NEW e \in Width .. Len(s)
  PROVE  /\ PairAt(s, e) = <<[i \in 1 .. LookBack |-> s[e - Width + i]],
                             [i \in 1 .. LookAhead |-> s[e - LookAhead + i]]>>
<1>1. /\ LookBack \in Nat /\ LookAhead \in Nat /\ Len(s) \in Nat
      /\ e - Width \in Nat /\ e - LookAhead \in Nat
      /\ (e - Width) + LookBack <= Len(s) /\ (e - LookAhead) + LookAhead <= Len(s)
      /\ (e - Width) + LookBack = e - LookAhead /\ (e - LookAhead) + LookAhead = e
  BY SizesAssumption DEF Width
<1>2. SubSeq(s, (e - Width) + 1, (e - Width) + LookBack) = [i \in 1 .. LookBack |-> s[(e - Width) + i]]
  BY <1>1, Slice
<1>3. SubSeq(s, (e - LookAhead) + 1, (e - LookAhead) + LookAhead)
        = [i \in 1 .. LookAhead |-> s[(e - LookAhead) + i]]
  BY <1>1, Slice
<1> QED BY <1>1, <1>2, <1>3 DEF PairAt

LEMMA GivenFacts ==
  ASSUME TypeInv
  PROVE  Given \in Seq(Directions) /\ Len(Given) = hmm.count /\ hmm.count \in Nat
<1>1. hmm.count \in Nat
  BY DEF TypeInv, HmmOK
<1>2. Given \in [1 .. hmm.count -> Directions]
  BY SignIsDirection DEF Given
<1> QED BY <1>1, <1>2, LenProperties, SeqDef

\* The pair that is added is the one that ends with what is given.
LEMMA AddedIsPair ==
  ASSUME NEW g \in Seq(Directions), NEW b \in Seq(Directions), NEW w \in Directions,
         Len(b) = Width, Latest(b, g, 0)
  PROVE  AddedPair(Append(b, w)) = PairAt(Append(g, w), Len(g) + 1)
<1>1. PICK q, h : q = Append(b, w) /\ h = Append(g, w)
  OBVIOUS
<1>2. /\ q \in Seq(Directions) /\ Len(q) = Width + 1 /\ q[Width + 1] = w /\ q # <<>>
      /\ \A i \in 1 .. Width : q[i] = b[i]
  BY <1>1, AppendProperties
<1>3. /\ h \in Seq(Directions) /\ Len(h) = Len(g) + 1 /\ h[Len(g) + 1] = w
      /\ \A i \in 1 .. Len(g) : h[i] = g[i]
  BY <1>1, AppendProperties
<1>4. /\ Width \in Nat /\ LookBack \in Nat /\ LookAhead \in Nat /\ Width = LookBack + LookAhead
      /\ Len(g) \in Nat /\ Width <= Len(g)
  BY SizesAssumption DEF Width, Latest
<1>5. ASSUME NEW k \in 1 .. Width + 1 PROVE q[k] = h[(Len(g) - Width) + k]
  <2>1. CASE k = Width + 1
    BY <2>1, <1>2, <1>3, <1>4
  <2>2. CASE k \in 1 .. Width
    <3>1. b[Width - (Width - k)] = g[Len(g) - 0 - (Width - k)]
      BY <2>2, <1>4 DEF Latest
    <3>2. Width - (Width - k) = k /\ Len(g) - 0 - (Width - k) = (Len(g) - Width) + k
      BY <2>2, <1>4
    <3>3. (Len(g) - Width) + k \in 1 .. Len(g)
      BY <2>2, <1>4
    <3> QED BY <2>2, <3>1, <3>2, <3>3, <1>2, <1>3
  <2> QED BY <2>1, <2>2
<1>6. SubSeq(Tail(q), 1, LookBack) = [i \in 1 .. LookBack |-> h[(Len(g) + 1) - Width + i]]
  <2>1. PICK t : t = Tail(q)
    OBVIOUS
  <2>2. t \in Seq(Directions) /\ Len(t) = Width /\ \A i \in 1 .. Width : t[i] = q[i + 1]
    BY <2>1, <1>2, <1>4, HeadTailProperties
  <2>3. SubSeq(t, 0 + 1, 0 + LookBack) = [i \in 1 .. LookBack |-> t[0 + i]]
    BY <2>2, <1>4, Slice
  <2>4. ASSUME NEW i \in 1 .. LookBack PROVE t[0 + i] = h[(Len(g) + 1) - Width + i]
    <3>1. i \in 1 .. Width /\ i + 1 \in 1 .. Width + 1
      BY <1>4
    <3>2. (Len(g) - Width) + (i + 1) = (Len(g) + 1) - Width + i
      BY <1>4
    <3>3. 0 + i = i /\ t[i] = q[i + 1]
      BY <3>1, <2>2
    <3>4. q[i + 1] = h[(Len(g) - Width) + (i + 1)]
      BY <3>1, <1>5
    <3> QED BY ONLY <3>2, <3>3, <3>4
  <2>5. 0 + 1 = 1 /\ 0 + LookBack = LookBack
    BY <1>4
  <2>6. SubSeq(t, 1, LookBack) = [i \in 1 .. LookBack |-> t[0 + i]]
    BY <2>3, <2>5
  <2>7. [i \in 1 .. LookBack |-> t[0 + i]] = [i \in 1 .. LookBack |-> h[(Len(g) + 1) - Width + i]]
    BY <2>4
  <2> QED BY <2>1, <2>6, <2>7
<1>7. Ends(q, LookAhead) = [i \in 1 .. LookAhead |-> h[(Len(g) + 1) - LookAhead + i]]
  <2>1. /\ LookBack + 1 \in Nat /\ (LookBack + 1) + LookAhead = Len(q)
        /\ Len(q) - LookAhead + 1 = (LookBack + 1) + 1
    BY <1>2, <1>4
  <2>2. Ends(q, LookAhead) = SubSeq(q, (LookBack + 1) + 1, (LookBack + 1) + LookAhead)
    BY <2>1 DEF Ends
  <2>3. SubSeq(q, (LookBack + 1) + 1, (LookBack + 1) + LookAhead)
          = [i \in 1 .. LookAhead |-> q[(LookBack + 1) + i]]
    BY <2>1, <1>2, <1>4, Slice
  <2>4. ASSUME NEW i \in 1 .. LookAhead
        PROVE  q[(LookBack + 1) + i] = h[(Len(g) + 1) - LookAhead + i]
    <3>1. (LookBack + 1) + i \in 1 .. Width + 1
      BY <1>4
    <3>2. (Len(g) - Width) + ((LookBack + 1) + i) = (Len(g) + 1) - LookAhead + i
      BY <1>4
    <3> QED BY <3>1, <3>2, <1>5
  <2> QED BY <2>2, <2>3, <2>4
<1>8. PairAt(h, Len(g) + 1) = <<[i \in 1 .. LookBack |-> h[(Len(g) + 1) - Width + i]],
                                [i \in 1 .. LookAhead |-> h[(Len(g) + 1) - LookAhead + i]]>>
  <2>1. PICK e : e = Len(g) + 1
    OBVIOUS
  <2>2. e \in Width .. Len(h)
    BY <2>1, <1>3, <1>4
  <2>3. PairAt(h, e) = <<[i \in 1 .. LookBack |-> h[e - Width + i]],
                         [i \in 1 .. LookAhead |-> h[e - LookAhead + i]]>>
    BY <2>2, <1>3, SlicePair
  <2> QED BY <2>1, <2>3
<1> QED BY <1>1, <1>6, <1>7, <1>8 DEF AddedPair

\* What is given later does not change a pair.
LEMMA PairStays ==
  ASSUME NEW g \in Seq(Directions), NEW w \in Directions, NEW e \in Width .. Len(g)
  PROVE  PairAt(Append(g, w), e) = PairAt(g, e)
<1>1. PICK h : h = Append(g, w)
  OBVIOUS
<1>2. h \in Seq(Directions) /\ Len(h) = Len(g) + 1 /\ \A i \in 1 .. Len(g) : h[i] = g[i]
  BY <1>1, AppendProperties
<1>3. Width \in Nat /\ LookBack \in Nat /\ LookAhead \in Nat /\ Width = LookBack + LookAhead
      /\ Len(g) \in Nat
  BY SizesAssumption DEF Width
<1>4. e \in Width .. Len(h)
  BY <1>2, <1>3
<1>5. \A i \in 1 .. LookBack : h[e - Width + i] = g[e - Width + i]
  <2> TAKE i \in 1 .. LookBack
  <2>1. e - Width + i \in 1 .. Len(g)
    BY <1>3
  <2> QED BY <2>1, <1>2
<1>6. \A i \in 1 .. LookAhead : h[e - LookAhead + i] = g[e - LookAhead + i]
  <2> TAKE i \in 1 .. LookAhead
  <2>1. e - LookAhead + i \in 1 .. Len(g)
    BY <1>3
  <2> QED BY <2>1, <1>2
<1>7. PairAt(h, e) = <<[i \in 1 .. LookBack |-> h[e - Width + i]],
                       [i \in 1 .. LookAhead |-> h[e - LookAhead + i]]>>
  BY <1>2, <1>4, SlicePair
<1>8. PairAt(g, e) = <<[i \in 1 .. LookBack |-> g[e - Width + i]],
                       [i \in 1 .. LookAhead |-> g[e - LookAhead + i]]>>
  BY SlicePair
<1> QED BY <1>1, <1>5, <1>6, <1>7, <1>8

LEMMA HmmInit == Init => HmmInv
<1> SUFFICES ASSUME Init PROVE HmmInv
  OBVIOUS
<1>1. /\ hmm.buffer = <<>> /\ hmm.count = 0 /\ hmm.state = <<>> /\ hmm.samples = <<>>
      /\ Len(made) = 0
  BY DEF Init, NewHMM
<1>2. Width \in Nat /\ PairEnds = {}
  BY <1>1, SizesAssumption DEF Width, PairEnds
<1>3. Given = <<>>
  BY <1>1 DEF Given
<1>4. Latest(hmm.buffer, Given, 0) /\ Len(hmm.buffer) = AtMost(hmm.count, Width)
  BY <1>1, <1>2, <1>3 DEF Latest, AtMost
<1>5. DOMAIN hmm.state = {} /\ DOMAIN hmm.samples = {}
  BY <1>1
<1>6. AreSamples(hmm.samples, hmm.state)
  BY <1>5 DEF AreSamples
<1> QED BY <1>1, <1>2, <1>4, <1>5, <1>6 DEF HmmInv

\* Nothing was given yet, and nothing is.
LEMMA HmmIdle ==
  ASSUME TypeInv, HmmInv, hmm.count = 0, hmm' = hmm, Len(made') \in Nat
  PROVE  HmmInv'
<1>1. Given = <<>> /\ Given' = <<>>
  BY DEF Given
<1>2. PairEnds' = PairEnds
  BY DEF PairEnds
<1>3. \A p : Occurs(p)' = Occurs(p)
  BY <1>1, <1>2 DEF Occurs
<1>4. {PairAt(Given, e) : e \in PairEnds}' = {PairAt(Given, e) : e \in PairEnds}
  BY <1>1, <1>2
<1>5. hmm.count <= Len(made') /\ ~(hmm.count > 0)
  OBVIOUS
<1>6. Len(hmm.buffer) = AtMost(hmm.count, Width) /\ Latest(hmm.buffer, Given', 0)
  BY <1>1 DEF HmmInv
<1>7. DOMAIN hmm.state = {PairAt(Given, e) : e \in PairEnds}'
  BY <1>4 DEF HmmInv
<1>8. \A p \in DOMAIN hmm.state : hmm.state[p] = Cardinality(Occurs(p)')
  BY <1>3 DEF HmmInv
<1>9. AreSamples(hmm.samples, hmm.state)
  BY DEF HmmInv
<1> QED BY <1>5, <1>6, <1>7, <1>8, <1>9 DEF HmmInv

\* Every vector that is learned from is given to the model.
LEMMA GivenGrows ==
  ASSUME TypeInv, WindowInv, HmmInv, NEW v \in Trends, observed' = Append(observed, v),
         hmm'.count = hmm.count + 1
  PROVE  Given' = Append(Given, Emoji(v))
<1>1. /\ observed \in Seq(Trends) /\ hmm.count \in Nat /\ Len(observed) \in Nat
      /\ Given \in Seq(Directions) /\ Len(Given) = hmm.count
  BY GivenFacts DEF TypeInv, QueuesOK
<1>2. hmm.count <= Len(observed)
  BY <1>1, SizesAssumption DEF HmmInv, WindowInv
<1>3. /\ Len(observed') = Len(observed) + 1 /\ observed'[Len(observed) + 1] = v
      /\ \A i \in 1 .. Len(observed) : observed'[i] = observed[i]
  BY <1>1, AppendProperties
<1>4. Given' = [i \in 1 .. hmm.count + 1 |->
                 Sign(observed'[Len(observed) - hmm.count + i], Spread)]
  <2>1. \A i \in 1 .. hmm.count + 1 :
          Len(observed') - hmm'.count + i = Len(observed) - hmm.count + i
    BY <1>1, <1>3
  <2> QED BY <2>1 DEF Given
<1>5. ASSUME NEW i \in 1 .. hmm.count
      PROVE  Sign(observed'[Len(observed) - hmm.count + i], Spread) = Given[i]
  <2>1. Len(observed) - hmm.count + i \in 1 .. Len(observed)
    BY <1>1, <1>2
  <2> QED BY <2>1, <1>3 DEF Given
<1>6. Sign(observed'[Len(observed) - hmm.count + (hmm.count + 1)], Spread) = Emoji(v)
  BY <1>1, <1>3 DEF Emoji
<1>7. PICK g, h, k : g = Given /\ h = Given' /\ k = hmm.count
  OBVIOUS
<1>8. h \in [1 .. k + 1 -> Directions]
  BY <1>4, <1>7, SignIsDirection
<1>9. \A i \in 1 .. k : h[i] = g[i]
  <2> TAKE i \in 1 .. k
  <2>1. i \in 1 .. hmm.count + 1 /\ i \in 1 .. hmm.count
    BY <1>1, <1>7
  <2>2. Given'[i] = Sign(observed'[Len(observed) - hmm.count + i], Spread)
    BY <2>1, <1>4
  <2> QED BY <2>1, <2>2, <1>5, <1>7
<1>10. h[k + 1] = Emoji(v)
  BY <1>1, <1>4, <1>6, <1>7
<1>11. Emoji(v) \in Directions /\ g \in Seq(Directions) /\ Len(g) = k /\ k \in Nat
  BY <1>1, <1>7, SignIsDirection DEF Emoji
<1>12. /\ Append(g, Emoji(v)) \in Seq(Directions) /\ Len(Append(g, Emoji(v))) = k + 1
       /\ Append(g, Emoji(v))[k + 1] = Emoji(v)
       /\ \A i \in 1 .. k : Append(g, Emoji(v))[i] = g[i]
  BY <1>11, AppendProperties
<1>13. h \in Seq(Directions) /\ Len(h) = k + 1
  BY <1>8, <1>11, LenProperties, SeqDef
<1>14. \A i \in 1 .. k + 1 : h[i] = Append(g, Emoji(v))[i]
  <2> TAKE i \in 1 .. k + 1
  <2>1. i \in 1 .. k \/ i = k + 1
    BY <1>11
  <2> QED BY <2>1, <1>9, <1>10, <1>12
<1>15. h = Append(g, Emoji(v))
  BY <1>12, <1>13, <1>14, SeqEqual
<1> QED BY <1>7, <1>15

\* One more occurrence of x.
IsCounted(F, f, x) ==
  /\ DOMAIN F = DOMAIN f \cup {x}
  /\ \A y \in DOMAIN F :
       F[y] = (IF y \in DOMAIN f THEN f[y] ELSE 0) + (IF y = x THEN 1 ELSE 0)

LEMMA CountedFacts == ASSUME NEW f, NEW x PROVE IsCounted(Counted(f, x), f, x)
BY DEF IsCounted, Counted

LEMMA SampledFacts ==
  ASSUME NEW f, NEW t, NEW x, NEW F, NEW T, \A p \in DOMAIN f : f[p] \in Nat,
         AreSamples(t, f), IsCounted(F, f, x),
         \/ x[2] = NoMove /\ T = t
         \/ x[2] # NoMove /\ IsCounted(T, t, x)
  PROVE  AreSamples(T, F)
<1>1. /\ DOMAIN F = DOMAIN f \cup {x}
      /\ \A y \in DOMAIN F : F[y] = (IF y \in DOMAIN f THEN f[y] ELSE 0) + (IF y = x THEN 1 ELSE 0)
  BY DEF IsCounted
<1>2. DOMAIN t = {p \in DOMAIN f : p[2] # NoMove} /\ \A p \in DOMAIN t : t[p] = f[p]
  BY DEF AreSamples
<1>3. CASE x[2] = NoMove /\ T = t
  <2>1. ASSUME NEW p \in DOMAIN t PROVE t[p] = F[p]
    <3>1. p \in DOMAIN f /\ p # x /\ f[p] \in Nat /\ p \in DOMAIN F
      BY <1>1, <1>2, <1>3
    <3>2. F[p] = f[p] + 0
      BY <1>1, <3>1
    <3> QED BY <3>1, <3>2, <1>2
  <2> QED BY <1>1, <1>2, <1>3, <2>1 DEF AreSamples
<1>4. CASE x[2] # NoMove /\ IsCounted(T, t, x)
  <2>1. /\ DOMAIN T = DOMAIN t \cup {x}
        /\ \A y \in DOMAIN T : T[y] = (IF y \in DOMAIN t THEN t[y] ELSE 0) + (IF y = x THEN 1 ELSE 0)
    BY <1>4 DEF IsCounted
  <2>2. ASSUME NEW p \in DOMAIN T PROVE T[p] = F[p]
    <3>1. p \in DOMAIN F /\ (p \in DOMAIN t <=> p \in DOMAIN f)
      BY <1>1, <1>2, <1>4, <2>1
    <3>2. (IF p \in DOMAIN t THEN t[p] ELSE 0) = (IF p \in DOMAIN f THEN f[p] ELSE 0)
      BY <3>1, <1>2
    <3> QED BY <3>1, <3>2, <1>1, <2>1
  <2> QED BY <1>1, <1>2, <1>4, <2>1, <2>2 DEF AreSamples
<1> QED BY <1>3, <1>4

LEMMA OccursFinite ==
  ASSUME TypeInv, NEW p
  PROVE  IsFiniteSet(Occurs(p)) /\ Cardinality(Occurs(p)) \in Nat
<1>1. IsFiniteSet(PairEnds)
  <2>1. Width + 1 \in Int /\ hmm.count \in Int
    BY GivenFacts, SizesAssumption DEF Width
  <2> QED BY <2>1, FS_Interval DEF PairEnds
<1>2. Occurs(p) \subseteq PairEnds
  BY DEF Occurs
<1> QED BY <1>1, <1>2, FS_Subset, FS_CardinalityType

\* One more pair ends with what is given.
LEMMA OccursMore ==
  ASSUME TypeInv, NEW w \in Directions, Given' = Append(Given, w), hmm'.count = hmm.count + 1,
         Width <= hmm.count, NEW pair, pair = PairAt(Append(Given, w), hmm.count + 1), NEW p
  PROVE  /\ PairEnds' = PairEnds \cup {hmm.count + 1}
         /\ \A e \in PairEnds : PairAt(Given', e) = PairAt(Given, e)
         /\ Cardinality(Occurs(p)') = Cardinality(Occurs(p)) + (IF p = pair THEN 1 ELSE 0)
<1>1. /\ Given \in Seq(Directions) /\ Len(Given) = hmm.count /\ hmm.count \in Nat
      /\ Width \in Nat
  BY GivenFacts, SizesAssumption DEF Width
<1>2. PairEnds' = PairEnds \cup {hmm.count + 1} /\ hmm.count + 1 \notin PairEnds
  BY <1>1 DEF PairEnds
<1>3. ASSUME NEW e \in PairEnds PROVE PairAt(Given', e) = PairAt(Given, e)
  <2>1. e \in Width .. Len(Given)
    BY <1>1 DEF PairEnds
  <2> QED BY <2>1, <1>1, PairStays
<1>4. Occurs(p)' = {e \in PairEnds' : PairAt(Given', e) = p}
  BY DEF Occurs
<1>5. Occurs(p)' = IF p = pair THEN Occurs(p) \cup {hmm.count + 1} ELSE Occurs(p)
  BY <1>2, <1>3, <1>4 DEF Occurs
<1>6. hmm.count + 1 \notin Occurs(p)
  BY <1>2 DEF Occurs
<1>7. IsFiniteSet(Occurs(p)) /\ Cardinality(Occurs(p)) \in Nat
  BY OccursFinite
<1>8. Cardinality(Occurs(p) \cup {hmm.count + 1}) = Cardinality(Occurs(p)) + 1
  BY <1>6, <1>7, FS_AddElement
<1> QED BY <1>2, <1>3, <1>5, <1>7, <1>8

LEMMA HmmLearns ==
  ASSUME TypeInv, WindowInv, HmmInv, NEW v \in Trends, observed' = Append(observed, v),
         hmm' = Add(hmm, Emoji(v), NoMove), Len(made') = Len(made) + 1, Ready'
  PROVE  HmmInv'
<1> PICK h, g, w, k : h = hmm' /\ g = Given /\ w = Emoji(v) /\ k = hmm.count
  OBVIOUS
<1>1. /\ w \in Directions /\ g \in Seq(Directions) /\ Len(g) = k /\ k \in Nat
      /\ Width \in Nat /\ HmmOK /\ Len(made) \in Nat
  BY GivenFacts, SignIsDirection, SizesAssumption DEF Emoji, Width, TypeInv
<1>2. PICK q : q = Append(hmm.buffer, w)
  OBVIOUS
<1>3. /\ h.buffer = QueuePush(hmm.buffer, Width, w) /\ h.count = k + 1
      /\ Len(hmm.buffer) < Width => h.state = hmm.state /\ h.samples = hmm.samples
      /\ Len(hmm.buffer) = Width =>
           /\ h.state = Counted(hmm.state, AddedPair(q))
           /\ h.samples = IF Ends(q, LookAhead) = NoMove THEN hmm.samples
                          ELSE Counted(hmm.samples, AddedPair(q))
  <2>1. Added(h, w, NoMove)
    BY <1>1, Adds
  <2> QED BY <1>2, <2>1 DEF Added
<1>4. Given' = Append(g, w)
  BY <1>3, GivenGrows
<1>5. /\ k <= Len(made) /\ Len(hmm.buffer) = AtMost(k, Width) /\ Latest(hmm.buffer, g, 0)
      /\ DOMAIN hmm.state = {PairAt(g, e) : e \in PairEnds}
      /\ \A p \in DOMAIN hmm.state : hmm.state[p] = Cardinality(Occurs(p))
      /\ AreSamples(hmm.samples, hmm.state)
  BY DEF HmmInv
<1>6. Len(h.buffer) = AtMost(k + 1, Width) /\ Latest(h.buffer, Given', 0)
  <2>1. hmm.buffer \in Seq(Directions) /\ Len(hmm.buffer) <= Width
    BY <1>1 DEF HmmOK, Width
  <2>2. /\ Len(QueuePush(hmm.buffer, Width, w)) = AtMost(Len(hmm.buffer) + 1, Width)
        /\ Latest(QueuePush(hmm.buffer, Width, w), Append(g, w), 0)
    BY <1>1, <1>5, <2>1, LatestNow
  <2>3. AtMost(Len(hmm.buffer) + 1, Width) = AtMost(k + 1, Width)
    BY <1>1, <1>5 DEF AtMost
  <2> QED BY <1>3, <1>4, <2>2, <2>3
<1>7. k + 1 <= Len(made')
  BY <1>1, <1>5
<1>8. CASE Len(hmm.buffer) < Width
  <2>1. k < Width
    BY <1>1, <1>5, <1>8 DEF AtMost
  <2>2. PairEnds = {} /\ PairEnds' = {}
    BY <1>1, <1>3, <2>1 DEF PairEnds
  <2>3. DOMAIN hmm.state = {} /\ {PairAt(Given, e) : e \in PairEnds}' = {}
    BY <1>5, <2>2
  <2>4. h.state = hmm.state /\ h.samples = hmm.samples
    BY <1>3, <1>8
  <2> QED BY <1>3, <1>5, <1>6, <1>7, <2>3, <2>4 DEF HmmInv
<1>9. CASE Len(hmm.buffer) = Width
  <2>1. Width <= k
    BY <1>1, <1>5, <1>9 DEF AtMost
  <2>2. PICK pair : pair = PairAt(Append(g, w), k + 1)
    OBVIOUS
  <2>3. AddedPair(q) = pair
    <3>1. hmm.buffer \in Seq(Directions)
      BY <1>1 DEF HmmOK
    <3> QED BY <3>1, <1>1, <1>2, <1>5, <1>9, <2>2, AddedIsPair
  <2>4. pair[2] = Ends(q, LookAhead)
    BY <2>3 DEF AddedPair
  <2>5. \A p : /\ PairEnds' = PairEnds \cup {k + 1}
               /\ \A e \in PairEnds : PairAt(Given', e) = PairAt(g, e)
               /\ Cardinality(Occurs(p)') = Cardinality(Occurs(p)) + (IF p = pair THEN 1 ELSE 0)
    BY <1>1, <1>3, <1>4, <2>1, <2>2, OccursMore
  <2>6. h.state = Counted(hmm.state, pair)
    BY <1>3, <1>9, <2>3
  <2>7. IsCounted(h.state, hmm.state, pair)
    BY <2>6, CountedFacts
  <2>10. DOMAIN h.state = {PairAt(Given, e) : e \in PairEnds}'
    <3>1. DOMAIN h.state = DOMAIN hmm.state \cup {pair}
      BY <2>7 DEF IsCounted
    <3>2. {PairAt(Given, e) : e \in PairEnds}' = {PairAt(Given', e) : e \in PairEnds'}
      OBVIOUS
    <3>3. {PairAt(Given', e) : e \in PairEnds'} = {PairAt(g, e) : e \in PairEnds} \cup {pair}
      BY <2>2, <2>5, <1>4
    <3> QED BY <3>1, <3>2, <3>3, <1>5
  <2>8. ASSUME NEW p \in DOMAIN h.state PROVE h.state[p] = Cardinality(Occurs(p)')
    <3>1. h.state[p] = (IF p \in DOMAIN hmm.state THEN hmm.state[p] ELSE 0)
                       + (IF p = pair THEN 1 ELSE 0)
      BY <2>8, <2>7 DEF IsCounted
    <3>2. p \notin DOMAIN hmm.state => Occurs(p) = {}
      BY <1>5 DEF Occurs
    <3>3. p \notin DOMAIN hmm.state => Cardinality(Occurs(p)) = 0
      BY <3>2, FS_EmptySet
    <3> QED BY <3>1, <3>3, <1>5, <2>5
  <2>9. AreSamples(h.samples, h.state)
    <3>1. \A p \in DOMAIN hmm.state : hmm.state[p] \in Nat
      BY <1>1 DEF HmmOK
    <3>2. \/ pair[2] = NoMove /\ h.samples = hmm.samples
          \/ pair[2] # NoMove /\ h.samples = Counted(hmm.samples, pair)
      BY <1>3, <1>9, <2>3, <2>4
    <3>3. IsCounted(Counted(hmm.samples, pair), hmm.samples, pair)
      BY CountedFacts
    <3>4. \/ pair[2] = NoMove /\ h.samples = hmm.samples
          \/ pair[2] # NoMove /\ IsCounted(h.samples, hmm.samples, pair)
      BY <3>2, <3>3
    <3> QED BY <3>1, <3>4, <1>5, <2>7, SampledFacts
  <2> QED BY <1>3, <1>6, <1>7, <2>10, <2>8, <2>9 DEF HmmInv
<1>10. Len(hmm.buffer) < Width \/ Len(hmm.buffer) = Width
  BY <1>1, <1>5 DEF AtMost
<1> QED BY <1>8, <1>9, <1>10

LEMMA HmmStep ==
  ASSUME TypeInv, WindowInv, HmmInv, NEW v \in Trends, Signal(v)
  PROVE  HmmInv'
<1>1. /\ observed' = Append(observed, v) /\ made \in Seq([Details -> Answered])
      /\ observed \in Seq(Trends) /\ collected \in Seq(Trends) /\ QueuesOK
  BY SignalCases DEF TypeInv, QueuesOK
<1>2. Len(made) \in Nat /\ hmm.count \in Nat /\ hmm.count <= Len(made)
  BY <1>1, GivenFacts DEF HmmInv
<1>3. CASE Collecting
  <2>1. hmm' = hmm /\ made' = made /\ ~Overflows(collected, Warm)
    BY <1>3 DEF Collecting, nets
  <2>2. Len(made) = 0
    <3>1. Len(collected) = AtMost(Len(observed), Warm)
          /\ Len(made) = IF Len(observed) > Warm THEN Len(observed) - Warm ELSE 0
      BY DEF WindowInv
    <3>2. Warm \in Nat /\ Len(observed) \in Nat
      BY <1>1, SizesAssumption
    <3> QED BY <2>1, <3>1, <3>2 DEF Overflows, AtMost
  <2> QED BY <2>1, <2>2, <1>2, HmmIdle
<1>4. CASE Filling(v)
  <2>1. ~Ready /\ hmm' = hmm /\ made' = Append(made, [d \in Details |-> None])
    BY <1>4 DEF Filling, nets
  <2>2. hmm.count = 0
    BY <2>1, <1>2 DEF HmmInv
  <2>3. [d \in Details |-> None] \in [Details -> Answered]
    BY DEF Answered
  <2>4. Len(made') \in Nat
    BY <2>1, <2>3, <1>1, AppendProperties
  <2> QED BY <2>1, <2>2, <2>4, HmmIdle
<1>5. ASSUME NEW ans, Learns(v, ans) PROVE HmmInv'
  <2>1. /\ Overflows(collected, Warm) /\ Ready /\ set' = SetPush(Newest(collected), v)
        /\ hmm' = Add(hmm, Emoji(v), NoMove) /\ ans \in [Details -> Answered]
        /\ made' = Append(made, ans)
    BY <1>5 DEF Learns, Answering
  <2>2. Len(made') = Len(made) + 1
    BY <2>1, <1>1, AppendProperties
  <2>3. Ready'
    BY <2>1, <1>1, ReadyStays
  <2> QED BY <2>1, <2>2, <2>3, <1>1, HmmLearns
<1> QED BY <1>3, <1>4, <1>5, SignalCases

LEMMA HmmStutter == HmmInv /\ UNCHANGED vars => HmmInv'
<1> SUFFICES ASSUME HmmInv, UNCHANGED vars PROVE HmmInv'
  OBVIOUS
<1>1. hmm' = hmm /\ observed' = observed /\ made' = made /\ set' = set
  BY DEF vars, nets
<1>2. Given' = Given /\ PairEnds' = PairEnds /\ (Ready <=> Ready')
  BY <1>1 DEF Given, PairEnds, Ready
<1>3. \A p : Occurs(p)' = Occurs(p)
  BY <1>2 DEF Occurs
<1> QED BY <1>1, <1>2, <1>3 DEF HmmInv

\* The model counts what followed what in all it was given, but for the very
\* first pair; what it keeps as samples has the same counts.
THEOREM HmmCountsRight == Spec => []HmmCounts
<1>1. TypeInv /\ HmmInv => HmmCounts
  <2> SUFFICES ASSUME TypeInv, HmmInv PROVE HmmCounts
    OBVIOUS
  <2>1. \A p \in DOMAIN hmm.samples : hmm.samples[p] = hmm.state[p]
    BY DEF HmmInv, AreSamples
  <2>2. /\ DOMAIN hmm.state = {PairAt(Given, e) : e \in PairEnds}
        /\ \A p \in DOMAIN hmm.state : hmm.state[p] = Cardinality({e \in PairEnds : PairAt(Given, e) = p})
    BY DEF HmmInv, Occurs
  <2> QED BY <2>1, <2>2 DEF HmmCounts, Given, PairAt, PairEnds, Width
<1>2. TypeInv /\ WindowInv /\ HmmInv /\ [Next]_vars => (TypeInv /\ WindowInv /\ HmmInv)'
  BY TypeStep, TypeStutter, WindowStep, WindowStutter, HmmStep, HmmStutter DEF Next
<1> QED BY TypeInit, WindowInit, HmmInit, <1>1, <1>2, PTL DEF Spec
=============================================================================
