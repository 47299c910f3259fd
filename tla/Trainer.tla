------------------------------- MODULE Trainer ------------------------------
(***************************************************************************)
(* What the ml processor learns from the signals of one segment:           *)
(*                                                                         *)
(*   signal -> Collector -> vector -> scores of the last predictions       *)
(*                             |                                           *)
(*                          DataSet -> train and predict each network      *)
(*                                                                         *)
(* The reprocessor of cmd/train is fed the same signals: it has a score    *)
(* keeping and a training loop of its own around the same networks.        *)
(* A signal is processed in one step, with the vector it may give: what    *)
(* can happen in between is module Pipeline.  An observation is the trend  *)
(* of a signal, in quarters of a percent.  The networks of a segment are   *)
(* a GRU, one Polynomial for each of Orders, an HMM, and a MultiNetwork of *)
(* copies of the polynomials.  What the GRU answers is left open; the fit  *)
(* of a polynomial is the exact one.                                       *)
(***************************************************************************)
EXTENDS Buffers, HMM, Integers, Sequences, FiniteSets

CONSTANTS
  Trends,      \* observations
  Orders,      \* the polynomials: the size of the buffer and the degree of each
  Answers,     \* directions the GRU may answer
  Warm,        \* LookBack + LookAhead of the segment: size of the collector
  In, Out,     \* sizes of the data set
  Losses,      \* size of the loss buffer of a network
  Spread,      \* a trend is a direction beyond it (1 percent)
  Half,        \* a trend is a move beyond it (0.5 percent)
  None,        \* no prediction yet
  MaxSignals   \* bound on the signals

Members == 1 .. Len(Orders)
\* model.Detail: the type of a network and its index in the segment.
Gru == <<"GRU", 0>>
Hmm == <<"HMM", Len(Orders) + 1>>
Multi == <<"Multi", Len(Orders) + 2>>
Poly(i) == <<"Polynomial", i>>
Details == {Gru, Hmm, Multi} \cup {Poly(i) : i \in Members}

\* Buffer sizes and degrees: what the default configuration asks for, and the
\* smallest there is.
Shapes == {<<1, 1>>, <<2, 1>>, <<2, 2>>, <<4, 3>>}
Size(i) == Orders[i][1]

ASSUME OrdersAssumption == Orders \in Seq(Shapes) /\ Orders # <<>>
ASSUME SizesAssumption ==
  /\ Warm \in Nat \ {0} /\ In \in Nat \ {0} /\ Out \in Nat \ {0} /\ Losses \in Nat
  /\ Trends \subseteq Int /\ Answers \subseteq -1 .. 1
  /\ Spread \in Nat /\ Half \in Nat /\ Half <= Spread
  /\ LookBack \in 1 .. In + 1 /\ LookAhead \in Nat \ {0} /\ MaxSignals \in Nat
  /\ None \notin Int

VARIABLES
  collected,  \* MultiBuffer of the collector
  set,        \* DataSet: In and Out
  poly,       \* per order, the buffer of the polynomial
  copies,     \* per order, the buffer of its copy in the MultiNetwork
  hmm,        \* the HMM
  base,       \* BaseNetwork.track: last prediction, loss buffer and metrics
  tracker,    \* Tracker of the segment: predictions and performance
  reprocess,  \* the same of the reprocessor: prediction and performance
  observed,   \* ghost: the observations
  made        \* ghost: per vector, the predictions that were made

nets == <<poly, copies, hmm>>
vars == <<collected, set, nets, base, tracker, reprocess, observed, made>>

Sign(v, gap) == IF v > gap THEN 1 ELSE IF v < -gap THEN -1 ELSE 0
Outcomes == {"wrong", "right", "early", "missed", "quiet"}

\* The maps of predictions and of scores, both empty.
NoScores ==
  [prediction |-> [d \in Details |-> None],
   performance |-> [d \in Details |->
     [num |-> 0, total |-> 0, of |-> [o \in Outcomes |-> 0]]]]

\* NewTracker: no prediction, no losses, no performance.
NewTracker == [prediction |-> None, losses |-> 0, total |-> 0, match |-> 0, false |-> 0]

Init ==
  /\ collected = <<>> /\ set = [in |-> <<>>, out |-> <<>>]
  /\ poly = [i \in Members |-> <<>>] /\ copies = [i \in Members |-> <<>>]
  /\ hmm = NewHMM
  /\ base = [d \in Details |-> NewTracker]
  /\ tracker = NoScores /\ reprocess = NoScores
  /\ observed = <<>> /\ made = <<>>

-----------------------------------------------------------------------------
(* Scores: the predictions are compared with the observation after them.   *)

Outcome(reality, prediction) ==
  CASE reality * prediction < 0 -> "wrong"
    [] reality * prediction > 0 -> "right"
    [] reality = 0 /\ prediction # 0 -> "early"
    [] reality # 0 /\ prediction = 0 -> "missed"
    [] OTHER -> "quiet"

\* Mutant: a prediction of no move is taken for none.
ScoredMoves(scores, v) ==
  [d \in Details |->
     LET p == scores.performance[d]
         prediction == scores.prediction[d]
     IN  IF prediction \in {None, 0} THEN p
         ELSE [num |-> p.num + 1, total |-> p.total + 1,
               of |-> [p.of EXCEPT ![Outcome(Sign(v, Half), prediction)] = @ + 1]]]

Scored(scores, v) ==
  [d \in Details |->
     LET p == scores.performance[d]
         prediction == scores.prediction[d]
     IN  IF prediction = None THEN p
         ELSE [num |-> p.num + 1, total |-> p.total + (IF prediction = 0 THEN 0 ELSE 1),
               of |-> [p.of EXCEPT ![Outcome(Sign(v, Half), prediction)] = @ + 1]]]

-----------------------------------------------------------------------------
(* Networks.                                                               *)

\* Mutant: the data set is filled with what was just observed.
SetPushNow(prev, v) == [in |-> QueuePush(set.in, In, v), out |-> QueuePush(set.out, Out, v)]

\* DataSet.Push
SetPush(prev, v) == [in |-> QueuePush(set.in, In, prev), out |-> QueuePush(set.out, Out, v)]
Ready == Overflows(set.in, In) /\ Overflows(set.out, Out)

\* Polynomial.Train has no error once its buffer was full.
PolyTrained(i) == Overflows(poly[i], Size(i))

PolyTrain(v) == [i \in Members |-> QueuePush(poly[i], Size(i), v)]

\* Mutant: a member that is full is not trained any more.
MultiTrainOnce(v) ==
  [i \in Members |-> IF \A j \in 1 .. i - 1 : Overflows(copies[j], Size(j))
                     THEN QueueKeepOld(copies[i], Size(i), v) ELSE copies[i]]

\* MultiNetwork.Train stops at the first member that is not full yet.
MultiTrained == \A i \in Members : Overflows(copies[i], Size(i))
MultiTrain(v) ==
  [i \in Members |-> IF \A j \in 1 .. i - 1 : Overflows(copies[j], Size(j))
                     THEN QueuePush(copies[i], Size(i), v) ELSE copies[i]]

\* Polynomial.Predict: the curve that fits the buffer and the newest observation
\* best, one step on; its first coefficient is added once more.  Only the fits
\* of degree 1 to 3 points and of degree 3 to 5 points leave a residue.
PolyPredict(i, buffer, newest) ==
  LET y == Append(buffer, newest)
  IN  CASE Orders[i] = <<1, 1>> -> Sign(2 * y[2], Spread)
        [] Orders[i] = <<2, 1>> -> Sign(y[1] + 4 * y[2] + 7 * y[3], 6 * Spread)
        [] Orders[i] = <<2, 2>> -> Sign(2 * y[1] - 3 * y[2] + 3 * y[3], Spread)
        [] OTHER -> Sign(13 * y[1] + 158 * y[2] - 62 * y[3] - 192 * y[4] + 223 * y[5],
                         70 * Spread)

\* MultiNetwork.Predict
Agreed(answers) == IF \A i \in Members : answers[i] = answers[1] THEN answers[1] ELSE 0

\* GRU.Train has no error, its loss is told.  A step is quantified.
GruAnswers == Answers

\* toEmoji and fromEmoji: a value is the word of its direction.
Emoji(v) == Sign(v, Spread)
Emojis(values) == [i \in DOMAIN values |-> Emoji(values[i])]

\* HMM.Predict: one direction, when the best value has no other.
Direction(value) == IF \A i \in DOMAIN value : value[i] = value[1] THEN value[1] ELSE 0
HmmAnswers(model, input) ==
  LET values == Predict(model, Emojis(input))
  IN  IF values = {} THEN {0} ELSE {Direction(x) : x \in values}

\* Mutant: a model that does not know what it was asked has an error.
LearnedKnown ==
  LET known == Predict(hmm', Emojis(Append(set'.in, Newest(observed')))) # {}
  IN  {Gru} \cup {d \in {Hmm} : known} \cup {Poly(i) : i \in {j \in Members : PolyTrained(j)}}
            \cup (IF MultiTrained THEN {Multi} ELSE {})

\* The networks whose training had no error.
Learned == {Gru, Hmm} \cup {Poly(i) : i \in {j \in Members : PolyTrained(j)}}
                      \cup (IF MultiTrained THEN {Multi} ELSE {})

\* How far a prediction was off; a multi-network adds up its members.
Loss(d, v, prediction) ==
  (IF d = Multi THEN Len(Orders) ELSE 1) * (Sign(v, Spread) - prediction)

\* Mutant: a prediction of no move counts as a match.
AssessedAll(d, b, v) ==
  IF b.prediction = None THEN b
  ELSE IF b.losses < Losses THEN [b EXCEPT !.losses = @ + 1]
  ELSE LET hit == Loss(d, v, b.prediction) = 0
       IN  [b EXCEPT !.total = @ + 1,
                     !.match = IF hit THEN @ + 1 ELSE @,
                     !.false = IF ~hit THEN @ + 1 ELSE @]

\* BaseNetwork.Push: how the last prediction of a network did.
Assessed(d, b, v) ==
  IF b.prediction = None THEN b
  ELSE IF b.losses < Losses THEN [b EXCEPT !.losses = @ + 1]
  ELSE LET hit == Loss(d, v, b.prediction) = 0
       IN  [b EXCEPT !.total = @ + 1,
                     !.match = IF b.prediction # 0 /\ hit THEN @ + 1 ELSE @,
                     !.false = IF b.prediction # 0 /\ ~hit THEN @ + 1 ELSE @]

Answer(d, gru, hmmAnswer, newest) ==
  CASE d = Gru -> gru
    [] d = Hmm -> hmmAnswer
    [] d = Multi -> Agreed([i \in Members |-> PolyPredict(i, copies'[i], newest)])
    [] OTHER -> PolyPredict(d[2], poly'[d[2]], newest)

\* The trainer of the reprocessor: what a vector answered replaces the whole
\* map of predictions.
Reprocessed(v, predictions) ==
  [performance |-> Scored(reprocess, v), prediction |-> predictions]

\* Every network is trained; those that learned are assessed and predict.
Learn(v, input) ==
  /\ poly' = PolyTrain(v) /\ copies' = MultiTrain(v)
  /\ hmm' = Add(hmm, Emoji(v), [i \in 1 .. LookAhead |-> 0])
  /\ \E gru \in GruAnswers, h \in HmmAnswers(hmm', input) :
       LET out == [d \in Learned |-> Answer(d, gru, h, v)]
       IN  /\ base' = [d \in Details |->
                         IF d \in DOMAIN out
                         THEN [Assessed(d, base[d], v) EXCEPT !.prediction = out[d]] ELSE base[d]]
           /\ tracker' = [performance |-> Scored(tracker, v),
                          prediction |-> [d \in Details |->
                            IF d \in DOMAIN out THEN out[d] ELSE tracker.prediction[d]]]
           /\ reprocess' = Reprocessed(v, [d \in Details |->
                            IF d \in DOMAIN out THEN out[d] ELSE None])
           /\ made' = Append(made, [d \in Details |->
                        IF d \in DOMAIN out THEN out[d] ELSE None])

\* The trainer gets the vector of prev and v.
Vector(prev, v) ==
  /\ set' = SetPush(prev, v)
  /\ IF Ready THEN Learn(v, Append(set'.in, v))
     ELSE /\ UNCHANGED <<nets, base>>
          /\ tracker' = [tracker EXCEPT !.performance = Scored(tracker, v)]
          /\ reprocess' = Reprocessed(v, reprocess.prediction)
          /\ made' = Append(made, [d \in Details |-> None])

\* Collector.push: once its buffer is full, a signal and the one before it
\* make a vector.
Signal(v) ==
  /\ Len(observed) < MaxSignals
  /\ observed' = Append(observed, v)
  /\ collected' = QueuePush(collected, Warm, v)
  /\ IF Overflows(collected, Warm) THEN Vector(Newest(collected), v)
     ELSE UNCHANGED <<set, nets, base, tracker, reprocess, made>>

Next == \E v \in Trends : Signal(v)

Spec == Init /\ [][Next]_vars

-----------------------------------------------------------------------------
(* Properties.                                                             *)

\* The shape of the state.
TypeOK ==
  /\ collected \in Seq(Trends) /\ Len(collected) <= Warm
  /\ set.in \in Seq(Trends) /\ Len(set.in) <= In
  /\ set.out \in Seq(Trends) /\ Len(set.out) <= Out
  /\ \A b \in {poly, copies} : \A i \in Members :
       b[i] \in Seq(Trends) /\ Len(b[i]) <= Size(i)
  /\ hmm.buffer \in Seq(-1 .. 1) /\ Len(hmm.buffer) <= LookBack + LookAhead
  /\ \A d \in Details :
       /\ base[d].prediction \in (-1 .. 1) \cup {None} /\ base[d].losses \in 0 .. Losses
       /\ tracker.prediction[d] \in (-1 .. 1) \cup {None}
  /\ observed \in Seq(Trends)

Vectors == Len(made)

\* What a network is trained on belongs together: the last input of the data
\* set is the observation before its last output, and so on backwards,
\* although inputs and outputs are kept in windows of different sizes.
PairsFollow ==
  LET n == Len(observed)
  IN  /\ \A i \in 0 .. Len(set.in) - 1 : set.in[Len(set.in) - i] = observed[n - 1 - i]
      /\ \A i \in 0 .. Len(set.out) - 1 : set.out[Len(set.out) - i] = observed[n - i]
      /\ Len(set.in) = (IF Vectors < In THEN Vectors ELSE In)

\* Every prediction is scored once, against the observation that followed it,
\* whenever the networks started to predict; the reprocessor scores alike.
ScoredOnce ==
  \A d \in Details :
    LET known == {i \in 1 .. Vectors - 1 : made[i][d] # None}
        scored(o) == {i \in known : Outcome(Sign(observed[Warm + i + 1], Half), made[i][d]) = o}
        due == [o \in Outcomes |-> Cardinality(scored(o))]
    IN  tracker.performance[d].of = due /\ reprocess.performance[d].of = due

\* The trainer compares and the base network assesses what was predicted on
\* the last vector: a network that once predicted never skips one, so the
\* predictions the trainer keeps are never stale, and the reprocessor, which
\* forgets those it gets no answer for, has the same.
PredictionsCurrent ==
  Vectors > 0 => \A d \in Details : /\ tracker.prediction[d] = made[Vectors][d]
                                    /\ reprocess.prediction[d] = made[Vectors][d]
                                    /\ base[d].prediction = made[Vectors][d]

\* The copies in the multi-network, which are trained one after the other and
\* only as far as the first that is not full, have caught up with the
\* networks they are copies of when the multi-network predicts.
CopiesAgree == base[Multi].prediction # None => copies = poly

\* The model counts how often a value followed a key in what it was given;
\* only the very first pair is never counted.
HmmCounts ==
  LET n == Len(observed)
      given == [i \in 1 .. hmm.count |-> Sign(observed[n - hmm.count + i], Spread)]
      width == LookBack + LookAhead
      pair(e) == <<SubSeq(given, e - width + 1, e - LookAhead), SubSeq(given, e - LookAhead + 1, e)>>
      ends == width + 1 .. hmm.count
  IN  /\ DOMAIN hmm.state = {pair(e) : e \in ends}
      /\ \A p \in DOMAIN hmm.state : hmm.state[p] = Cardinality({e \in ends : pair(e) = p})
      /\ \A p \in DOMAIN hmm.samples : hmm.samples[p] = hmm.state[p]

\* The two scores of a network agree: what the base network calls a match the
\* trainer calls right, and neither counts more moves than were predicted.
MatchesAreRight ==
  \A d \in Details :
    LET p == tracker.performance[d]
    IN  base[d].match <= p.of["right"] /\ base[d].match + base[d].false <= p.total
=============================================================================
