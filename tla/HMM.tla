--------------------------------- MODULE HMM --------------------------------
(***************************************************************************)
(* internal/buffer/hmm.go for one HMMConfig: it counts which LookAhead     *)
(* values followed which LookBack values.  A Sequence is a sequence; the   *)
(* values are directions -1, 0 and 1.                                      *)
(***************************************************************************)
LOCAL INSTANCE Integers
LOCAL INSTANCE Sequences
LOCAL INSTANCE Functions
LOCAL INSTANCE FiniteSets

CONSTANTS LookBack, LookAhead

Ends(s, n) == SubSeq(s, Len(s) - n + 1, Len(s))

\* state counts pairs of key and value, samples what is worth keeping of them.
NewHMM == [buffer |-> <<>>, count |-> 0, state |-> <<>>, samples |-> <<>>]

Counted(f, x) == [y \in DOMAIN f \cup {x} |->
                    (IF y \in DOMAIN f THEN f[y] ELSE 0) + (IF y = x THEN 1 ELSE 0)]

\* Mutant: the values before the last one was added are digested.
AddLate(hmm, v, ignored) ==
  LET values == Append(hmm.buffer, v)
      pair == <<SubSeq(hmm.buffer, 1, LookBack), Ends(hmm.buffer, LookAhead)>>
  IN  IF Len(values) <= LookBack + LookAhead
      THEN [hmm EXCEPT !.buffer = values, !.count = @ + 1]
      ELSE [buffer |-> Tail(values), count |-> hmm.count + 1,
            state |-> Counted(hmm.state, pair),
            samples |-> IF pair[2] = ignored THEN hmm.samples ELSE Counted(hmm.samples, pair)]

\* Add and digest: once the buffer overflowed, the values left in it are a key
\* and the value that followed it.
Add(hmm, v, ignored) ==
  LET values == Append(hmm.buffer, v)
      pair == <<SubSeq(Tail(values), 1, LookBack), Ends(values, LookAhead)>>
  IN  IF Len(values) <= LookBack + LookAhead
      THEN [hmm EXCEPT !.buffer = values, !.count = @ + 1]
      ELSE [buffer |-> Tail(values), count |-> hmm.count + 1,
            state |-> Counted(hmm.state, pair),
            samples |-> IF pair[2] = ignored THEN hmm.samples ELSE Counted(hmm.samples, pair)]

\* PredictionList: sorted by count, values with one count in any order.  The
\* pairs that may come first.
Best(hmm, pairs) == {p \in pairs : \A q \in pairs : hmm.state[p] >= hmm.state[q]}

\* Predict: the best value that followed the end of the input.
Predict(hmm, input) ==
  {p[2] : p \in Best(hmm, {q \in DOMAIN hmm.state : q[1] = Ends(input, LookBack)})}
=============================================================================
