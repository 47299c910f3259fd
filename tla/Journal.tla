------------------------------- MODULE Journal ------------------------------
(***************************************************************************)
(* What a registry promises: a log per key that only grows, by one event   *)
(* at a time, at its end.                                                  *)
(***************************************************************************)
EXTENDS Integers, Sequences

CONSTANT Keys

VARIABLE log

Init == log = [k \in Keys |-> <<>>]

\* The log after is the log before, with one more event of a key.
Added(before, after) == \E k \in Keys :
  /\ Len(after[k]) = Len(before[k]) + 1
  /\ after = [before EXCEPT ![k] = Append(@, after[k][Len(before[k]) + 1])]

Next == Added(log, log')

Spec == Init /\ [][Next]_log
=============================================================================
