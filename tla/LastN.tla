-------------------------------- MODULE LastN -------------------------------
(***************************************************************************)
(* What a history promises: the last N values that were added, oldest      *)
(* first, since it was last emptied.                                       *)
(***************************************************************************)
EXTENDS Integers, Sequences

CONSTANT N  \* positive

VARIABLE kept

Init == kept = <<>>

Suffix(s) == IF Len(s) > N THEN SubSeq(s, Len(s) - N + 1, Len(s)) ELSE s

Add == /\ kept' # <<>>
       /\ kept' = Suffix(Append(kept, kept'[Len(kept')]))

Clear == kept' = <<>>

Next == Add \/ Clear

Spec == Init /\ [][Next]_kept
=============================================================================
