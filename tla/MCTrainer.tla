------------------------------ MODULE MCTrainer -----------------------------
(* Instances of Trainer for TLC.                                           *)
EXTENDS Trainer

\* No move, half a percent and more, and more than one percent down.
ThreeTrends == {0, 3, -6}
TwoOrders == <<<<2, 2>>, <<2, 1>>>>
Up == {1}
=============================================================================
