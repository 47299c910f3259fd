-------------------------------- MODULE MCFeed ------------------------------
(* Instances of Feed for TLC.                                              *)
EXTENDS Feed

CONSTANTS c1, c2

TwoCoins == <<c1, c2>>
OneCoin == <<c1>>
\* Of the first coin two trades in the first four hours, one in the next.
ThreeTimes == [c \in {c1, c2} |-> IF c = c1 THEN <<2, 3, 5>> ELSE <<3>>]
\* All, the trades in the middle, and a request that skips the first bucket.
ThreeRequests == {<<0, 7>>, <<1, 6>>, <<2, 6>>}
=============================================================================
