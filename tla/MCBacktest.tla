----------------------------- MODULE MCBacktest -----------------------------
(* Instances of Backtest for TLC.                                          *)
EXTENDS Backtest

\* A move from one price to the other is over the thresholds.
TwoPrices == {1140, 1260}
NowOrLater == {0, 2}
\* Both fall; one rises; one falls, and the other is no trend.
ThreeCurves == {<<-2, -2>>, <<2, 1>>, <<1, -2>>}
=============================================================================
