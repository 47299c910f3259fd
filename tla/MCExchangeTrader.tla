--------------------------- MODULE MCExchangeTrader -------------------------
(* Instances of ExchangeTrader for TLC.                                    *)
EXTENDS ExchangeTrader

CONSTANTS btc, none, s1

\* One coin whose positions are keyed by the bare key of the sync and by one
\* key with a strategy.
OneCoin == {btc}
OneCoinKeys == [coin : {btc}, duration : {0}, tag : {none, s1}]

OneCoinBareKey == [coin : {btc}, duration : {0}, tag : {none}]

One == {1}
Drifted == {0, 1, -2}
OneDrift == {-2}
LossOrGain == {-1, 1}
LiveOnly == {TRUE}
LiveAndPaper == BOOLEAN
AllFaults == FaultKinds
NoFaults == {}
=============================================================================
