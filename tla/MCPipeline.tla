---------------------------- MODULE MCPipeline ------------------------------
(* Instances of Pipeline for TLC.                                          *)
EXTENDS Pipeline

CONSTANTS btc, eth

TradeAndMl == {"trade", "ml"}
MlOnly == {"ml"}

OneCoin == {btc}
TwoCoins == {btc, eth}

\* As the configuration of cmd/free-coin has them: one key per coin.
OneKey == [coin : {btc}, duration : {15}, net : {"base"}]
\* Two networks for one coin and duration, and another coin.
ThreeKeys == [coin : {btc}, duration : {15}, net : {"base", "other"}]
               \cup [coin : {eth}, duration : {15}, net : {"base"}]
=============================================================================
