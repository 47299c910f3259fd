SPECIFICATION FairSpec
CONSTANTS
  btc = btc
  eth = eth
  Buffered <- MlOnly
  Coins <- TwoCoins
  Keys <- ThreeKeys
  None = None
  AllCoins = AllCoins
  UserStops = FALSE
  MayStop = TRUE
  MaxTrades = 2
CHECK_DEADLOCK FALSE
INVARIANTS
  TypeOK
  MapsExclusive
  AtMostOnce
PROPERTIES
  TradeAcknowledged
  InterruptEnds
