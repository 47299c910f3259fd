SPECIFICATION FairSpec
CONSTANTS
  btc = btc
  eth = eth
  Buffered <- MlOnly
  Coins <- OneCoin
  Keys <- OneKey
  None = None
  AllCoins = AllCoins
  UserStops = TRUE
  MayStop = FALSE
  MaxTrades = 2
CHECK_DEADLOCK FALSE
PROPERTY
  TradeAcknowledged
