SPECIFICATION Spec
CONSTANTS
  btc = btc
  eth = eth
  Buffered <- TradeAndMl
  Coins <- OneCoin
  Keys <- OneKey
  None = None
  AllCoins = AllCoins
  UserStops = FALSE
  MayStop = FALSE
  MaxTrades = 2
CHECK_DEADLOCK FALSE
INVARIANT
  EmptyIntervalsIgnored
