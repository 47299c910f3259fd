SPECIFICATION Spec
CONSTANTS
  btc = btc
  none = none
  s1 = s1
  Coins <- OneCoin
  Keys <- OneCoinKeys
  NoTag = none
  Volumes <- One
  None = None
  All = All
  Blank = Blank
  Gains <- LossOrGain
  Lives <- LiveAndPaper
  Serial = TRUE
  Faults <- AllFaults
  MaxFaults = 1
  Drifts <- OneDrift
  MaxOrders = 3
INVARIANTS
  TypeOK
  BookMatchesExchange
  
  DiskCoversBook
  ResultsCountedOnce
  CommandSafe
PROPERTIES
  RestartKeepsCoins
  ClosingShrinks
