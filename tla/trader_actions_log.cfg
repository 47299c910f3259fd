SPECIFICATION Spec
CONSTANTS
  btc = btc
  none = none
  s1 = s1
  Coins <- OneCoin
  Keys <- OneCoinBareKey
  NoTag = none
  Volumes <- One
  None = None
  All = All
  Blank = Blank
  Gains <- LossOrGain
  Lives <- LiveOnly
  Serial = TRUE
  Faults <- NoFaults
  MaxFaults = 1
  Drifts <- Drifted
  MaxOrders = 2
INVARIANT
  ActionsHoldEveryOrder
