SPECIFICATION FairSpec
CONSTANTS
  btc = btc
  none = none
  s1 = s1
  Coins <- OneCoin
  Keys <- OneCoinBareKey
  NoTag = none
  Volumes <- One
  None = None
  All = All
  Blank = Blank
  Gains <- LossOrGain
  Lives <- LiveOnly
  Serial = FALSE
  Faults <- AllFaults
  MaxFaults = 1
  Drifts <- OneDrift
  MaxOrders = 1
PROPERTY
  Adoption
