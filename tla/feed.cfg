SPECIFICATION Spec
CONSTANTS
  c1 = c1
  c2 = c2
  None = None
  Partial = Partial
  Garbled = Garbled
  Coins <- TwoCoins
  Times <- ThreeTimes
  Limits = {0, 3}
  BatchCap = 2
  FileSize = 2
  MaxRuns = 2
  MaxFaults = 1
  Requests <- ThreeRequests
CHECK_DEADLOCK FALSE
INVARIANTS
  TypeOK
  InOrder
  StoredFirst
  ReplayNoGap
  
PROPERTIES
  
  Arrives
