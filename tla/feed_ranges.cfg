SPECIFICATION RangesSpec
CONSTANTS
  c1 = c1
  c2 = c2
  None = None
  Partial = Partial
  Garbled = Garbled
  Coins <- TwoCoins
  Times <- ThreeTimes
  Limits = {0}
  BatchCap = 2
  FileSize = 2
  MaxRuns = 2
  MaxFaults = 0
  Requests <- ThreeRequests
CHECK_DEADLOCK FALSE
PROPERTIES
  OnlyDuplicatesRemoved
