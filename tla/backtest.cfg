SPECIFICATION Spec
CONSTANTS
  Nil = Nil
  None = None
  MaxFloat = 1000000
  Prices <- TwoPrices
  Steps <- NowOrLater
  Curves <- ThreeCurves
  Threshold = 1
  Interval = 1
  Duration = 2
  Samples = 2
  Fee = 2
  Limit = 20
  MaxTrades = 4
  MaxFlushes = 5
  MaxOrders = 2
CHECK_DEADLOCK FALSE
INVARIANTS
  TypeOK
  
  PointsAreHistory
  ShiftIsSwitch
  VolumeIsBook
  
PROPERTIES
  ClosesOnFreshTrend
  KeepsLastN
