SPECIFICATION Spec
CONSTANTS
  Nil = Nil
  None = None
  MaxFloat = 1000
  Trends <- ThreeTrends
  Orders <- TwoOrders
  Answers <- Up
  Warm = 1
  In = 2
  Out = 1
  LookBack = 1
  LookAhead = 1
  Losses = 1
  Spread = 4
  Half = 2
  MaxSignals = 9
CHECK_DEADLOCK FALSE
INVARIANTS
  TypeOK
  PairsFollow
  ScoredOnce
  PredictionsCurrent
  CopiesAgree
  HmmCounts
  MatchesAreRight
