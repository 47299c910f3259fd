SPECIFICATION Spec
CONSTANTS
  c1 = c1
  c2 = c2
  AllCoins = AllCoins
  None = None
  NoRoute = NoRoute
  Coins = {c1, c2}
  Values <- Numbers
  Messages <- Several
  Loads <- FourLoads
CHECK_DEADLOCK FALSE
INVARIANTS
  TypeOK
  UpdatesKept
PROPERTIES
  CommandsEnd
  RouteFree
