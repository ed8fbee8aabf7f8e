SPECIFICATION MCSpec
CONSTANTS
  Ids = {d1, d2}
  Vals = {a, b}
  a = a
  b = b
  x = x
  y = y
  None = None
  Words = {x, y}
  Tokens <- MCTokens
  DocsPerPage = 1
  TornWrites = FALSE
  MaxWal = 2
  MaxCrashes = 2
  MaxPowerLosses = 0
  MaxIoErrors = 0
  MaxCompactions = 1
CHECK_DEADLOCK FALSE
INVARIANTS
  InSyncWithoutFaults
PROPERTIES
  EveryChangeDelivered
  CallReturns
  ImplementsDurableStore
