SPECIFICATION CSpec
CONSTANTS
  Ids = {i1, i2}
  i1 = i1
  i2 = i2
  put = put
  TxOps = {put}
  Bodies <- MCBodies
  Keys = {1, 2}
  None = None
  Unreadable = Unreadable
  MaxCalls = 7
  MaxFaults = 2
CHECK_DEADLOCK FALSE
SYMMETRY Interchangeable
INVARIANTS
  QueriesExact
  SavedSurvives
  ReplayIsCommitted
