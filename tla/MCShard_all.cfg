SPECIFICATION Spec
CONSTANTS
  Shards = {1, 2, 3}
  d1 = d1
  d2 = d2
  Ids = {d1, d2}
  Vals = {a, b}
  None = None
  VNode <- MCVNode
  Hash <- MCHash
  EmptyHash = 5
  MaxCrashes = 1
  MaxErrors = 1
SYMMETRY Symmetry
CHECK_DEADLOCK FALSE
INVARIANTS
  LosesOnlyInFlight
  GetFindsStored
PROPERTIES
  MinimalMovement
