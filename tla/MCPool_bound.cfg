SPECIFICATION Spec
CONSTANTS
  Task = {t1, t2, t3}
  Ids = {i1, i2}
  PoolSize = 2
  MaxWal = 2
  MaxCompactions = 2
SYMMETRY Symmetry
CHECK_DEADLOCK FALSE
INVARIANTS
  PoolBounded
  FilesHoldAcknowledged
  AloneIsFresh
