SPECIFICATION FairSpec
CONSTANTS
  Task = {t1, t2, t3}
  Ids = {i1}
  PoolSize = 2
  MaxWal = 1
  MaxCompactions = 1
CHECK_DEADLOCK FALSE
PROPERTIES
  EveryRequestServed
