SPECIFICATION Spec
CONSTANTS
  Callers = {c1, c2}
  Threads = {t1, t2}
  c1 = c1
  c2 = c2
  t1 = t1
  t2 = t2
  Ids = {0, 1, 2, 3, 4, 5, 6, 7, 8}
  Bodies <- MCBodies
  Files <- MCFiles
  Queries <- MCQueries
  None = None
  MaxCalls = 3
CHECK_DEADLOCK FALSE
SYMMETRY Interchangeable
INVARIANTS
  QueryMeansCnf
