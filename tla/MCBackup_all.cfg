SPECIFICATION BSpec
CONSTANTS
  Ids = {d1, d2}
  Vals = {a}
  a = a
  x = x
  None = None
  Words = {x}
  Tokens <- MCTokens
  DocsPerPage = 2
  TornWrites = TRUE
  MaxWal = 2
  MaxCrashes = 1
  MaxPowerLosses = 0
  MaxIoErrors = 0
  MaxCompactions = 1
  MaxSeconds = 2
  MaxOps = 2
  MaxJobs = 2
CHECK_DEADLOCK FALSE
SYMMETRY Interchangeable
INVARIANTS
  RestoreIsAMoment
  RestoredDocsWereStored
  RestorableHasWal
