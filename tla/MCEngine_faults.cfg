SPECIFICATION MCSpec
CONSTANTS
  Ids = {d1, d2}
  Vals = {a, b}
  a = a
  b = b
  x = x
  y = y
  None = None
  Words = {x, y}
  Tokens <- MCTokens
  DocsPerPage = 1
  TornWrites = TRUE
  MaxWal = 2
  MaxCrashes = 2
  MaxPowerLosses = 1
  MaxIoErrors = 1
  MaxCompactions = 3
SYMMETRY Symmetry
CHECK_DEADLOCK FALSE
INVARIANTS
  EngineInv
  DurableThroughCrashes
  SearchComplete
  FeedGapless
  FeedOnlyCommitted
  ReplayIsLastCommitted
  ImageBeforeTruncation
  RecentWritesSurvive
PROPERTIES
  OnlyCommitIsDurable
