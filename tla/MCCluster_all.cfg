SPECIFICATION Spec
CONSTANTS
  Node = {a, b, c}
  Thread = {t1, t2}
  NoNode = NoNode
  NoFile = NoFile
  Torn = Torn
  AddRoles = {"Primary", "Secondary"}
  ShardCounts = {4, 9}
  MaxRunning = 1
  MaxStarts = 2
  MaxCalls = 2
  MaxFaults = 1
SYMMETRY Symmetry
CHECK_DEADLOCK FALSE
INVARIANTS
  OnePrimary
  FileIsCurrent
  ConfigFollowsLog
  ShardsSpread
  MembersTracked
