SPECIFICATION Spec
CONSTANTS
  Node = {n1, n2, n3}
  Nil = Nil
  Command = {c1, c2}
  MaxTerm = 2
  MaxElections = 2
  MaxLog = 2
  MaxAppends = 1
  MaxFaults = 1
SYMMETRY Symmetry
CHECK_DEADLOCK FALSE
INVARIANTS
  ElectionSafetyUnlessReloaded
  OneCommandPerSlot
  CommittedIsReplicated
PROPERTIES
  LeaderAppendOnly
