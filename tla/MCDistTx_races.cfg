SPECIFICATION Spec
CONSTANTS
  Tx = {x1}
  Thread = {t1, t2}
  Participant = {p1, p2}
  Op = {o1}
  None = None
  MaxRestarts = 1
SYMMETRY Symmetry
CHECK_DEADLOCK FALSE
INVARIANTS
  PreparedMeansAllYes
  OneDecision
  CommittedIsApplied
