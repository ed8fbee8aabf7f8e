SPECIFICATION Spec
CONSTANTS
  Thread = {t1, t2, t3}
  Nobody = Nobody
  MaxCalls = 2
CHECK_DEADLOCK FALSE
INVARIANTS
  NoDeadlock
