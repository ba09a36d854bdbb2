SPECIFICATION Spec
CONSTANTS
  Thread = {t1}
  Capacity = 2
  ContextMayFail = TRUE
INVARIANTS RunsUntilEvent
CHECK_DEADLOCK FALSE
