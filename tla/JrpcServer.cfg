SPECIFICATION FairSpec
CONSTANTS
  Thread = {t1, t2, t3}
  Capacity = 2
  ContextMayFail = FALSE
INVARIANTS TypeOK ReadNeverBlocks RunsUntilEvent
PROPERTIES WakeupInterrupts WakeupReturns
CHECK_DEADLOCK FALSE
