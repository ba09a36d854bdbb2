SPECIFICATION Spec
CONSTANTS
  Connection = {c1}
  ClientMessage <- LongMessages
  Custom = {}
  Failing = {}
  IntLimit = 2
  MaxCalls = 1
  MaxInbox = 2
  MaxQueue = 1
  NULL = NULL
INVARIANTS NoCallForgotten
CHECK_DEADLOCK FALSE
