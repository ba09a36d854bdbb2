SPECIFICATION Spec
CONSTANTS
  Connection = {c1}
  ClientMessage <- WideIds
  Custom = {}
  Failing = {}
  IntLimit = 2
  MaxCalls = 1
  MaxInbox = 1
  MaxQueue = 1
  NULL = NULL
INVARIANTS IdRepeated
CHECK_DEADLOCK FALSE
