SPECIFICATION FairSpec
CONSTANTS
  Connection = {c1, c2}
  ClientMessage <- OneRequest
  Custom = {"method", "notify", "connected", "disconnected"}
  Failing = {}
  IntLimit = 2
  MaxCalls = 1
  MaxInbox = 1
  MaxQueue = 1
  NULL = NULL
PROPERTIES EveryCallAnswered
CHECK_DEADLOCK FALSE
