SPECIFICATION FairSpec
CONSTANTS
  Connection = {c1}
  ClientMessage <- AllKinds
  Custom = {}
  Failing = {}
  IntLimit = 2
  MaxCalls = 2
  MaxInbox = 2
  MaxQueue = 0
  NULL = NULL
INVARIANTS IdRepeated InOrderUnlessDeferred
PROPERTIES EveryCallAnswered
CHECK_DEADLOCK FALSE
