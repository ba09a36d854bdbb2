SPECIFICATION Spec
CONSTANTS
  Connection = {c1, c2}
  ClientMessage <- OneRequest
  Custom = {"method", "notify", "connected", "disconnected"}
  Failing = {"malloc", "lws_write"}
  IntLimit = 2
  MaxCalls = 2
  MaxInbox = 1
  MaxQueue = 2
  NULL = NULL
INVARIANTS TypeOK WritableArmed NoCallForgotten EachCallOnce
PROPERTIES FramesInOrder AnswersMatchCalls
CHECK_DEADLOCK FALSE
