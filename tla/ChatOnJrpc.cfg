SPECIFICATION ChatFair
CONSTANTS
  Connection = {c1, c2}
  ClientMessage <- RequestsAndNotifications
  Custom = {"method", "notify", "connected", "disconnected"}
  Failing = {}
  IntLimit = 2
  MaxCalls = 2
  MaxInbox = 1
  MaxQueue = 9
  MaxWaiting = 2
  NULL = NULL
INVARIANTS RecipientsOpen AnswersInOrder
PROPERTIES UsesProtocolRight EveryCallAnswered
CHECK_DEADLOCK FALSE
