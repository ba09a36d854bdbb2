SPECIFICATION MainFair
CONSTANTS
  Thread = {}
  Capacity = 1
  ContextMayFail = TRUE
  Address = {a1, a2, a3, a4}
  Text = {"chat", "p", "q"}
  DefaultName = "jrpc"
  ChatName = "chat"
  StrdupMayFail = TRUE
  NULL = NULL
INVARIANTS StringsOwned HeldNotFreed ServedAsSet ShutdownRemembered ExitsDisposed
PROPERTIES ShutdownEnds
CHECK_DEADLOCK FALSE
