SPECIFICATION Spec
CONSTANTS
  Params = {"value", "circular", NULL}
  Strings = {"utf8", "other"}
  Failing = {"malloc"}
  NULL = NULL
INVARIANTS NothingLeaks
PROPERTIES FrameComplete
