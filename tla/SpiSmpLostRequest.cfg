SPECIFICATION Spec
CONSTANTS
  Dev = {0, 1}
  NoDev = NoDev
  QueueSize = 2
  MaxCalls = 0
  Calls = {"queue", "acquire", "poll"}
  SameCore = FALSE
INVARIANT NoLostWork
CHECK_DEADLOCK FALSE
