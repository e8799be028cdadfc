SPECIFICATION Spec
CONSTANTS
  Dev = {0, 1, 2}
  NoDev = NoDev
  QueueSize = 1
  MaxCalls = 0
  Calls = {"acquire", "poll"}
  SameCore = FALSE
INVARIANT PollingHoldsBus
INVARIANT NoLostWork
CHECK_DEADLOCK FALSE
