SPECIFICATION FairSpec
CONSTANTS
  Dev = {0, 1}
  NoDev = NoDev
  QueueSize = 1
  MaxCalls = 3
  Calls = {"queue"}
  SameCore = FALSE
INVARIANT NoLostWork
INVARIANT QueuedIsMarked
PROPERTY QueuedIsSent
CHECK_DEADLOCK FALSE
