SPECIFICATION FairSpec
CONSTANTS
  Dev = {0, 1}
  NoDev = NoDev
  QueueSize = 2
  MaxCalls = 3
  Calls = {"queue", "acquire", "poll"}
  SameCore = TRUE
INVARIANT TypeOK
INVARIANT PollingHoldsBus
INVARIANT GrantedAfterOwnBg
INVARIANT QueuedIsMarked
PROPERTY OneTransaction
PROPERTY QueuedIsSent
PROPERTY WaiterResumes
CHECK_DEADLOCK FALSE
