SPECIFICATION Spec
CONSTANTS
  Dev = {0, 1}
  NoDev = NoDev
  QueueSize = 2
  MaxCalls = 0
  Calls = {"queue", "acquire", "poll"}
  SameCore = TRUE
INVARIANT TypeOK
INVARIANT PollingHoldsBus
INVARIANT GrantedAfterOwnBg
INVARIANT IsrAsserts
INVARIANT ReleaseSucceeds
INVARIANT NoLostWork
PROPERTY OneTransaction
CHECK_DEADLOCK FALSE
