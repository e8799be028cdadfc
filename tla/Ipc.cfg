SPECIFICATION FairSpec
CONSTANTS
  Cores = {0}
  Callers = {t1, t2, t3}
  NoFunc = NoFunc
  PerCore = TRUE
INVARIANT OwnArgument
INVARIANT BlockingCallRan
PROPERTY CallReturns
PROPERTY NonblockingCompletes
