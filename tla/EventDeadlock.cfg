SPECIFICATION FairSpec
CONSTANTS
  Tasks = {t1}
  Handlers = {f}
  Keys <- MCKeys
  Events <- MCEvents
  Apis = {FALSE}
  QueueSize = 1
  TaskNames = {TRUE}
  MaxRegs = 1
  MaxPosts = 4
PROPERTY UnqueuedIsExecuted
CHECK_DEADLOCK FALSE
