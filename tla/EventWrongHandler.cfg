SPECIFICATION Spec
CONSTANTS
  Tasks = {t1}
  Handlers = {f}
  Keys <- MCKeys
  Events <- MCEvents
  Apis = {TRUE}
  QueueSize = 1
  TaskNames = {TRUE, FALSE}
  MaxRegs = 3
  MaxPosts = 2
INVARIANT OnlyAskedFor
CHECK_DEADLOCK FALSE
