SPECIFICATION Spec
CONSTANTS
  Tasks = {t1}
  Handlers = {f}
  Keys <- MCKeys
  Events <- MCEvents
  Apis = {FALSE}
  QueueSize = 1
  TaskNames = {TRUE, FALSE}
  MaxRegs = 3
  MaxPosts = 2
INVARIANT MarkedHasEvent
CHECK_DEADLOCK FALSE
