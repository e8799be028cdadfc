SPECIFICATION Spec
CONSTANTS
  Timers = {x, y}
  Configs = {TRUE, FALSE}
  Skip = {x}
  Tasks = {t1}
  Timeouts = {0, 1}
  MinPeriod = 1
  MaxTime = 4
  MaxCalls = 3
INVARIANT InOrder
CHECK_DEADLOCK FALSE
