SPECIFICATION FairSpec
CONSTANTS
  Timers = {x, y}
  Configs = {TRUE, FALSE}
  Skip = {x}
  Tasks = {t1}
  Timeouts = {0, 1}
  MinPeriod = 1
  MaxTime = 3
  MaxCalls = 2
PROPERTY DueIsDispatched
CHECK_DEADLOCK FALSE
