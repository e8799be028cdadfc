SPECIFICATION Spec
CONSTANTS
  Tasks = {t1, t2}
  Addr = {a1, a2}
  DEV_NUM_MAX = 3
  periph_cs_num = 2
INVARIANT SlotsEmptyAtDeinit
