SPECIFICATION Spec
CONSTANTS
  Tasks = {t1, t2, t3}
  Addr = {a1, a2, a3}
  DEV_NUM_MAX = 3
  periph_cs_num = 2
INVARIANT SlotHoldsDevice
INVARIANT TouchSeesChange
INVARIANT SlotsGivenBack
