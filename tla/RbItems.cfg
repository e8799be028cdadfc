SPECIFICATION Spec
CONSTANTS
  s1 = s1
  r1 = r1
  r2 = r2
INVARIANT HandlesValid
INVARIANT EmptyAcceptsAll
INVARIANT FreeSizeFits
INVARIANT NoneStranded
INVARIANT ReadableIsNoticed
PROPERTY IsFifo
CHECK_DEADLOCK FALSE
