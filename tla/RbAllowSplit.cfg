SPECIFICATION Spec
CONSTANTS
  xBufferType = "ALLOWSPLIT"
  xSize = 36
  Senders = {s1}
  Receivers = {r1, r2}
  SendSizes = {0, 13, 20}
  AcquireSizes = {}
  ReceiveSizes = {0}
  InOrder = TRUE
  QueueSets = {set}
  SetLength = 4
  MaxSent = 4
INVARIANT TypeOK
INVARIANT FreeSizeFits
INVARIANT ReadableIsNoticed
INVARIANT NoStrandedReceiver
PROPERTY IsFifo
CHECK_DEADLOCK FALSE
