SPECIFICATION Spec
CONSTANTS
  xBufferType = "NOSPLIT"
  xSize = 48
  Senders = {s1}
  Receivers = {r1}
  SendSizes = {4}
  AcquireSizes = {4, 16}
  ReceiveSizes = {0}
  InOrder = FALSE
  QueueSets = {}
  SetLength = 0
  MaxSent = 5
INVARIANT UnsentNotRetrieved
CHECK_DEADLOCK FALSE
