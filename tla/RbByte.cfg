SPECIFICATION FairSpec
CONSTANTS
  xBufferType = "BYTEBUF"
  xSize = 3
  Senders = {s1, s2}
  Receivers = {r1, r2}
  SendSizes = {1, 2, 3}
  AcquireSizes = {}
  ReceiveSizes = {0, 1}
  InOrder = TRUE
  QueueSets = {}
  SetLength = 0
  MaxSent = 9
INVARIANT StreamIntact
INVARIANT FullIsExact
PROPERTY BlockedSenderReturns
PROPERTY SentIsRetrieved
CHECK_DEADLOCK FALSE
