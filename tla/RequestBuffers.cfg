SPECIFICATION FairSpec
CONSTANTS
  Clients = {1, 2}
  Mortal = {1}
  Requests <- MCRequests
  SetupPrefix = 1
  SetupStrings = 1
  Buffers = {b1, b2, b3}
  None = None
  BUFSIZE = 2
  BUFWATERMARK = 3
  MAXBUFSIZE = 5
INVARIANT RequestBuffersInv
INVARIANT ExecutedInOrder
INVARIANT InputBitExact
PROPERTY RequestsExecuted
CHECK_DEADLOCK FALSE
