SPECIFICATION FairSpec
CONSTANTS
  Clients = {1, 2, 3}
  Fds = {1, 2}
  None = None
  Sleepers = {3}
  Mortal = {1, 2}
  MaxWritten <- MCMaxWritten
  SocketSize = 1
  BUFSIZE = 1
  BUFWATERMARK = 2
INVARIANT OutputBuffersInv
INVARIANT StreamIntact
PROPERTY OutputDelivered
CHECK_DEADLOCK FALSE
