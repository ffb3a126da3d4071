SPECIFICATION FairSpec
CONSTANTS
  Keyboard = Keyboard
  Pointer = Pointer
  Clients = {1, 2}
  Depth = 2
  LeafOwner = 2
  PassiveGrabs <- MCPassiveGrabs
  ActiveGrabs <- MCActiveGrabs
  None = None
  MaxEvents = 3
INVARIANT DeviceGrabsInv
INVARIANT PendingInOrder
INVARIANT DownFollowsHardware
INVARIANT OneEventAtATime
PROPERTY HandlersReturn
CHECK_DEADLOCK FALSE
