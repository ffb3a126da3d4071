SPECIFICATION Spec
CONSTANTS
  QUEUE_SIZE = 4
  Screens = {1}
  FirstScreen = 1
  WarpScreens = {1}
  Times = {0}
  UninitPositions = {0}
  MaxInputs = 7
INVARIANT EventQueueInv
PROPERTY ImplementsFifo
PROPERTY MotionsInOrder
CHECK_DEADLOCK FALSE
