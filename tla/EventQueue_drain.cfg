SPECIFICATION FairSpec
CONSTANTS
  QUEUE_SIZE = 4
  Screens = {1, 2}
  FirstScreen = 1
  WarpScreens = {1, 2}
  Times = {0}
  UninitPositions = {0}
  MaxInputs = 5
PROPERTY InputDrained
CHECK_DEADLOCK FALSE
