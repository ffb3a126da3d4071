SPECIFICATION WorkSpec
CONSTANTS
  Clients = {1, 2, 3}
  Sleepers = {1, 2}
  LbxClients = {3}
  Mortal = {1}
  Stragglers = {1, 2}
  Nodes = {1, 2, 3, 4, 5, 6}
INVARIANT WorkQueueInv
INVARIANT SleepersAreWoken
INVARIANT ClosedForgotten
PROPERTY AnsweredIsServed
