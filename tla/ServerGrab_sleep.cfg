SPECIFICATION Spec
CONSTANTS
    Clients = {1, 2, 3}
    Devices = {11}
    Listeners = {21}
    MaxRequests = 2
    WordBits = 2
    SmartScheduleDisable = FALSE
    ImperviousUsers = {}
    Sleepers = {2}
    Retainers = {2}
    Mortal = {1, 2}
    Killers = {1}
INVARIANT TypeOK
INVARIANT MasksMatchClients
INVARIANT BufferedRequestsRemembered
INVARIANT ClosedClientsForgotten
INVARIANT GrabOwnerConnected
