SPECIFICATION FairSpec
CONSTANTS
    Clients = {1, 2, 3}
    Devices = {11}
    Listeners = {21}
    MaxRequests = 1
    WordBits = 2
    SmartScheduleDisable = TRUE
    ImperviousUsers = {2, 3}
    Sleepers = {}
    Retainers = {}
    Mortal = {1}
    Killers = {2}
INVARIANT GrabExcludesOthers
INVARIANT ServedClientConnected
PROPERTY ReleasedServerIsRegrabbed
