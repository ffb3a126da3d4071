SPECIFICATION FairSchedule
CONSTANTS
  Clients = {1, 2, 3}
  Mortal = {1}
  Priority <- MCEqual
  MaskWordBits = 2
  SMART_MIN_PRIORITY <- MCMinPriority
  SMART_MAX_PRIORITY = 0
  SmartScheduleMaxSlice = 2
  LongTime = 0
INVARIANT SmartSchedulerInv
PROPERTY PassedOverOnce
PROPERTY TopClientsServed
