SPECIFICATION Spec
CONSTANTS
  Wrap = 20
  TimerIds = {1, 2, 3}
  Periods = {1, 2, 5}
  InputPending = TRUE
  MaxLate = 4
  StartTime = 16
  MaxTime = 26
INVARIANT OsTimersInv
INVARIANT NeverOversleeps
PROPERTY NeverEarly
CHECK_DEADLOCK FALSE
