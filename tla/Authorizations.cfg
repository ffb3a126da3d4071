SPECIFICATION AuthSpec
CONSTANTS
  Wrap = 8
  a1 = a1
  a2 = a2
  Auths = {a1, a2}
  NoAuth = NoAuth
  Clients = {1, 2}
  Timeouts = {0, 1, 3}
  Retainers = {1}
  MILLI_PER_SECOND = 1
  MaxTime = 10
SYMMETRY MCSymmetry
INVARIANT AuthorizationsInv
INVARIANT PurgedInTime
PROPERTY NeverPurgedEarly
CHECK_DEADLOCK FALSE
