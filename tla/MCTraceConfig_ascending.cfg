CONSTANTS
  Num = 15
  Retries = 8
  MaxFlakes = 1
  MayStick = FALSE
  Inputs <- VectorInputs
  Junk = Junk
  Arguments <- NoAddresses
  Empty = Empty
  Bad = Bad
  Unread = Unread
  ShellMax = 999
  Earlier = Earlier
SPECIFICATION SetupSpec
INVARIANT TableAscending
CHECK_DEADLOCK FALSE
