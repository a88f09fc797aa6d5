CONSTANTS
  Num = 3
  Retries = 2
  MaxFlakes = 1
  MayStick = TRUE
  Inputs <- PlainInputs
  Junk = Junk
  Arguments <- Addresses
  Empty = Empty
  Bad = Bad
  Unread = Unread
  ShellMax = 999
  Earlier = Earlier
SPECIFICATION SetupSpec
INVARIANTS NotEnabledWhileConfiguring DoneMeansConfigured NoFalseAlarm TableAscending ValidAccepted DestinationWhole
PROPERTY ScriptEnds
CHECK_DEADLOCK FALSE
