CONSTANTS
  Modulus = 4
  Firsts <- AnyFirst
  Outage = 2
  Lifetime = 2
  OpenMayFail = FALSE
  MaxSent = 5
  MaxLog = 5
SPECIFICATION Spec
INVARIANT AllExtracted
CHECK_DEADLOCK FALSE
