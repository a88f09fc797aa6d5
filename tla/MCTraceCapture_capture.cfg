CONSTANTS
  Modulus = 4
  Firsts <- AnyFirst
  Outage = 2
  Lifetime = 2
  OpenMayFail = TRUE
  MaxSent = 5
  MaxLog = 5
SPECIFICATION Spec
INVARIANTS FilesContiguous FilesMaximal ExtractedUnlessFFFF
CHECK_DEADLOCK FALSE
