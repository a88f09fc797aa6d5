CONSTANTS
  Window = 4
  Sizes <- SomeSizes
  MaxRuns = 2
  MaxDumps = 1
  Old = Old
  Zero = Zero
SPECIFICATION Spec
INVARIANTS ExitMeansLoaded DumpIsWindow
PROPERTY BramAfterItcm
CHECK_DEADLOCK FALSE
