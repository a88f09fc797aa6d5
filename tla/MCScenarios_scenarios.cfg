CONSTANTS
  N_EL = 4
  Half = 32768
  PowerUp <- MCPowerUp
  MaxCalls = 2
  MaxPresses = 2
  MaxResets = 1
  Words <- RamWords
  MaxRuns = 1
SPECIFICATION AppSpec
INVARIANTS IndexInRange ZAdvances SortedAfterBs SameResult InBounds SubrangesHold
PROPERTY DhryReturns
