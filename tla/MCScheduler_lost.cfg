CONSTANTS
  NumTasks = 3
  Period <- MCPeriods
  StopTask = 2
  CounterMod = 11
  AfterTest = {5}
  NULL = NULL
  Garbage = Garbage
SPECIFICATION Spec
PROPERTY NoLostActivation
