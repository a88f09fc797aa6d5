CONSTANTS
  NumTasks = 3
  Period <- MCPeriods
  StopTask = 2
  CounterMod = 11
  AfterTest <- AnyIndex
  NULL = NULL
  Garbage = Garbage
SPECIFICATION FairSpec
INVARIANTS TypeOK NoWildDispatch OwnershipMatches HeartbeatExact
PROPERTIES NothingRunsAfterStop ImplementsLossy ReleasedTaskRuns ScheduleEnds
