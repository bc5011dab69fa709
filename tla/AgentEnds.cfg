SPECIFICATION FairSpec
CONSTANTS
  Kinds = {"PROBE", "BULK", "BENCHMARK"}
  Admin = {"CANCEL"}
  HistorySize = 1
  MaxTasks = 2
  LeaseTicks = 1
  MaxStray = 1
  MaxFaults = 1
PROPERTIES EveryTaskEnds
CHECK_DEADLOCK FALSE
