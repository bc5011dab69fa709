SPECIFICATION FairSpec
CONSTANTS
  Kinds = {"UNJOIN"}
  Admin = {}
  HistorySize = 1
  MaxTasks = 1
  LeaseTicks = 1
  MaxStray = 0
  MaxFaults = 0
PROPERTIES UnjoinedNodeForgets
CHECK_DEADLOCK FALSE
