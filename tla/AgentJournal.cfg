SPECIFICATION Spec
CONSTANTS
  Kinds = {"START", "BULK", "UNJOIN"}
  Admin = {"ROTATE", "REVOKE", "UNJOIN"}
  HistorySize = 1
  MaxTasks = 2
  LeaseTicks = 1
  MaxStray = 1
  MaxFaults = 2
INVARIANTS TypeOK RecordedNeverRepeated SuccessIsRecorded
PROPERTIES ImplementsLedger LeavingIsClean
CHECK_DEADLOCK FALSE
