SPECIFICATION Spec
CONSTANTS
  Row <- MCRow
  RowsOf <- MCRowsOf
  BatchSize = 3
  FirstHead = 7
  LastBlock = 12
  MaxFaults = 0
  MaxCrashes = 0
  MaxNulls = 0
  None = None
INVARIANTS CheckpointCoversLogs
CHECK_DEADLOCK FALSE
