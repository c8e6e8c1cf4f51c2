SPECIFICATION Spec
CONSTANTS
  Row <- MCRow
  RowsOf <- MCRowsOf
  BatchSize = 2
  FirstHead = 5
  LastBlock = 8
  MaxFaults = 2
  MaxCrashes = 1
  MaxNulls = 1
  None = None
INVARIANTS TypeOK NoGap LossBound
PROPERTIES EventuallyIndexed
CHECK_DEADLOCK FALSE
