SPECIFICATION Spec
CONSTANTS
  j1 = j1
  j2 = j2
  j3 = j3
  k1 = k1
  k2 = k2
  None = None
  Job <- MCJob
  KeyOf <- MCKeyOf
  EventsOf <- MCEventsOf
  BatchSize = 1
  FirstHead = 3
  LastBlock = 6
  MaxFaults = 0
  MaxHangs = 0
  MaxCrashes = 1
  MaxNulls = 0
INVARIANT PoolsCovered
CHECK_DEADLOCK FALSE
