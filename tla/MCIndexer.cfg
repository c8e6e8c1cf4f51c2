SPECIFICATION Spec
CONSTANTS
  j1 = j1
  j2 = j2
  j3 = j3
  k1 = k1
  k2 = k2
  None = None
  Job <- TwoJobs
  KeyOf <- TwoKeys
  EventsOf <- TwoEvents
  BatchSize = 2
  FirstHead = 3
  LastBlock = 6
  MaxFaults = 1
  MaxHangs = 1
  MaxCrashes = 1
  MaxNulls = 0
INVARIANTS TypeOK NothingMissed LossBound
PROPERTIES RefinesJobTable WorkerComesBack EventuallyIndexed
CHECK_DEADLOCK FALSE
