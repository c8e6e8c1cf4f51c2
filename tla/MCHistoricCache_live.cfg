SPECIFICATION Spec
CONSTANTS
  j1 = j1
  j2 = j2
  j3 = j3
  Job <- MCJob
  GroupOf <- MCGroupOf
  BlockOf <- MCBlockOf
  EventsOf <- MCEventsOf
  Chunks = 2
  MaxContracts = 2
  SmallGroup = 1
  LargeGroup = 4
  MaxFaults = 1
  MaxStatusFaults = 0
  MaxCrashes = 1
INVARIANTS TypeOK
PROPERTIES EveryJobCompletes
CHECK_DEADLOCK FALSE
