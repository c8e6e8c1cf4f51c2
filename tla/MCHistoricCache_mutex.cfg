SPECIFICATION Spec
CONSTANTS
  j1 = j1
  j2 = j2
  j3 = j3
  Job <- MCJob
  GroupOf <- MCGroupOf
  BlockOf <- MCBlockOf
  EventsOf <- MCEventsOf
  Chunks = 2
  MaxContracts = 2
  SmallGroup = 1
  LargeGroup = 2
  MaxFaults = 0
  MaxStatusFaults = 1
  MaxCrashes = 0
PROPERTIES ErrorsAreMarked
CHECK_DEADLOCK FALSE
