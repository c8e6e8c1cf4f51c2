SPECIFICATION Spec
CONSTANTS
  MaxBlock = 7
  Limit = 2
  Dense = {5}
  MaxFaults = 3
INVARIANTS TypeOK NothingLost DeliveredOnce
PROPERTIES RequestsRunOut Terminates RefinesRangeScan
CHECK_DEADLOCK FALSE
