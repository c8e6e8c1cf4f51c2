SPECIFICATION Spec
CONSTANTS
  c1 = c1
  c2 = c2
  c3 = c3
  c4 = c4
  c5 = c5
  latest = latest
  old = old
  None = None
  Call <- MCCall
  Tag <- MCTag
  TagOf <- MCTagOf
  MaxBatchSize = 2
  MaxFaults = 1
PROPERTIES EveryCallSettles
CHECK_DEADLOCK FALSE
