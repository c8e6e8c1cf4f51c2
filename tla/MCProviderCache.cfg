SPECIFICATION Spec
CONSTANTS
  c1 = c1
  c2 = c2
  c3 = c3
  k1 = k1
  k2 = k2
  None = None
  Caller <- MCCaller
  Key <- MCKey
  KeyOf <- MCKeyOf
  TTL = 2
  Timeout = 1
  Lag = 0
  MaxRetries = 1
  LastCall = 4
INVARIANTS TypeOK AnswerFresh RequestedOnce SettledInTime
PROPERTIES FailureIsKept EveryCallSettles
CHECK_DEADLOCK FALSE
