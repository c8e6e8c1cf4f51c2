SPECIFICATION Spec
CONSTANTS
  t1 = t1 t2 = t2 t3 = t3
  q1 = q1 q2 = q2
  a1 = a1 a2 = a2
  c1 = c1 c2 = c2
  p = p r = r w = w x = x
  Task <- MCTask
  QueryOf <- MCQueryOf
  AdapterOf <- MCAdapterOf
  ChainOf <- MCChainOf
  Held <- MCHeld
  Given <- MCGiven
  Claimable <- MCClaimable
  Wanted <- MCWanted
  AtBlock <- MCAtBlock
  Token <- MCToken
  Underlying <- MCUnderlying
  TTL = 1
  LastTime = 1
  MaxFailures = 1
  None = None
INVARIANTS TypeOK RequestsAreShared NothingOmitted FailureHasCause WaitsForSomething PriceIsWhole
PROPERTIES EndsUnlessUnanswered
CHECK_DEADLOCK FALSE
