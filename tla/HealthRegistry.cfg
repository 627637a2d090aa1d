SPECIFICATION FairSpec
CONSTANTS
  e1 = e1
  e2 = e2
  p1 = p1
  t1 = t1
  t2 = t2
  Endpoint <- MCEndpoint
  Provider <- MCProvider
  ProviderOf <- MCProviderOf
  Thread <- MCThread
  RetryAfters <- MCRetryAfters
  BaseWindow = 2
  ProbeWindow = 1
  MaxWindow = 2
  FailureCap = 3
  MaxTotal = 1
  MaxCooling = 2
INVARIANTS
  TypeOK
  ThreeStrikes
  TotalCoversKnown
PROPERTIES
  BreakerSpec
  SelfHealing
