SPECIFICATION FairSpec
CONSTANTS
  e1 = e1
  e2 = e2
  p1 = p1
  p2 = p2
  k1 = k1
  k2 = k2
  r1 = r1
  r2 = r2
  NoKey = NoKey
  Endpoint <- MCEndpoint
  Provider <- MCProvider
  Key <- MCKey
  Request <- MCRequest
  ProviderOf <- MCProviderOf
  KeysOf <- MCKeysOf
  Tiers <- MCTiers
  Worlds <- MCWorlds
  Histories <- MCHistories
  OffSets <- MCOffSets
  RetryAfters <- MCRetryAfters
  BaseWindow = 2
  ProbeWindow = 1
  MaxWindow = 1
  FailureCap = 3
  MaxRequests = 2
INVARIANTS
  TypeOK
  FailsOnlyIfNothingWorks
PROPERTIES
  NoCollateral
  BreakerEach
  EveryRequestAnswered
CHECK_DEADLOCK FALSE
