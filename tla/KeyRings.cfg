SPECIFICATION FairSpec
CONSTANTS
  p1 = p1
  k1 = k1
  k2 = k2
  k3 = k3
  t1 = t1
  t2 = t2
  Provider <- MCProvider
  Key <- MCKey
  Thread <- MCThread
  Rings <- MCRings
  BanTicks <- MCBanTicks
  MaxDead = 1
  MaxBans = 2
INVARIANTS
  TypeOK
  ReturnsUsableKey
PROPERTIES
  NoneOnlyIfUnusable
  NoKeyStarves
