SPECIFICATION FairAccountsSpec
CONSTANTS
  u1 = u1  u2 = u2  p1 = p1  r1 = r1  r2 = r2
  User = {u1, u2}
  Provider = {p1}
  Nameless = {u2}
  MaxGrants = 2
  Request = {r1}
  Warmer = warmer
  NoOne = noone
  Routes <- MCRoutes
  Signed <- MCSigned
  MaxReloads = 1
INVARIANTS AccountsTypeOK OneShareEach
PROPERTIES EveryRequestGetsThrough NoAccountStarves
