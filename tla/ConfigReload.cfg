SPECIFICATION FairSpec
CONSTANTS
  p1 = p1
  p2 = p2
  k1 = k1
  k2 = k2
  t1 = t1
  ed1 = ed1
  ed2 = ed2
  ad1 = ad1
  ad2 = ad2
  r1 = r1
  Broken = Broken
  NoFile = NoFile
  Provider <- MCProvider
  Key <- MCKey
  Tier <- MCTier
  Configs <- MCConfigs
  Editor <- MCEditor
  Admin <- MCOneAdmin
  Request <- MCRequest
  MaxEdits = 2
  MaxAdmin = 1
INVARIANTS
  TypeOK
  InFlightKeepsKeys
  CurrentWhenQuiet
PROPERTIES
  EditsTakeEffect
