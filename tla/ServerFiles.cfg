SPECIFICATION Spec
CONSTANTS
  Configs <- MCConfigs
  Lists <- MCLists
  Refresh = {"startup", "reload"}
  MaxFetches = 2
  Recorder = {"request"}
  Reader = {"admin"}
  FullAt = 2
  MaxRecords = 2
INVARIANTS
  ListedResolve
  CountedOnce
PROPERTY
  SnapshotKeepsAll
