SPECIFICATION FairSpec
CONSTANTS
  ui = ui
  service = service
  Thread <- MCThread
  Port <- MCPort
  DefaultPort = 3001
  Path <- MCPath
  Config <- MCConfig
  MaxStarts = 2
  MaxEdits = 1
INVARIANTS
  FlagMeansBound
  UpdatesLast
PROPERTY
  StoppedForGood
CHECK_DEADLOCK FALSE
