SPECIFICATION FairSpec
CONSTANTS
  Configs <- ReleaseOnly
  Settings <- UserSettings
  MaxRuns = 2
INVARIANTS
  TypeOK
  EveryTaskLogged
  PassedIsBuilt
  
PROPERTIES
  
  Completes
CHECK_DEADLOCK FALSE
