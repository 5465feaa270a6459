SPECIFICATION Spec
CONSTANTS
  Configs <- BothConfigs
  Settings <- StopSettings
  MaxRuns = 1
INVARIANTS
  StopsOnError
CHECK_DEADLOCK FALSE
