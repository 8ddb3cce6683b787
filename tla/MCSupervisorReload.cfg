SPECIFICATION FairSpec
CONSTANTS
  WorkersOf <- MCWorkersOf
  StopScope = {}
  MaxVersion = 1
  MaxHups = 1
  MaxCrashes = 0
  MaxFails = 0
PROPERTIES
  ReloadTakesEffect
CHECK_DEADLOCK FALSE
