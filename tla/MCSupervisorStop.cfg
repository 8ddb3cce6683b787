SPECIFICATION FairSpec
CONSTANTS
  WorkersOf <- MCWorkersOf
  StopScope = {"parent"}
  MaxVersion = 0
  MaxHups = 0
  MaxCrashes = 0
  MaxFails = 0
PROPERTIES
  StopEndsServer
CHECK_DEADLOCK FALSE
