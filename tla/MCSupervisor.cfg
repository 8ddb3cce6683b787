SPECIFICATION FairSpec
CONSTANTS
  WorkersOf <- MCWorkersOf
  StopScope = {"parent", "group"}
  MaxVersion = 2
  MaxHups = 2
  MaxCrashes = 1
  MaxFails = 1
INVARIANTS
  TableHoldsChildren
  NoOrphanWorker
  WorkersMatchConfig
PROPERTIES
  ReplacedBeforeStopped
  DeadWorkerReplaced
CHECK_DEADLOCK FALSE
