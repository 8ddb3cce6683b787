SPECIFICATION Spec
CONSTANTS
  Paths <- MCPaths
  NameOf <- MCNameOf
  Blocked = {"b"}
  MaxSlots = 2
  MaxStamp = 3
  MaxTick = 5
  MaxDupFails = 1
INVARIANTS
  DescriptorsOwned
  OneEntryPerPath
PROPERTIES
  EvictsLeastRecent
CHECK_DEADLOCK FALSE
