SPECIFICATION Spec
CONSTANTS
  Slots <- MCSlots
  Many = 2
  NoScope = 3
  Capacity = 2
  MaxEvents = 4
  MaxBlocks = 3
  MaxRuns = 2
INVARIANTS TypeOK CountersImplySticky DecodeIsLog KilledRunReadable ScopeTree KilledTree
PROPERTIES DirectoryStable
CHECK_DEADLOCK FALSE
