SPECIFICATION FairSpec
CONSTANTS
  Names <- MCNames
  Families <- MCFamilies
INVARIANTS TypeOK CellsKeepType StoresAssemble
PROPERTIES WalkSettles RecordingIsStill
CHECK_DEADLOCK FALSE
