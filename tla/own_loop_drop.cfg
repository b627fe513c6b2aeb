SPECIFICATION Spec
CONSTANTS
  Names = {1, 2}
  Families <- LoopDrop
  MaxTaken = 3
INVARIANT FreesAreSound
CHECK_DEADLOCK FALSE
