SPECIFICATION Spec
CONSTANTS
  Names = {1, 2}
  Families <- Programs
  MaxTaken = 3
INVARIANTS TypeOK FreesAreSound UsesAreLive HandlesDefined NothingLost
PROPERTY HeadsGrow
CHECK_DEADLOCK FALSE
