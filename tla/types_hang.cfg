SPECIFICATION FairSpec
CONSTANTS
  Names <- MCNames
  Families <- MCJoins
PROPERTY WalkSettles
CHECK_DEADLOCK FALSE
