SPECIFICATION Spec
CONSTANTS
  Names <- MCNames
  Families <- MCOccurs
INVARIANT SubstitutionEnds
CHECK_DEADLOCK FALSE
