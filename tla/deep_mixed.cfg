SPECIFICATION Spec
CONSTANTS
  Matrices = {"m", "n"}
  Rows = {"r"}
  Outer = {"n"}
  Stmts <- MCStmts
  MaxStmts = 6
  Allowed <- StoredOnce
INVARIANT FreedOnce
CHECK_DEADLOCK FALSE
