SPECIFICATION Spec
CONSTANTS
  Matrices = {"m", "n"}
  Rows = {"r"}
  Outer = {"n"}
  Stmts <- MCStmts
  MaxStmts = 6
  Allowed <- Sound
INVARIANTS FreedOnce NamesAreLive CountReachable
CHECK_DEADLOCK FALSE
