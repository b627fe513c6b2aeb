SPECIFICATION MFairSpec
CONSTANTS
  MaxInt = 31
  Powers <- MCPowers
  ESize = 1
  MinSpan = 2
  SparseThreshold = 4
  GraduateAt = 6
  ReserveFloor = 8
  Page = 4
  VmEnabled = TRUE
  AllocFails = FALSE
  Vals <- MCVals
  Zero = 0
  Garbage = 99
  Keys <- MCKeys
  Shapes <- Covered
INVARIANTS DirectStoresInSpan RowsFilled
PROPERTY MatrixDone
CHECK_DEADLOCK FALSE
