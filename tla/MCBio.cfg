CONSTANTS
  p1 = p1  p2 = p2  b1 = b1  b2 = b2  v0 = v0  v1 = v1
  Procs <- MCProcs
  Bufs <- MCBufs
  Sectors = {1, 2, 3}
  Vals <- MCVals
  InitVal = v0
  MaxHeld = 2
  MaxDirty = 1
  IOFail = TRUE
  None = None
SPECIFICATION Spec
SYMMETRY ProcSymmetry
CHECK_DEADLOCK FALSE
INVARIANTS BuffersExclusive ContentsKept
