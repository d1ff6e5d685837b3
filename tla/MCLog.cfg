CONSTANTS
  p1 = p1  p2 = p2  s1 = s1  s2 = s2  s3 = s3  v0 = v0  v1 = v1  nobuf = nobuf
  Procs <- MCProcs
  Sectors <- MCSectors3
  Vals <- MCVals
  InitVal = v0
  LogSize = 2
  SilentFail = FALSE
  NoBuf = nobuf
SPECIFICATION FairSpec
INVARIANTS LogConsistent
PROPERTIES AtomicTransactions WriteAhead LogProgress
