SPECIFICATION Spec
CONSTANTS
  NDIRECT = 1
  NINDIRECT = 3
  BPB = 5
  DataStart = 1
  FSSIZE = 13
  LOGSIZE = 10
  NLOG = 10
  NBUF = 10
  NINODES = 2
  Files = {f1, f2}
  Counts = {8, 16}
  Seeks = {0, 16}
  MaxSize = 16
CHECK_DEADLOCK FALSE
SYMMETRY FileSymmetry
INVARIANTS DiskConsistent OwnWords TransactionsFit OrphansFreed
