SPECIFICATION Spec
CONSTANTS
  NPAGES = 15
  Procs = {p1, p2}
  InitProc = p1
  PGSIZE = 2
  NPTENTRIES = 2
  KTABS = 1
  LOWPAGES = 2
  KERNBASE = 10
  USTACK = 2
  Segments = {1}
  Deltas <- MCDeltas
CHECK_DEADLOCK FALSE
INVARIANT NoPageLost
