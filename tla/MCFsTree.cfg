CONSTANTS
  p1 = p1  p2 = p2
  Procs <- MCProcs
  None = None
  NINODES = 3
  Names = {"a", "b", ".."}
  Workloads <- MCWorkloads
  NCOMPS = 3
  NoFile = TRUE
SPECIFICATION Spec
SYMMETRY Symmetry
CHECK_DEADLOCK FALSE
INVARIANTS LinkCounts InodesHeld LocksResolve
