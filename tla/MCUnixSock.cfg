CONSTANTS
  p1 = p1  p2 = p2  p3 = p3
  Procs <- Three
  Paths = {"a"}
  NFILE = 7  NUSOCK = 1  USOCK_PENDING_MAX = 1
  MaxConn = 1  NoMem = TRUE
SPECIFICATION Spec
SYMMETRY Symmetry3
CHECK_DEADLOCK FALSE
INVARIANTS AcceptorsBlocked QueueInBounds
