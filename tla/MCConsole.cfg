CONSTANTS
  p1 = p1  p2 = p2
  Procs <- MCProcs
  None = None
  Keys = {"a"}
  INPUT_BUF = 2
  Word = 4
  MaxRead = 2
SPECIFICATION FairSpec
INVARIANTS RingUsable SleepersBlocked
PROPERTIES ReadOnce CtrlCReturns
