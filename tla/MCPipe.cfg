CONSTANTS
  p1 = p1  p2 = p2  a = a  b = b
  Procs <- Two
  Bytes <- AB
  Msgs <- MsgsAB
  PIPESIZE = 2
  Word = 4
SPECIFICATION FairSpec
CHECK_DEADLOCK FALSE
INVARIANTS SleepersBlocked
PROPERTIES ImplementsByteStream HangupSeen
