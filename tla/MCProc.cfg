CONSTANTS NPROC = 3  MaxPid = 4  Names = {"sh"}  Devices = TRUE
SPECIFICATION FairSpec
CHECK_DEADLOCK FALSE
INVARIANTS TableConsistent NoMissedExit
PROPERTIES KilledExits OrphansReaped
