CONSTANTS
  C = C
  S = S
  c1 = c1
  c2 = c2
  s1 = s1
  Hosts = {C, S}
  Users = {c1, c2, s1}
  Casts = {{c1, s1}, {c1, c2}}
  HostOf <- MCHostOf
  Dials <- MCDials
  Serves <- MCServes
  Writers = {c1}
  Readers = {s1}
  TCP_PCB_SIZE = 2
  BUFSIZE = 3
  MSS = 2
  SEQMOD = 16
  ISS <- MCISS
  Ephemeral = {1001, 1002}
  Writes = {2, 3}
  Reads = {1}
  NFD = 2
  MaxBytes = 5
  MaxOpen = 1
  MaxFaults = 1
SPECIFICATION Spec
CHECK_DEADLOCK FALSE
INVARIANTS StreamIntact EndsAgree OverrunOnlyPastWindow BlocksHaveOwners AcceptorsWoken
