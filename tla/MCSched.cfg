CONSTANTS
  c1 = c1  c2 = c2  x = x  p1 = p1  p2 = p2  p3 = p3
  CPUs <- MCCPUs
  BSP = c1
  ApicIds <- MCApicIds
  Numberings <- MCNumberings
  Procs <- MCProcs
  None = None
SPECIFICATION Spec
SYMMETRY Symmetry
INVARIANTS CriticalSections NoLostWakeup CleanReset
