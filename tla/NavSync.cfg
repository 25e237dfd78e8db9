SPECIFICATION Spec
CONSTANTS
  a1 = a1
  a2 = a2
  f1 = f1
  s1 = s1
  s2 = s2
  Airports = {a1, a2}
  Fixes = {f1}
  Servers = {s1, s2}
  MaxPasses = 2
  MaxFetches = 1
  BatchMaxRows = 1
  MaxFaults = 2
  MaxCrashes = 1
  MaxSwitches = 1
  MaxSpent = 3
INVARIANTS AckedRowsAreHeld StoreTellsTheTruth
PROPERTIES NeverResetToEmpty
SYMMETRY MCSymmetry
CHECK_DEADLOCK FALSE
