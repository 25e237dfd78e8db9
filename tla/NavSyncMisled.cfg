SPECIFICATION Spec
CONSTANTS
  a1 = a1
  a2 = a2
  f1 = f1
  s1 = s1
  s2 = s2
  Airports = {a1}
  Fixes = {f1}
  Servers = {s1, s2}
  MaxPasses = 1
  MaxFetches = 1
  MaxSpent = 5
  BatchMaxRows = 1
  MaxFaults = 1
  MaxCrashes = 0
  MaxSwitches = 2
INVARIANTS CursorIsItsServers
CHECK_DEADLOCK FALSE
