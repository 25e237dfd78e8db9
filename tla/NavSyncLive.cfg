SPECIFICATION FairSpec
CONSTANTS
  a1 = a1
  a2 = a2
  f1 = f1
  s1 = s1
  s2 = s2
  Airports = {a1}
  Fixes = {f1}
  Servers = {s1}
  MaxPasses = 1
  MaxFetches = 1
  BatchMaxRows = 1
  MaxFaults = 2
  MaxCrashes = 1
  MaxSwitches = 1
  MaxSpent = 4
PROPERTIES Converges
CHECK_DEADLOCK FALSE
