SPECIFICATION Spec
CONSTANTS
  AirportOrder <- MCAirports
  PointOrder <- MCPoints
  Cap = 1
  HighWater = 2
  ParkAfter = 2
  SkipMax = 2
  MaxSessions = 2
  MaxStores = 2
  Overlap = FALSE
INVARIANTS OneTryPerCycle NothingSleeps
PROPERTIES MintFindsNoFetch
CHECK_DEADLOCK FALSE
