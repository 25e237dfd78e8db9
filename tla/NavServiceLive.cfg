SPECIFICATION FairSpec
CONSTANTS
  AirportOrder <- MCNone
  PointOrder <- MCMorePoints
  Cap = 1
  HighWater = 2
  ParkAfter = 2
  SkipMax = 2
  MaxSessions = 1
  MaxStores = 1
  Overlap = FALSE
PROPERTIES Served
CHECK_DEADLOCK FALSE
