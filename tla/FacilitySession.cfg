SPECIFICATION MCSpec
CONSTANTS
  r1 = r1
  r2 = r2
  l1 = l1
  Requests = {r1, r2}
  Priority <- MCPriority
  Lists = {l1}
  Limit = 1
  Rows = 1
  Chunks = 2
  Entries = {"APT", "RWY", "DEP", "TRN", "LEG"}
  Groups <- MCGroups
  Nodes <- MCNodes
  Root <- MCRoot
  Refusals <- MCRefusals
  Versions <- MCVersions
  Updates <- MCUpdates
  Unreadable <- MCUnreadable
  MaxDetails = 2
  MaxUnread = 1
  MaxLost = 1
  Stations <- MCStations
  Skies <- MCSkies
  Regions = {"r1", "r2"}
  MaxAsked = 4
INVARIANTS
  AttemptsAreApart
  LostIsReported
  AirportIsAsFetched
  StoredIsSo
PROPERTIES
  EverythingSettles
CHECK_DEADLOCK FALSE
