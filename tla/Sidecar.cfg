SPECIFICATION MCSpec
CONSTANTS
  Configs = {A, B}
  Certs = {B}
  Slots = {s1, s2}
  MaxGen = 2
  None = None
  Apps = {"one", "two"}
  NoApp = "none"
  Hands <- Files
  Entries <- Typed
  Scenes <- FileScenes
  MaxLines = 1
INVARIANTS AxisIsOfThisRun StatusLineIsTrue DiskIsWhole ShownIsInForce
PROPERTIES NeverLeftPending OnlyEditsAreSaved
CHECK_DEADLOCK FALSE
