SPECIFICATION FairSpec
CONSTANTS
  Callers = {c1}
  CallOps = {"refresh"}
  Builds <- NewBuild
  MaxCalls = 0
  MaxGen = 5
  MaxPresses = 3
  PressKinds = {"start", "stop", "restart", "reload"}
  MaxStrays = 1
  StrayWords = 1
  PendingMax = 1
  RequestCap = 2
  InputCap = 4
  LineCap = 2
  Budget = 1
INVARIANTS ShownStateIsTrue OneProcessHeld
PROPERTIES ShutdownCompletes IntentSurvivesCrashes
CHECK_DEADLOCK FALSE
