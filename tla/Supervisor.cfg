SPECIFICATION Spec
CONSTANTS
  Callers = {c1, c2}
  CallOps = {"simbrief-prefile", "refresh"}
  Builds <- NewBuild
  MaxCalls = 2
  MaxGen = 3
  MaxPresses = 1
  PressKinds = {"restart"}
  MaxStrays = 1
  StrayWords = 0
  PendingMax = 1
  RequestCap = 2
  InputCap = 2
  LineCap = 2
  Budget = 1
INVARIANTS BoundIsLive TableIsExact
SYMMETRY CallerSymmetry
PROPERTIES RelayRefined
CHECK_DEADLOCK FALSE
