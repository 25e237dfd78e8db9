SPECIFICATION MCSpec
CONSTANTS
  Slots = {s1, s2}
  None = None
  Sims = {"2020", "2024"}
  MaxAttempt = 2
  Calls = {"call 1", "call 2"}
  Spoiled = {}
  MaxLine = 3
  RequestMax = 2
  ChunkMax = 3
  Verdicts <- WireVerdicts
  Quotas <- WireQuotas
INVARIANTS LinkIsCarried HandlesAgree WireIsTransparent
PROPERTIES Reconnects EveryCallIsTold
CHECK_DEADLOCK FALSE
