SPECIFICATION Spec
CONSTANTS
  Keys = {"a", "b"}
  PageSize = 2
  Window = 2
  KeptMax = 3
  CacheMax = 2
  Rounds = 2
  InitialRows = 3
  MaxEvents = 2
  Budgets <- ThreadBudgets
  FirstUrl = "url a"
  ResultsKept = 1
  SaveAnswers = {"saved", "failed"}
  Tours <- PanelTours
INVARIANTS
  SeqNamesItsMessage
  KeptIsOfThisConfig
  OneRequestOut
PROPERTIES
  PagesAreServed
  SendsWhatIsShown
\* The panel rests when nobody presses a key and nothing is under way.
CHECK_DEADLOCK FALSE
