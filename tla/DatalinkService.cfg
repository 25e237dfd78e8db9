SPECIFICATION MCSpec
CONSTANTS
  Configs = {A, B}
  Legs = {l1, l2}
  Slots = {o1, o2}
  OpKinds = {"write", "si", "prefile"}
  None = None
  Presses = {p, q}
INVARIANTS PollsWhileWatched ScopeLineIsTrue WordsAreTrue
PROPERTIES RequestsAreWanted
CHECK_DEADLOCK FALSE
SYMMETRY Symmetry
