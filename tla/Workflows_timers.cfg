SPECIFICATION Spec
CONSTANTS
  Names = {w1, w2}
  Keys = {}
  Caps = {1}
  Editors = {e1, e2}
  MaxRuns = 1
  QueueCap = 1
  MaxCrashes = 1
  MaxRefused = 0
  Cleans = TRUE
  None = None
SYMMETRY Interchangeable
CHECK_DEADLOCK FALSE
INVARIANT TimersFollow
