SPECIFICATION FairSpec
CONSTANTS
  Names = {w1}
  Keys = {}
  Caps = {2}
  Editors = {e1}
  MaxRuns = 2
  QueueCap = 1
  MaxCrashes = 1
  MaxRefused = 1
  Cleans = TRUE
  None = None
CHECK_DEADLOCK FALSE
PROPERTY EveryRunEnds
