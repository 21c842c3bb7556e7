SPECIFICATION Spec
CONSTANTS
  Names = {w1}
  Keys = {k1}
  Caps = {1, 2}
  Editors = {e1}
  MaxRuns = 2
  QueueCap = 1
  MaxCrashes = 1
  MaxRefused = 1
  Cleans = TRUE
  None = None
CHECK_DEADLOCK FALSE
INVARIANT WorkflowTypeOK
INVARIANT RunHeldOnce
INVARIANT LostOnlyByFaults
PROPERTY RunsAtMostOnce
PROPERTY WithinCap
