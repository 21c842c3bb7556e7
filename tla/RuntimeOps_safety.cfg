CONSTANTS
  Projects = {p1}
  MaxJobs = 2
  QueueCap = 1
  MaxCrashes = 1
  MaxRefused = 0
  None = None
  Ops = {o1, o2}
  OpKinds = {"stop", "restart", "remove", "cleanup"}
  CallsMayFail = TRUE
SPECIFICATION OpSpec
SYMMETRY OpSymmetry
CHECK_DEADLOCK FALSE
INVARIANTS
  TablesKept
  StartupRepairs
  SettledUnlessMuddled
  
