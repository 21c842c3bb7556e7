CONSTANTS
  Projects = {p1, p2}
  MaxJobs = 2
  QueueCap = 1
  MaxCrashes = 2
  MaxRefused = 1
  None = None
SPECIFICATION FairSpec
CHECK_DEADLOCK FALSE
PROPERTIES
  JobsEnd
