CONSTANTS
  Projects = {p1, p2}
  MaxJobs = 3
  QueueCap = 1
  MaxCrashes = 2
  MaxRefused = 1
  None = None
SPECIFICATION Spec
SYMMETRY ProjectSymmetry
CHECK_DEADLOCK FALSE
INVARIANTS
  TypeOK
  OneActiveJob
  SoleSucceededDeployment
  QueueSound
  StrandedOnlyByFaults
  WorkerOwnsJob
  StatusAndRouteFollow
PROPERTIES
  DeployIsSafe
  SwitchToRunningApp
  ImplementsPromise
