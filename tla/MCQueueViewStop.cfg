CONSTANTS
  Jobs = {j1, j2}
  Secret = {}
  Volatile = {}
  MaxParallelJobs <- MCMaxParallelJobs
  MaxStops = 2
  StoreMayFail = FALSE
  None = None
SPECIFICATION Spec
PROPERTY
  QueueSurvivesStop
