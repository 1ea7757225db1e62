CONSTANTS
  Jobs = {j1, j2}
  Secret = {j2}
  Volatile = {j1}
  MaxParallelJobs <- MCMaxParallelJobs
  MaxStops = 1
  StoreMayFail = TRUE
  None = None
SPECIFICATION FairSpec
PROPERTIES
  QueueMoves
