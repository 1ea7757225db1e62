CONSTANTS
  Jobs = {j1, j2, j3}
  Secret = {}
  Volatile = {j3}
  MaxParallelJobs <- MCMaxParallelJobs
  MaxStops = 1
  StoreMayFail = FALSE
  None = None
SPECIFICATION Spec
INVARIANTS
  SlotsAccounted
  CopiesAgree
  RunRowsFollowItems
  NoStall
PROPERTIES
  StartsUnderCap
  NothingUnattended
  LifecycleSpec
