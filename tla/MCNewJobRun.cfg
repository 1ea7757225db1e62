CONSTANTS
  Forms = {local, remote}
  Destructive = {remote}
  Remote = {remote}
  MaxRuns = 2
  MaxAttempts = 2
SPECIFICATION Spec
INVARIANTS
  RunningRowIsCurrent
PROPERTIES
  LiveRunsConsented
  CompletedIsTrue
  CancelEndsRun
