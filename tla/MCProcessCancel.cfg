CONSTANTS
  PipeCapacity = 1
  MaxLines = 0
  Capacity = 2
  CaptureLimit = 1
SPECIFICATION FairSpec
CHECK_DEADLOCK FALSE
PROPERTY
  CancelEndsRun
