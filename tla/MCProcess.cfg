CONSTANTS
  PipeCapacity = 1
  MaxLines = 2
  Capacity = 2
  CaptureLimit = 1
SPECIFICATION FairSpec
CHECK_DEADLOCK FALSE
INVARIANTS
  LinesConserved
  CaptureIsWhole
PROPERTIES
  TerminationIsWhole
  ContractSpec
  EveryRunEnds
