SPECIFICATION FairSpec
CONSTANTS
  Capacity = 3
  MaxEngines = 2
  MaxRequests = 4
  MaxTimeouts = 1
  MaxCrashes = 1
INVARIANTS
  SingleLoop
  LoopIsReachable
  CleanupIsAlone
  ActiveRowHasLoop
PROPERTIES
  QueueDrains
  DeletionEndsLoop
CHECK_DEADLOCK FALSE
