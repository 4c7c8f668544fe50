SPECIFICATION FairSpec
CONSTANTS
  Clients = {c1, c2}
  MaxRuns = 2
  MaxSlots = 2
  MaxRequests = 2
  MaxFaults = 1
INVARIANTS OneRunAtATime BlockedOnlyByRuns NoSlotTwice
PROPERTIES InterruptedStays NeverBlocked
CHECK_DEADLOCK FALSE
