SPECIFICATION Spec
CONSTANTS
  Clients = {c1, c2}
  MaxRuns = 2
  MaxSlots = 2
  MaxRequests = 2
  MaxFaults = 0
PROPERTIES SkipsForARun
CHECK_DEADLOCK FALSE
