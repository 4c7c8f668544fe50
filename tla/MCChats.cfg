CONSTANTS
  Messages = {m1, m2, m3}
  Users = {u1, u2}
  QueueCapacity = 2
  MaxInterrupts = 2
  MaxFaults = 1
  None = None
SPECIFICATION FairSpec
INVARIANTS NothingLost BusyRowHasTurn NoStrandedQueue
PROPERTIES ImplementsDelivery QueuedIsServed
CHECK_DEADLOCK FALSE
