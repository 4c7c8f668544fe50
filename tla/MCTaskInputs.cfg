SPECIFICATION Spec
CONSTANTS
  Messages = {m1, m2}
  None = None
  MaxCrashes = 2
  MaxFaults = 1
SYMMETRY MessageSymmetry
INVARIANTS
  AtMostOnce
  NothingSentOffRecord
  AckedIsKept
PROPERTY ImplementsDelivery
