SPECIFICATION FairSpec
CONSTANTS
  Codes = {"unknown"}
  MaxIterations = 0
  MaxErrors = 2
  MaxTurns = 2
  MaxInputs = 2
  MaxFaults = 0
CHECK_DEADLOCK FALSE
PROPERTIES
  StopDrains
  InjectionIsServed
