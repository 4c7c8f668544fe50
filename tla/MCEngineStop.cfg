SPECIFICATION Spec
CONSTANTS
  Codes = {"unknown", "transport"}
  MaxIterations = 2
  MaxErrors = 2
  MaxTurns = 3
  MaxInputs = 1
  MaxFaults = 0
CHECK_DEADLOCK FALSE
PROPERTY
  UserStopIsNotAnInjection
