SPECIFICATION Spec
CONSTANTS
  Codes = {"unknown", "transport"}
  MaxIterations = 2
  MaxErrors = 2
  MaxTurns = 3
  MaxInputs = 2
  MaxFaults = 1
CHECK_DEADLOCK FALSE
INVARIANTS
  PlanTurnsStayInPlanning
  NoStrandedTask
  FailsafeHolds
  IterationBudget
PROPERTIES
  StopIsFinal
  AcceptanceSeesFeedback
