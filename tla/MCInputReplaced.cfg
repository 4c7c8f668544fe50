SPECIFICATION Spec
CONSTANTS
  Messages = {m1, m2}
  None = None
  MaxCrashes = 0
  MaxFaults = 0
PROPERTIES
  AdmittedIsNotReplaced
