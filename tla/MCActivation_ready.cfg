\* One activation without any failure.
SPECIFICATION Spec
CHECK_DEADLOCK FALSE
CONSTANTS
  Artifacts = 3
  MaxActivations = 1
  MaxCrashes = 0
  MaxFaults = 0
INVARIANTS
  ReadyMeansActivated
