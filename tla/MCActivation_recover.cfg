\* Two activations of two artifacts, two deaths, a failing operation.
SPECIFICATION FairSpec
CHECK_DEADLOCK FALSE
CONSTANTS
  Artifacts = 2
  MaxActivations = 2
  MaxCrashes = 2
  MaxFaults = 1
INVARIANTS
  TypeOK
  ServesWholeSet
  RolledBackExactly
PROPERTIES
  ActivationsConclude
