\* One action over a replaced run, a replaced reporter and two crashes.
SPECIFICATION FairSpec
CHECK_DEADLOCK FALSE
CONSTANTS
  MaxActions = 1
  MaxRuns = 2
  MaxReporters = 2
  MaxCrashes = 2
INVARIANTS
  TypeOK
  EnteredOnce
  ReportedWasEntered
PROPERTIES
  WithdrawnStays
  EventuallySettled
