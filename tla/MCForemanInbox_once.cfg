\* One message, one result and one review, two runs of the Foreman, one recovery, one crash.
SPECIFICATION Spec
CONSTANTS
  Messages = {m1}
  Results = {q1}
  Reviews = {r1}
  MaxRuns = 2
  MaxAttempts = 1
  MaxCrashes = 1
  MaxSwitches = 1
INVARIANTS
  TypeOK
  OneOutstanding
  EnteredOnce
  FateRecorded
CHECK_DEADLOCK FALSE
