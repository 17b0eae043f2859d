\* Lost agents, interrupted stops and failing tmux commands, with the pass going on.
SPECIFICATION FairSpec
CHECK_DEADLOCK FALSE
CONSTANTS
  Mode = "resume-or-restart"
  MaxAttempts = 2
  MaxStarts = 1
  MaxCrashes = 1
  MaxFaults = 1
  MaxUpdates = 1
INVARIANTS
  TypeOK
PROPERTIES
  StoppedStays
  LossHandled
  StopsEnd
