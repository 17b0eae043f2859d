\* No tmux command fails: every agent has a run.
SPECIFICATION Spec
CHECK_DEADLOCK FALSE
CONSTANTS
  Mode = "resume-only"
  MaxAttempts = 1
  MaxStarts = 2
  MaxCrashes = 1
  MaxFaults = 0
  MaxUpdates = 1
INVARIANTS
  SupersededEnded
  NoUntrackedAgent
