\* One recipient, two messages: the order of pastes, retries, crashes.
SPECIFICATION Spec
CONSTANTS
  Members = {m1}
  Keys = {}
  NoKey = NoKey
  Retention = 2
  MaxAttempts = 2
  LeaseMs = 2
  BatchSize = 2
  RetryBase = 1
  RetryMax = 1
  MaxSeq = 2
  MaxGen = 2
  MaxOwner = 2
INVARIANTS
  InFlightOwnsRow
  InjectedWasEntered
  PastesPerAttempt
CHECK_DEADLOCK FALSE
