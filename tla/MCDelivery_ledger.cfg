\* Leases, retries, crashes and retention: the queue implements the ledger and settles every delivery.
SPECIFICATION FairSpec
CONSTANTS
  Members = {m1}
  Keys = {k1}
  NoKey = NoKey
  Retention = 1
  MaxAttempts = 3
  LeaseMs = 1
  BatchSize = 2
  RetryBase = 1
  RetryMax = 1
  MaxSeq = 2
  MaxGen = 1
  MaxOwner = 2
INVARIANTS
  TypeOK
  ReplayNamesRetained
PROPERTIES
  ImplementsLedger
  EventuallySettled
CHECK_DEADLOCK FALSE
