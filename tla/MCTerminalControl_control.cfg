\* Three browsers on two streams and two automated inputs.
SPECIFICATION FairSpec
CONSTANTS
  Viewers = {v1, v2, v3}
  None = None
  Ops = {o1, o2}
  MaxViewers = 2
  MaxObservers = 2
  LeaseMs = 2
  MaxLease = 3
INVARIANTS
  TypeOK
  OneController
  InputNotSplit
PROPERTIES
  FencedWrites
  GhostsSwept
  InteractiveAgain
