\* Two goals, two teams, two checkouts.
SPECIFICATION Spec
CHECK_DEADLOCK FALSE
SYMMETRY Symmetry
CONSTANTS
  Goals = {g1, g2}
  Teams = {t1, t2}
  Checkouts = {c1, c2}
  None = None
  MaxActiveGoals = 2
  MaxTeamsPerGoal = 2
  MaxTurns = 1
  MaxRevision = 3
  MaxChanges = 1
INVARIANTS
  TypeOK
  TeamOwnedOnce
  AwaitingComplete
  ReleasedWhenStopped
PROPERTIES
  HandedOverOnce
