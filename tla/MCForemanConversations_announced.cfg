\* One question: a reply that comes after an ambiguous delivery was acknowledged.
SPECIFICATION Spec
CHECK_DEADLOCK FALSE
CONSTANTS
  Questions = {q1}
  MemberLimit = 4
  MaxMembers = 1
  MaxForemen = 1
PROPERTIES
  RepliesAnnounced
