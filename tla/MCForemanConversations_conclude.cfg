\* Two questions over two runs of the member and two of the Foreman.
SPECIFICATION Spec
CHECK_DEADLOCK FALSE
CONSTANTS
  Questions = {q1, q2}
  MemberLimit = 1
  MaxMembers = 2
  MaxForemen = 2
INVARIANTS
  TypeOK
PROPERTIES
  AskedWhileOpen
  QuestionsConclude
