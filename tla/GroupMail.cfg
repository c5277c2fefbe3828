SPECIFICATION Spec
CONSTANTS
  a = a
  b = b
  c = c
  i = i
  j = j
  None = None
  Member = {a, b, c}
  FirstLeader = a
  Ident = {i, j}
  FirstName <- MCFirstName
  MaxSend = 3
  MaxGroup = 1
  MaxChange = 1
  MaxLeave = 1
  MaxRare = 2
SYMMETRY Symmetry
INVARIANTS
  SendsPaired
  AnswerReturns
PROPERTIES
  OwnReply
CHECK_DEADLOCK FALSE
