SPECIFICATION FairSpec
CONSTANTS
  a = a
  b = b
  c = c
  r1 = r1
  None = None
  Member = {a, b, c}
  Founders = {a, b, c}
  FirstLeader = a
  Rfv = {r1}
  MaxChange = 1
  MaxPeerChange = 1
  MaxGone = 1
INVARIANTS
  IInv
PROPERTIES
  ResultCarried
  PollAnnounced
CHECK_DEADLOCK FALSE
