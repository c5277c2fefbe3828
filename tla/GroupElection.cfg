SPECIFICATION Spec
CONSTANTS
  a = a
  b = b
  c = c
  None = None
  Member = {a, b, c}
  Founders = {a, b, c}
  Followers = {a, b}
  FirstLeader = a
  Silent = {}
  GroupSize = 1
  MaxElection = 2
  MaxQueue = 1
  MaxLeave = 0
  MaxCrash = 0
  MaxSuspect = 0
  MaxPoll = 0
INVARIANTS
  RoleCoherent
  QryFollowsLeader
PROPERTY KeepsLeadership
CHECK_DEADLOCK FALSE
