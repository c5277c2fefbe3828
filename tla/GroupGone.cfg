SPECIFICATION FairSpec
CONSTANTS
  a = a
  b = b
  c = c
  None = None
  Member = {a, b, c}
  Founders = {a, b, c}
  Followers = {a, b}
  FirstLeader = a
  Silent = {}
  GroupSize = 1
  MaxElection = 1
  MaxQueue = 1
  MaxLeave = 0
  MaxCrash = 1
  MaxSuspect = 0
  MaxPoll = 0
PROPERTIES
  ConflictResolved
  SoleLeaderFollowed
  GoneForgotten
CHECK_DEADLOCK FALSE
