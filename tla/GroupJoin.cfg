SPECIFICATION Spec
CONSTANTS
  a = a
  b = b
  c = c
  d = d
  None = None
  Member = {a, b, c, d}
  Founders = {a, c, d}
  Followers = {}
  FirstLeader = None
  Silent = {c, d}
  GroupSize = 1
  MaxElection = 1
  MaxQueue = 1
  MaxLeave = 1
  MaxCrash = 1
  MaxSuspect = 1
  MaxPoll = 1
SYMMETRY MemberSymmetry
INVARIANTS
  TypeOK
  LeaderWatched
  NoticeExact
CHECK_DEADLOCK FALSE
