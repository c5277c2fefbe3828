SPECIFICATION PortsSpec
CONSTANTS
  req1 = req1
  clt1 = clt1
  rep1 = rep1
  rep2 = rep2
  qry1 = qry1
  qry2 = qry2
  qry3 = qry3
  ans1 = ans1
  sub1 = sub1
  pub1 = pub1
  pub2 = pub2
  plug1 = plug1
  plug2 = plug2
  ins1 = ins1
  None = None
  Req = {req1}
  Clt = {clt1}
  Qry = {qry1, qry2, qry3}
  Sub = {sub1}
  Plug = {plug1, plug2}
  Rep = {rep1, rep2}
  Ans = {ans1}
  Pub = {pub1, pub2}
  Ins = {ins1}
  Identity <- MCIdentity
  World <- MCWorld
  MaxSend = 3
  MaxReset = 1
  MaxCrash = 1
INVARIANTS
  AnswersReturn
PROPERTIES
  RepliesMatch
CHECK_DEADLOCK FALSE
