SPECIFICATION FairSpec
CONSTANTS
  in1 = in1
  in2 = in2
  group1 = group1
  timer1 = timer1
  Timer = {timer1}
  Periods = {1}
  Port = {in1, in2}
  Group = {group1}
  Prio <- MCPrio
  Model <- MCModel
  MaxInbox = 1
  MaxGen = 1
  MaxLaunch = 1
  MaxNotice = 1
  MaxCmd = 1
  MaxTask = 2
INVARIANTS
  NoBlindHandler
  OneShotOnce
PROPERTIES
  Served
  Ends
CHECK_DEADLOCK FALSE
