SPECIFICATION FairSpec
CONSTANTS
  a1 = a1
  d1 = d1
  Disco = Disco
  Actor = {a1}
  Device = {d1}
  Owner <- MCOwner
  MaxPid = 6
  MaxCommand = 2
  MaxFail = 1
  MaxCrash = 2
  MaxEvent = 4
  Prepared = TRUE
  Relaunch = FALSE
INVARIANTS
  LaunchedKept
PROPERTIES
  DeadRestarted
  RecordedRecover
  
CHECK_DEADLOCK FALSE
