SPECIFICATION ResourcesFairSpec
CONSTANTS
  busy = busy
  large = large
  Actor = {busy, large}
  Usage <- MCUsage
  MaxStart = 4
  MaxCleanup = 1
INVARIANTS
  ResourcesTypeOK
  MonitorsFollow
PROPERTY WaitsEnd
CHECK_DEADLOCK FALSE
