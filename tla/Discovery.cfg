SPECIFICATION FairSpec
CONSTANTS
  n1 = n1
  n2 = n2
  first = first
  second = second
  k = k
  None = None
  Node = {n1, n2}
  Actor = {first, second}
  Key = {k}
  Home <- MCHome
  Serves <- MCServes
  Needs <- MCNeeds
  MaxCrash = 1
  MaxStop = 1
INVARIANTS
  TypeOK
  RemovedHidden
  ClientsEnrolled
PROPERTIES
  RemovedVanishes
  ProviderTold
CHECK_DEADLOCK FALSE
