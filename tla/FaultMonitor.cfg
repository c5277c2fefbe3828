SPECIFICATION Spec
CONSTANTS
  Node = {n1, n2}
  MaxCommand = 3
  MaxLoss = 1
INVARIANTS
  TypeOK
  
  
  MonitorRuns
SYMMETRY Symmetry
CHECK_DEADLOCK FALSE
