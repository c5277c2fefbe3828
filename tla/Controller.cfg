SPECIFICATION FairSpec
CONSTANTS
  Host = {h1, h2}
  App = {a1}
  MaxClient = 2
  MaxCommand = 2
INVARIANTS
  TypeOK
  LaunchListExact
PROPERTIES
  StaleDropped
CHECK_DEADLOCK FALSE
