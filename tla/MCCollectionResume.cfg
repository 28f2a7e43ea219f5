SPECIFICATION FairSpec
CONSTANTS
  x = x
  y = y
  None = None
  MaxRequests = 2
  Settings <- Some
INVARIANTS
  SettledIsFinal
PROPERTIES
  StopScope
  BlockLifted
CHECK_DEADLOCK FALSE
