CHECK_DEADLOCK FALSE
SPECIFICATION FairSpec
CONSTANTS
  Tasks = {a}
  Inputs = {i1, i2}
  Builds = {m1, m2}
  Jobs = {j1, j2}
  None = None
  FaultKinds = {"crash"}
  MaxVersion = 4
  MaxFaults = 2
INVARIANTS
  PublishedIsCurrent
PROPERTIES
  EventSettles
