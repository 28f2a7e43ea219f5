CHECK_DEADLOCK FALSE
SPECIFICATION Spec
CONSTANTS
  Tasks = {a, b}
  Inputs = {i1, i2}
  Builds = {m1}
  Jobs = {j1, j2}
  None = None
  FaultKinds = {"crash", "raise"}
  MaxVersion = 2
  MaxFaults = 2
SYMMETRY Symmetry
INVARIANTS
  NothingBehind
PROPERTIES
  OthersKept
