SPECIFICATION Spec
CONSTANTS
  Threads = {t1, t2}
  Stages = {tree, quality}
  Payloads = {p1, p2}
  Ops = {o1, o2, o3}
  Absent = Absent
  Broken = Broken
  NoThread = NoThread
  NoOp = NoOp
  MaxFaults = 2
SYMMETRY Symmetry
INVARIANTS
  RecoveredIsRegistered
PROPERTIES
  NoLostUpdate
  ImplementsCurrent
