SPECIFICATION FairSpec
CHECK_DEADLOCK FALSE
CONSTANTS
  q1 = q1
  q2 = q2
  i1 = i1
  i2 = i2
  i3 = i3
  i4 = i4
  w = w
  f = f
  g = g
  h = h
  c = c
  d = d
  None = None
  Imports = {i1, i2, i3, i4}
  Data <- MCData
  Platform = {h}
  Workflow = {w}
  Requests = {q1, q2}
  Tables = {1, 2}
  MaxAttempts = 3
  MaxFaults = 2
  Plans <- MCPlans
INVARIANTS
  ReleasesWhole
  ReleasedOnce
  SummaryRepaired
PROPERTIES
  NeverSentAgain
  EveryReleaseConverted
