SPECIFICATION FairSpec
CONSTANTS
  a = a
  b = b
  i = i
  j = j
  Artifacts = {a, b}
  Instances = {i, j}
  None = None
  Settings <- AllSettings
  Protocols = {"stream", "archive", "service"}
  MaxMishaps = 4
  MissingLimit = 2
  FinalLimit = 2
  phone = phone
  r1 = r1
  r2 = r2
  Runs = {r1, r2}
  Phones = {phone}
  Uses <- OnePhone
  Accepted = {r1}
  MaxRestarts = 1
  MaxDeletions = 1
INVARIANTS
  EvidenceKept
  ClosedIsComplete
  PhoneExclusive
  StoppedForGood
PROPERTIES
  TransferEnds
  PauseLifted
CHECK_DEADLOCK FALSE
