SPECIFICATION FairSpec
CONSTANTS
  Jobs = {j1, j2}
  None = None
  MaxLives = 3
  MaxStuck = 2
CHECK_DEADLOCK FALSE
INVARIANTS
  OneWorker
  CommitDecides
PROPERTIES
  RevokedPublishesNothing
  JobsEnd
