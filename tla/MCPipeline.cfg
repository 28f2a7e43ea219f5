SPECIFICATION Spec
CONSTANTS
  MaxAttempts = 2
  Plans <- Histories
CHECK_DEADLOCK FALSE
INVARIANTS
  RetriesKept
  NothingRunsUnseen
PROPERTIES
  PublishedIsCurrent
  PauseHolds
