SPECIFICATION FairSpec
CONSTANTS
  MaxAttempts = 2
  Plans <- Endings
CHECK_DEADLOCK FALSE
PROPERTIES
  Settles
  SummaryFollows
  TerminationEnds
