SPECIFICATION TreeSpec
CONSTANTS
  Points = {1, 2, 3, 4}
  Args = {"none", "success"}
  Actions <- All
  Feeds <- Tasks
  MaxSkip = 2
CHECK_DEADLOCK FALSE
INVARIANTS
  SiblingsDiffer
  RecoveryHappens
  RepeatsAreAbsorbed
