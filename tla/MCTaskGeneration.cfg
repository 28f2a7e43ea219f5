CONSTANTS
    Seeds = {s1, s2}
    Plans <- MCPlans
    MaxCrashes = 2
    MaxRaises = 2
    MaxEdits = 1
SPECIFICATION FairSpec
CHECK_DEADLOCK FALSE
INVARIANTS RowsBehindSeeds
PROPERTIES RowsKept JobsSettle
