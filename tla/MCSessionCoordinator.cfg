SPECIFICATION FairSpec
CONSTANTS
    MaxFailures = 2
    MaxChanges = 2
INVARIANT SessionIsSafe
PROPERTY Progress
CHECK_DEADLOCK FALSE
