CONSTANTS
    None = None
    Commands = {"SetPassive"}
    LegacyCores = {TRUE, FALSE}
    MaxChanges = 1
    MaxRestarts = 1
    MaxFailures = 1
    MaxSignals = 1
SPECIFICATION FairSpec
PROPERTY Progress
CHECK_DEADLOCK FALSE
