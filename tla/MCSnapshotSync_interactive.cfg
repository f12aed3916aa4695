CONSTANTS
    None = None
    Commands = {"SetPassive"}
    LegacyCores = {FALSE}
    MaxChanges = 2
    MaxRestarts = 0
    MaxFailures = 0
    MaxSignals = 1
SPECIFICATION FairSpec
PROPERTY InteractiveTakesInput
CHECK_DEADLOCK FALSE
