CONSTANTS
    None = None
    Commands = {"SetPassive"}
    LegacyCores = {FALSE}
    MaxChanges = 1
    MaxRestarts = 0
    MaxFailures = 1
    MaxSignals = 1
SPECIFICATION Spec
INVARIANT PendingIsClickThrough
CHECK_DEADLOCK FALSE
