SPECIFICATION MCSpec
CONSTANTS
    None = None
    Commands = {"SetPassive", "Reload", "Reset", "Toggle"}
    LegacyCores = {TRUE, FALSE}
    MaxChanges = 2
    MaxRestarts = 1
    MaxFailures = 1
    MaxSignals = 2
INVARIANTS SyncIsSafe CommandsAddUp AcceleratorsAgree
PROPERTY NeverBackwards
CHECK_DEADLOCK FALSE
