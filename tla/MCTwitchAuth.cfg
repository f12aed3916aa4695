SPECIFICATION Spec
CONSTANTS
    MaxTokens = 3
    Faults = {3}
INVARIANT NoDaySleep
CHECK_DEADLOCK FALSE
