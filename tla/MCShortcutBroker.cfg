CONSTANTS
    MaxChanges = 3
    MaxLosses = 2
SPECIFICATION FairSpec
INVARIANT BrokerIsSafe
PROPERTIES OneAttemptPerPolicy Progress
CHECK_DEADLOCK FALSE
