CONSTANTS
    MaxRetries = 10
    MaxSignals = 2
    MaxBreaks = 0
SPECIFICATION FairSpec
CHECK_DEADLOCK FALSE
PROPERTIES
    FailureEndsProcess
