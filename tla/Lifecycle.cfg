CONSTANTS
    MaxRetries = 10
    MaxSignals = 1
    MaxBreaks = 2
SPECIFICATION FairSpec
CHECK_DEADLOCK FALSE
INVARIANTS
    TypeOK
    ExitCodeTellsFailure
    StopsOnlyWhenTold
PROPERTIES
    SignalEndsProcess
    ServesUnlessStopped
