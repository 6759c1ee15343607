CONSTANTS
    Relays = {r1, r2}
    Clients = {r1, r2}
    BatchLimit = 1
    MaxRetryCount = 2
    MaxReconnects = 2
    MaxOutages = 1
    MaxRows = 2
    MaxFaults = 1
SPECIFICATION FairSpec
CHECK_DEADLOCK FALSE
INVARIANTS
    TypeOK
    DuplicatesNeedRollback
    CausalOrder
    SentWasAccepted
PROPERTIES
    ImplementsAtLeastOnce
    EventuallySettled
