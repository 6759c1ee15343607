CONSTANTS
    ProductIDs = {"p", "unknown"}
    Quantities = {1}
    Amounts = {1006}
    MaxOrders = 1
    InitialStock <- ScarceStock
    Relays = {r1}
    BatchLimit = 2
    MaxRetryCount = 5
    MaxLosses = 0
    MaxRollbacks = 1
    MaxFailures = 1
SPECIFICATION FairSpec
CHECK_DEADLOCK FALSE
PROPERTIES
    LeavesPending
    DeclinedIsCompensated
    CompletedIsCommitted
