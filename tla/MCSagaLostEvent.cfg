CONSTANTS
    ProductIDs = {"p"}
    Quantities = {1}
    Amounts = {1006}
    MaxOrders = 1
    InitialStock <- ScarceStock
    Relays = {r1}
    BatchLimit = 2
    MaxRetryCount = 5
    MaxLosses = 1
    MaxRollbacks = 0
    MaxFailures = 0
SPECIFICATION FairSpec
CHECK_DEADLOCK FALSE
PROPERTIES
    LeavesPending
