CONSTANTS
    ProductIDs = {"p"}
    Quantities = {0, 1}
    Amounts = {1006}
    MaxOrders = 2
    InitialStock <- ScarceStock
    Relays = {r1}
    BatchLimit = 2
    MaxRetryCount = 5
    MaxLosses = 1
    MaxRollbacks = 1
    MaxFailures = 0
SPECIFICATION Spec
CHECK_DEADLOCK FALSE
INVARIANTS
    ExactlyOnceEffects
    CompletedIsPaidAndHeld
    CancelledIsFree
    StockFollowsDecision
    SettlementsFollowReservations
PROPERTIES
    ImplementsFulfilment
