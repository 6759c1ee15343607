CONSTANTS
    ProductIDs = {"p"}
    Quantities = {1}
    Amounts = {1006}
    MaxOrders = 1
    MaxDeliverable = 1
    Inbound <- MCInbound
    Workers = {w1}
    MaxRollbacks = 0
SPECIFICATION TxSpec
INVARIANT CancelledIsSkipped
CHECK_DEADLOCK FALSE
