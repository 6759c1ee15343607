CONSTANTS
    ProductIDs = {"p"}
    Quantities = {0, 1}
    Amounts = {0, 1006}
    MaxOrders = 2
    MaxDeliverable = 2
    Inbound <- MCInbound
    Workers = {w1, w2}
    MaxRollbacks = 1
SPECIFICATION TxSpec
INVARIANTS
    TypeOK
    OneVerdict
    OutboxMatchesOrders
    CompensationsFollowFailures
PROPERTIES
    DecisionsAreFinal
    Serializable
