CONSTANTS
    InitialStock <- MCInitialStock
    Inbound <- MCInbound
    Workers = {w1, w2}
    MaxRollbacks = 1
SPECIFICATION FairTxSpec
CHECK_DEADLOCK FALSE
INVARIANTS
    TypeOK
    StockAccounting
    AnsweredOnce
PROPERTIES
    SettledOnce
    Serializable
    TransactionsEnd
