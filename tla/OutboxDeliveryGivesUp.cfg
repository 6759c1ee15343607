CONSTANTS
    Relays = {r1}
    Clients = {r1}
    BatchLimit = 100
    MaxRetryCount = 5
    MaxReconnects = 10
    MaxOutages = 1
    MaxRows = 1
    MaxFaults = 2
SPECIFICATION RepairedSpec
CHECK_DEADLOCK FALSE
PROPERTIES
    EventuallySent
