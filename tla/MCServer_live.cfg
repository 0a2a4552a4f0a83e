SPECIFICATION FairSpec

CONSTANTS
    c1 = c1
    c2 = c2
    c3 = c3
    NoConn = NoConn
    Conns <- MCConns
    Size <- MCSizeOne
    RecvMax = 1
    FdLimit = 2
    SOMAXCONN = 2
    MAX_EVENTS = 1
    CallbackErrors = TRUE
    Crashes <- MCCrashes
    AddFails = FALSE

PROPERTIES
    QueuedIsAccepted
    SignalEndsLoop
    ImplementsService
