SPECIFICATION HttpSpec

CONSTANTS
    c1 = c1
    c2 = c2
    c3 = c3
    NoConn = NoConn
    NULL = NULL
    ERROR = ERROR
    Conns <- MCConns
    Size <- MCSize
    Request <- MCRequest
    Cuts <- MCCuts
    Routes <- MCRoutes
    Words = {"GET", "a", "b", "v"}
    RecvMax = 2
    FdLimit = 2
    SOMAXCONN = 2
    MAX_EVENTS = 2
    FirstLine <- MCFirstLine
    Crashes <- MCCrashes
    CallbackErrors = TRUE
    AddFails = TRUE

CONSTRAINT OneOfEach

INVARIANTS
    TypeOK
    NoStaleEvent
    NoLostReadiness
    AcceptNeverBlocks
    WatchedIffOpen
    AnswerFitsRequest

PROPERTIES
    ImplementsServiceSteps
    HangsUpOnlyOnItsClient
