SPECIFICATION FairSpec

CONSTANTS
    LOG_QUEUE_SIZE = 3
    CallLevels <- MCLevels
    Thresholds <- MCThresholds
    InitOutcomes = {"ok", "nofile", "nothread"}
    MaxCalls = 4

INVARIANTS
    TypeOK
    DeliveredInOrder
    NoSleepWithWork
    StreamOpenWhileWriting
    ClosedMeansFlushed
    EchoMirrorsFile

PROPERTIES
    CloseReturns
    ImplementsFairChannel
