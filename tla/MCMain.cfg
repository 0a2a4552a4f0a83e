SPECIFICATION FairSpec

CONSTANTS
    Capacity = 2
    MaxStarts = 2

INVARIANTS
    ServesOnlyWhenReady
    ConfigThereWhenUsed
    FaultlessStartServes
    ListenerClosedOnReturn
    CleanExitIsComplete

PROPERTIES
    SignalEndsProcess
