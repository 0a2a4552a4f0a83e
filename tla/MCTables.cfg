SPECIFICATION Spec

CONSTANTS
    Names = {"ann", "bob"}
    Texts = {"text"}
    SessionIds = {"s1"}
    NULL = NULL
    Times = {0, 3}
    Zone = 1
    Summer = {0, 1}
    Int32 = 3
    MaxSerial = 2
    MaxHeld = 2
    MaxMade = 2

CONSTRAINT PlainWithSessions

INVARIANTS
    NeverAnothersSession

PROPERTIES
    UpdateHitsItsUser
    WriteBackIsWhatWasRead
    ExpiryMovesAtMostAnHour
