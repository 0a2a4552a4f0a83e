SPECIFICATION Spec

CONSTANTS
    Names = {"ann"}
    Texts = {}
    SessionIds = {"s1"}
    NULL = NULL
    Times = {0, 3}
    Zone = 1
    Summer = {0, 1}
    Int32 = 3
    MaxSerial = 2
    MaxHeld = 2
    MaxMade = 2

PROPERTIES
    UpdateKeepsTheUser
