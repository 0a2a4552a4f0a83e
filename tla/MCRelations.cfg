SPECIFICATION Spec

CONSTANTS
    Users = {u1, u2}
    TagNames = {n1, n2}
    NULL = NULL
    MaxSerial = 3

SYMMETRY Symmetry

INVARIANTS
    LikedOnce
    IdsOutliveNothing
