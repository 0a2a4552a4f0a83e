SPECIFICATION SpecWithFirst

CONSTANTS
    n1 = n1
    n2 = n2
    n3 = n3
    n4 = n4
    n5 = n5
    NULL = NULL
    Nodes <- MCNodes

INVARIANTS
    RingMatchesItems
