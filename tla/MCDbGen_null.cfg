SPECIFICATION Spec

CONSTANTS
    Schemas <- MCSchemas
    Strings = {"x", "y"}
    Serials <- MCSerials
    NULL = NULL
    MaxRows = 2

PROPERTIES
    NullIsStored
