SPECIFICATION DbSpec

CONSTANTS
    StringKeys = {"DB_HOST", "DB_USER"}
    NumberKeys = {"PORT"}
    FlagKeys = {"LOG_ERASE"}
    DbKeys <- MCDbKeys
    Defaults <- MCDefaults
    Digits <- MCDigits
    Yes = {"y", "1"}
    Lines <- MCLines
    MaxLines = 2
    LineMax = 7
    ConnMax = 9
    REFUSED = REFUSED
    UNSET = UNSET
    Schemas <- MCSchemas
    Strings = {"x", "y"}
    Serials <- MCSerials
    NULL = NULL
    MaxRows = 2

INVARIANTS
    ReadsWhatIsMeant
    AsksForWhatIsMeant
    StatementsParse

PROPERTIES
    InsertStoresItsValues
    UpdateChangesItsColumns
