SPECIFICATION Spec

CONSTANTS
    Words = {"a"}
    Paths <- MCPaths
    NULL = NULL
    ERROR = ERROR
    FirstLine = 5
    MaxTokens = 8
    MaxRoutes = 2

INVARIANTS
    HandlerSeesItsPath
    PiecesMakeTheRequest
