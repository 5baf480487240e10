SPECIFICATION FairSpec
CONSTANTS
    Sections <- MCSections
    Bytes <- MCBytes
    NUL = "nul"
    EQUALS = "="
    Continuation = {"cont"}
    Width <- MCWidth
    IdentifierBytes = {"n", "w", "k"}
    ControlBytes = {"bell"}
    NAME <- MCName
    WUPS <- MCWups
    STORAGE_ID <- MCStorageId
    DEBUG <- MCDebug
    Supported <- MCSupported
    DebugFlags <- MCDebugFlags
    MAX_STRING = 8
    MAX_KEY = 2
    MAX_NAME = 2
    MAX_STORAGE_ID = 1
CHECK_DEADLOCK FALSE
INVARIANTS TypeOK NothingLost AsciiExact
PROPERTY Terminates
