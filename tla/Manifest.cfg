SPECIFICATION Spec
CONSTANTS
    Missing = Missing
    Null = Null
    Other = Other
    Nested = Nested
    Absent = Absent
    UiNames <- MCUiNames
    Manifests = {}
    Payloads = {}
    UiContents = {}
    Keys = {}
    Hosts <- MCHosts
    Ports <- MCPorts
    Modules <- MCModules
    Mentions <- MCMentions
    Inputs <- MCInputs
    MAX_PORT = 4
    DEFAULT_PORT = 3
    MAX_ORIGINS = 2
    MAX_VIEWS = 2
    MAX_MODULES = 3
    MAX_WINDOW = 8
    MAX_EXPANSION = 8
    PAGE = 4
CHECK_DEADLOCK FALSE
INVARIANTS AcceptedIsConsistent RaisesOnlyUnhashable UpgradeKeeps WarningsCanBeHeeded NullMeansMissing
