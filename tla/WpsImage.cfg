SPECIFICATION ImageSpec
CONSTANTS
    n_text = n_text
    n_data = n_data
    n_bounds = n_bounds
    n_names = n_names
    n_hooks = n_hooks
    n_load = n_load
    n_symbols = n_symbols
    n_fimport = n_fimport
    n_dimport = n_dimport
    n_relocs = n_relocs
    n_fexports = n_fexports
    n_dexports = n_dexports
    n_other = n_other
    a = a
    b = b
    Unnamed = Unnamed
    BadName = BadName
    load_bounds = n_bounds
    hooks_name = n_hooks
    load_name = n_load
    FunctionImports = {n_fimport, n_bounds}
    DataImports = {n_dimport}
    BadModules = {n_bounds}
    Symbols = {a, b}
    SectionNames <- MCSectionNames
    Images <- MCImages
    Contents <- MCContents
    HEADER = 2
    ENTRY = 1
    MIN_SECTIONS = 5
    MAX_SECTIONS = 14
    MIN_DEFLATED = 2
    MAX_PAYLOAD_BYTES = 40
    MAX_EXPANDED_BYTES = 20
    TEXT_BASE = 2
    DATA_BASE = 22
    LOADER_BASE = 42
    GUEST_TOP = 62
    MAX_HOOK = 1
    MAX_HOOKS = 2
    MAX_REPLACEMENT = 2
    MAX_REPLACEMENTS = 2
    MAX_LIBRARY = 2
    FIXED = 2
    Processes = {1}
    MAX_EXPORTS = 2
    POINTER = 2
CHECK_DEADLOCK FALSE
INVARIANTS FileBytesDisjoint GuestBytesDisjoint ExpansionBounded WindowsRespected AcceptsExactly
INVARIANTS ImageTypeOK CodeIsNotStorage PatchesStayInside ImageAcceptsExactly
