SPECIFICATION BuildSpec
CONSTANTS
    n_names = n_names
    n_symbols = n_symbols
    n_rela = n_rela
    n_boot = n_boot
    n_other = n_other
    Unnamed = Unnamed
    BadName = BadName
    bootstrap_name = n_boot
    Names = {n_names, n_symbols, n_rela, n_boot, n_other}
    Elfs <- MCElfs
    HEADER = 2
    MIN_PROGRAM = 1
    MIN_SECTION = 1
    MAX_PROGRAM = 3
    MAX_SECTIONS = 5
    MAX_RECORDS = 2
    CMB_HEADER = 1
    CMB_RECORD = 2
    MAX_TRUSTED_ELF_BYTES = 24
    GUEST_TOP = 36
    POINTER = 2
    Truncations = {0, 20, 22, 23}
CHECK_DEADLOCK FALSE
INVARIANTS BuildTypeOK AcceptedIsNormalized RaisesOnlyForIllegal MemoryCounted SegmentsDisjoint PatchesInImage HandlersExecute ElfAcceptsExactly
