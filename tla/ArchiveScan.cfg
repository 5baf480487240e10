SPECIFICATION Spec
CONSTANTS
    page_a = page_a
    page_A = page_A
    page_b = page_b
    k1 = k1
    Absent = Absent
    Keys = {k1}
    UiNames <- MCUiNames
    UiContents <- MCUiContents
    Manifests <- MCManifests
    Payloads <- MCPayloads
    Components <- MCComponents
    Fold <- MCFold
    BadComponents = {"unsafe"}
    Drives = {"C:"}
    PathOf <- MCPathOf
    Archives <- MCArchives
    Escaping <- MCEscaping
    MAX_PACKAGE_ENTRIES = 5
    MAX_EXPANDED_BYTES = 11
    MAX_UI_FILES = 2
    MAX_UI_FILE_BYTES = 4
    MAX_UI_BYTES = 6
    MAX_MANIFEST_BYTES = 4
    MAX_PAYLOAD_BYTES = 6
    MAX_COMPRESSION_RATIO = 2
    RATIO_FLOOR = 2
CHECK_DEADLOCK FALSE
INVARIANTS AcceptsExactly ScanBounds NamesDistinct
