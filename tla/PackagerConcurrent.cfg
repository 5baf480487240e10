SPECIFICATION ReleaseSpec
CONSTANTS
    r1 = r1
    r2 = r2
    main_html = main_html
    extra_js = extra_js
    k1 = k1
    k2 = k2
    Absent = Absent
    Directory = Directory
    Special = Special
    Oversized = Oversized
    WrongSize = WrongSize
    NoFile = NoFile
    NoRun = NoRun
    Hole = Hole
    Runs = {r1, r2}
    Keys = {k1}
    UiNames <- MCUiNames
    UiContents <- MCUiContents
    UiEdits = {}
    Manifests <- ReleaseManifests
    Payloads <- ReleasePayloads
    InitialInputs <- ReleaseInputs
    Jobs <- ReleaseJobs
    MaxEdits = 1
    MaxCleans = 1
    Goals = {"install", "docker-install"}
    SuffixConfigured = TRUE
    LeftoverExists = FALSE
    VerifierRefuses = {}
    Blocks = 2
SYMMETRY RunSymmetry
CHECK_DEADLOCK FALSE
INVARIANTS ReleaseTypeOK NoTemporaryLeft SuccessIsReadable InstalledWhole InstalledVerified
PROPERTY ImplementsPromise
