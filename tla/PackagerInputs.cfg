SPECIFICATION FairSpec
CONSTANTS
    r1 = r1
    r2 = r2
    main_html = main_html
    extra_js = extra_js
    k1 = k1
    k2 = k2
    Absent = Absent
    Directory = Directory
    Special = Special
    Oversized = Oversized
    WrongSize = WrongSize
    NoFile = NoFile
    NoRun = NoRun
    Runs = {r1}
    Keys = {k1, k2}
    UiNames <- MCUiNames
    UiContents <- MCUiContents
    UiEdits <- MCUiEdits
    Manifests <- AllManifests
    Payloads <- AllPayloads
    InitialInputs <- AllInputs
    Jobs <- AllJobs
    MaxEdits = 2
    MaxCleans = 1
CHECK_DEADLOCK FALSE
INVARIANTS OutputComplete SignatureCoversOutput DetachedOutputVerifies
PROPERTY RunsEnd
