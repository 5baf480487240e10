SPECIFICATION Spec
CONSTANTS
    r1 = r1
    r2 = r2
    main_html = main_html
    extra_js = extra_js
    k1 = k1
    k2 = k2
    Absent = Absent
    Directory = Directory
    Special = Special
    Oversized = Oversized
    WrongSize = WrongSize
    NoFile = NoFile
    NoRun = NoRun
    Runs = {r1}
    Keys = {k1}
    UiNames <- MCUiNames
    UiContents <- MCUiContents
    UiEdits <- MCUiEdits
    Manifests <- LimitManifests
    Payloads <- LimitPayloads
    InitialInputs <- LimitInputs
    Jobs <- LimitJobs
    MaxEdits = 0
    MaxCleans = 0
CHECK_DEADLOCK FALSE
INVARIANT OutputAccepted
