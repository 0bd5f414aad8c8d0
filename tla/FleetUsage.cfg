CONSTANTS
    c1 = c1
    c2 = c2
    PiProcess = {c1, c2}
    Upstream = {"plan", "board"}
    Info <- MCInfo
    MaxRecords = 4
    MinCalls = 1
    SessionLimit = 2
    WarnPct = 50
    NudgeGap = 2
SPECIFICATION UsageSpec
INVARIANTS UsageTypeOK
PROPERTIES NudgesSpaced
SYMMETRY Clients
