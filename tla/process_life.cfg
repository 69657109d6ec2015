SPECIFICATION FairSpec
CONSTANTS
    Conns = {c1}
    Telemetry = TRUE
    MaxStarts = 2
    Plain <- MCPlain
    InData <- MCInData
    MaxFaults = 1
    c1 = c1
INVARIANTS IdentityKept
PROPERTIES ShutdownCompletes NoticeFollows KeyFilesKept
CHECK_DEADLOCK FALSE
