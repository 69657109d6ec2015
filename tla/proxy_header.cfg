SPECIFICATION FairHeaderSpec
CONSTANTS
    HeaderLens = {3, 5, 7, 9, 12}
    StreamLen = 11
    Magic = 2
    Fixed = 4
    FirstRead = 8
    MaxLine = 6
INVARIANTS StreamIntact
PROPERTY EverythingArrives
CHECK_DEADLOCK FALSE
