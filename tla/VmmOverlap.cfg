SPECIFICATION DosSpec
CONSTANTS
    DwordBits = 4
    Pages = 16
    Behind = 4
    Reserved = 2
    Requests <- MCRequests
    MaxBlocks = 2
    PageBytes = 8
    Words = 256
    Objects <- MCObjects
    ThunkPage = 6
    ThunkBytes = 8
    Sizes <- MCSizes
    InfoValues = 3
    InfoAsks <- MCInfoAsks
    HostAnswers = {0, 5, 255}
INVARIANT BlocksDisjoint
CHECK_DEADLOCK FALSE
