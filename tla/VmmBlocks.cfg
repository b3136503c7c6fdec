SPECIFICATION DosSpec
CONSTANTS
    DwordBits = 4
    Pages = 16
    Behind = 4
    Reserved = 2
    Requests <- MCRequests
    MaxBlocks = 3
    PageBytes = 8
    Words = 256
    Objects <- MCObjects
    ThunkPage = 6
    ThunkBytes = 8
    Sizes <- MCSizes
    InfoValues = 3
    InfoAsks <- MCInfoAsks
    HostAnswers = {0, 5, 255}
INVARIANT TypeOK
INVARIANT SharedLastPageOnly
INVARIANT StuckMidDword
INVARIANT AllocCovers
INVARIANT SysInfoInside
PROPERTY FirstFit
PROPERTY IsPageSpace
PROPERTY RoundsAdvance
CHECK_DEADLOCK FALSE
