SPECIFICATION FairSpec
CONSTANTS
    DwordBits = 2
    Pages = 16
    Behind = 2
    Reserved = 2
    Requests = {}
    MaxBlocks = 0
    ThunkBase = 8
    Libraries <- MCLibraries
    Implemented <- MCImplemented
    Offsets <- MCOffsets
    Exes <- MCExes
INVARIANT TypeOK
INVARIANT ImagesKept
INVARIANT OneThunkEach
INVARIANT FixedUp
INVARIANT StartsInside
PROPERTY Ends
CHECK_DEADLOCK FALSE
