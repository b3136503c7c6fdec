SPECIFICATION Spec
CONSTANTS
    DwordBits = 2
    Pages = 16
    Behind = 2
    Reserved = 2
    Requests = {}
    MaxBlocks = 0
    ThunkBase = 8
    Libraries <- MCLibraries
    Implemented <- MCImplemented
    Offsets <- MCOffsets
    Exes <- HelloExes
INVARIANT FixedUp
CHECK_DEADLOCK FALSE
