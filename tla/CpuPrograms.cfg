SPECIFICATION Spec
CONSTANTS
    ByteBits = 5
    FlagBit <- MCFlagBit
    Tasks <- MCTasks
    MemSize = 64
    Dollar = 4
    HostValues = {0, 7}
    Digits = {0, 16, 31}
INVARIANTS
    TypeOK
    BranchTells
    CarryTravels
    DividesBack
    CopiesAll
    SearchStops
    FrameKept
    LoadsThrough
    PrintsText
    OverridesEnd
CHECK_DEADLOCK FALSE
