SPECIFICATION Spec
CONSTANTS
    ByteBits = 5
    FlagBit <- MCFlagBit
    Tasks <- MCLines
    MemSize = 1
    Dollar = 4
    HostValues = {0}
    AllModRMs = {5, 70, 193}
INVARIANTS
    TypeOK
    LinesFollow
    TargetsListed
    ImmediatesListed
    TraceFits
CHECK_DEADLOCK FALSE
