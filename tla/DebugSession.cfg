SPECIFICATION FairSpec
CONSTANTS
    NumBps = 1
    PipeCap = 2
    Addr <- MCAddr
    Entry = 1
    Escape = 3
    Succ <- MCSucc
    Targets = {1}
    Cmds = {"bp", "br", "g", "t", "wp", "q"}
    MaxStrikes = 2
INVARIANT TypeOK
INVARIANT OneStraggler
INVARIANT StrayReplies
PROPERTY Recovers
CHECK_DEADLOCK FALSE
