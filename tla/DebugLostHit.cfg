SPECIFICATION FairSpec
CONSTANTS
    NumBps = 1
    PipeCap = 2
    Addr <- MCAddr
    Entry = 1
    Escape = 3
    Succ <- MCSucc
    Targets = {1}
    Cmds = {"bp", "g"}
    MaxStrikes = 0
PROPERTY HitReported
CHECK_DEADLOCK FALSE
