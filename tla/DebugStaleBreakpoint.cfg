SPECIFICATION Spec
CONSTANTS
    NumBps = 1
    PipeCap = 2
    Addr <- MCAddr
    Entry = 1
    Escape = 3
    Succ <- MCSucc
    Targets = {1}
    Cmds = {"bp", "g", "t"}
    MaxStrikes = 0
PROPERTY HitAtBreakpoint
CHECK_DEADLOCK FALSE
