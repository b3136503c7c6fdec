SPECIFICATION Spec
CONSTANTS
    NumBps = 1
    PipeCap = 2
    Addr <- MCAddr
    Entry = 1
    Escape = 3
    Succ <- MCSucc
    Targets = {1}
    Cmds = {"g", "t"}
    MaxStrikes = 1
INVARIANT OneStepper
CHECK_DEADLOCK FALSE
