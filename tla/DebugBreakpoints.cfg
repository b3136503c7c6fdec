SPECIFICATION FairSpec
CONSTANTS
    NumBps = 1
    PipeCap = 2
    Addr <- MCAddr
    Entry = 1
    Escape = 3
    Succ <- MCSucc
    Targets = {1, 2}
    Cmds = {"r", "d", "u", "bl", "wl", "bp", "br", "wr", "wp", "g", "goto", "t", "q"}
    MaxStrikes = 0
INVARIANT RepliesMatch
INVARIANT PromptMeansStopped
PROPERTY Answered
PROPERTY GoMoves
CHECK_DEADLOCK FALSE
