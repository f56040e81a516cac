SPECIFICATION FairSpec
CONSTANTS
    NUM_TERMINAL = 2
    BUF_SIZE = 3
    NewlineCode = 1
    Keys <- LineKeys
    Requests = {2, 9}
    MaxShift = 2
    Overruns = FALSE
INVARIANTS
    NewlinePending
PROPERTIES
    ReadsOwnTerminal
    ImplementsTypedLines
    WaitEnds
