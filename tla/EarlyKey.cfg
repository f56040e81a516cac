\* The kernel may halt: entry() returns or faults.
CHECK_DEADLOCK FALSE
SPECIFICATION FairSpec
CONSTANTS
    NUM_TERMINAL = 2
    MaxDepth = 0
    HEX_DIGITS = 1
PROPERTY
    KeysFetched
