\* The kernel may halt: entry() returns or faults.
CHECK_DEADLOCK FALSE
SPECIFICATION FairSpec
CONSTANTS
    NUM_TERMINAL = 2
    MaxDepth = 2
    HEX_DIGITS = 2
INVARIANTS
    HandlersAtomic
    UsersInterruptible
    ProgramReach
    PrintsValues
PROPERTY
    DevicesAnswered
CONSTRAINT
    OneReport
