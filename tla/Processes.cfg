SPECIFICATION FairSpec
CONSTANTS
    NUM_TERMINAL = 2
    PCB_SIZE = 4
INVARIANTS
    NoCrash
    RunsOwnProcess
    SuspendedResumable
    ProcessTree
    OwnStacks
    ParentsWait
    IInv
PROPERTIES
    FreesOwnSlot
    BaseShellsStay
    EveryTerminalScheduled
    CallsComplete
    ImplementsTimeSharing
CONSTRAINT FewHazards
CHECK_DEADLOCK FALSE
