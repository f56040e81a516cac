SPECIFICATION FairSpec
CONSTANTS
    NUM_TERMINAL = 2
    PCB_SIZE = 4
    FDT_SIZE = 4
    Frequencies = {2, 4}
    HZ_2 = 2
    HZ_1024 = 4
    Requested = {1, 5}
    Arguments = {"a"}
    OneClock = TRUE
    MAX_OPEN = 2
INVARIANTS
    TypeOK
    ClockServed
    ArgumentsArrive
PROPERTY RtcReadEnds
CONSTRAINT FewOpen
