SPECIFICATION Spec
CONSTANTS
    NUM_TERMINAL = 1
    PCB_SIZE = 3
    FDT_SIZE = 4
    Frequencies = {2, 4}
    HZ_2 = 2
    HZ_1024 = 4
    Requested = {1, 5}
    Arguments = {"a"}
    OneClock = TRUE
    MAX_OPEN = 3
PROPERTY ParentsKeepDescriptors
CONSTRAINT FewOpen
