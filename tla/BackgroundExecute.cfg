SPECIFICATION Spec
CONSTANTS
    NUM_TERMINAL = 2
    PCB_SIZE = 4
INVARIANTS
    ScheduledIsRunning
CONSTRAINT OnlyBackground
CHECK_DEADLOCK FALSE
