SPECIFICATION Spec
CONSTANTS
    NUM_TERMINAL = 1
    BUF_SIZE = 3
    NewlineCode = 1
    Keys <- ModifierKeys
    Requests = {2, 9}
    MaxShift = 4
    Overruns = TRUE
INVARIANTS
    TypeOK
    ModifiersMatch
PROPERTIES
    LetterCase
