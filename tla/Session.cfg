SPECIFICATION Spec
CONSTANTS
    BUF_SIZE = 6
    BUFSIZE = 3
    Characters <- MCCharacters
    Slots = 3
    Behind <- Zeroed
    Exit <- ExitLetters
    Directory <- MCDirectory
    Program <- MCProgram
    Texts <- MCTexts
    Lines <- MCLines
    Counts <- MCCounts
INVARIANTS
    RunsWhatWasTyped
    WritesWhatWasAsked
