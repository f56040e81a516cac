SPECIFICATION Spec
CONSTANTS
    BLOCK_SIZE = 2
    INODE_DB = 3
    NUM_INODES = 5
    POSITIONS = 7
    FNAME_SIZE = 3
    FDT_SIZE = 4
    Data <- MCData
    MAGIC <- MCMagic
    ENTRY_OFF = 3
    ENTRY_SIZE = 2
    PAGE_SIZE = 4
    Dentries <- MCDentries
    Inodes <- MCInodes
    Names <- MCNames
    Requests = {0, 3}
INVARIANTS
    TypeOK
    BytesInOrder
    ListingInOrder
    CopyInv
PROPERTIES
    WholeProgram
    ImplementsFiles
CONSTRAINT ReadOnce
