SPECIFICATION Spec
CONSTANTS
    CacheBits = 24
    MaxBits = 16
    CountMod = 32
    ReaderStarts <- MCReaderStarts
    WriterStarts <- MCWriterStarts
INVARIANTS
    LoopIsRefill
    LeavesRefilled
    LoopIsDump
    LeavesDumped
PROPERTIES
    Terminates
CHECK_DEADLOCK FALSE
