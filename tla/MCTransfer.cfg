SPECIFICATION Spec
CONSTANTS
    CacheBits = 16
    MaxBits = 8
    CountMod = 64
    WireSizes <- MCWireSizes
    Values <- MCValues
    Counts <- MCCounts
    Chunks <- MCChunks
    MaxItems = 4
INVARIANTS
    TypeOK
    RestIsPadding
PROPERTIES
    ImplementsChannel
CHECK_DEADLOCK FALSE
