SPECIFICATION Spec
CONSTANTS
    CacheBits = 64
    MaxBits = 32
    CountMod = 1024
    WireSizes <- WideWireSizes
    Values <- WideValues
    Counts <- WideCounts
    Chunks <- WideChunks
    MaxItems = 3
PROPERTIES
    ImplementsChannel
CHECK_DEADLOCK FALSE
