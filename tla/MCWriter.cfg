SPECIFICATION Spec
VIEW StateView
CONSTANTS
    CacheBits = 16
    MaxBits = 8
    CountMod = 32
    MaxPending <- MCPending
    Buffers <- MCBuffers
    Values <- OneValue
    Counts <- MCCounts
    Chunks <- MCChunks
INVARIANTS
    TypeOK
    PendingFits
PROPERTIES
    OnlyAppends
    FlushDrains
    ImplementsSink
