SPECIFICATION Spec
VIEW StateView
CONSTANTS
    CacheBits = 16
    MaxBits = 8
    CountMod = 24
    MaxPending <- WrapPending
    Buffers <- MCBuffers
    Values <- ZeroValue
    Counts <- MCCounts
    Chunks <- MCChunks
PROPERTIES
    OnlyAppends
    ImplementsSink
