SPECIFICATION Spec
VIEW StateView
CONSTANTS
    CacheBits = 64
    MaxBits = 32
    CountMod = 1024
    MaxPending <- WidePending
    Buffers <- Short
    Values <- Wide
    Counts <- WideCounts
    Chunks <- MCChunks
INVARIANTS
    ShiftsDefined
