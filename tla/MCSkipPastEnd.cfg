SPECIFICATION Spec
VIEW StateView
CONSTANTS
    CacheBits = 64
    MaxBits = 32
    Buffers <- MCBuffers
    Counts <- MCCounts
    SkipCounts <- FarSkips
    ByteCounts <- MCByteCounts
PROPERTIES
    SkipClipsAtEof
