SPECIFICATION Spec
VIEW StateView
CONSTANTS
    CacheBits = 64
    MaxBits = 32
    Buffers <- MCBuffers
    Counts <- MCCounts
    SkipCounts <- MCSkipCounts
    ByteCounts <- MCByteCounts
INVARIANTS
    TypeOK
    CacheMirrorsBuffer
PROPERTIES
    PeekLoads
    ImplementsSource
