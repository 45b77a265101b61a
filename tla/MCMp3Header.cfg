SPECIFICATION HeaderSpec
CONSTANTS
    CacheBits = 64
    MaxBits = 32
    RawHeaders <- MCRawHeaders
INVARIANTS
    FieldsCoverHeader
    ShowsOnlySynced
CHECK_DEADLOCK FALSE
