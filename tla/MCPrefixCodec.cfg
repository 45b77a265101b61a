SPECIFICATION Spec
CONSTANTS
    CacheBits = 16
    MaxBits = 8
    CountMod = 64
    Messages <- MCMessages
    WireSizes <- MCWireSizes
    OutSizes <- MCOutSizes
INVARIANTS
    TypeOK
    InStep
    RoundTrip
    NeverAborts
    OverflowIsExact
    VerdictIsHonest
PROPERTIES
    Advances
CHECK_DEADLOCK FALSE
