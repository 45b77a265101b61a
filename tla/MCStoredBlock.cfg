SPECIFICATION Spec
CONSTANTS
    CacheBits = 64
    MaxBits = 32
    CountMod = 1024
    Literals <- MCLiterals
    Capacities <- MCCapacities
INVARIANTS
    TypeOK
    RoundTrip
    AbortsWhenTooSmall
    AllOrNothing
CHECK_DEADLOCK FALSE
