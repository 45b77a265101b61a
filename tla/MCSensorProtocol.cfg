SPECIFICATION Spec
CONSTANTS
    CacheBits = 64
    MaxBits = 32
    CountMod = 1024
    Batches <- MCBatches
    WireSizes <- MCWireSizes
INVARIANTS
    TypeOK
    FieldsAreTheirOwn
    SuccessLosesNothing
    NoFalseAlarm
CHECK_DEADLOCK FALSE
