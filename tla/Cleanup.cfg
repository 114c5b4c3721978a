SPECIFICATION Spec
CHECK_DEADLOCK FALSE
SYMMETRY OperatorSymmetry
CONSTANTS
    Threads = {t1}
    Operators = {o1, o2}
    Plans = {p1}
    NoOne = NoOne
    Limit = 1
    Retention = 1
    TTL = 3
    Detect = 0
    Settle = 1
    MaxClock = 5
    MaxVersion = 1
    MaxBackups = 1
INVARIANTS
    CleanupInv
PROPERTIES
    ErasesOnlyEligible
    NoWriteUnderExclusive
