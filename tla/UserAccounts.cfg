CONSTANTS
    Threads = {t1, t2}
    GlobusIDs = {g, h}
    MaxCalls = 3
    MaxTroubles = 1
SPECIFICATION Spec
SYMMETRY Symmetry
INVARIANTS TypeOK RecordsWhole CachesAgree
PROPERTIES AccountSpec
CHECK_DEADLOCK FALSE
