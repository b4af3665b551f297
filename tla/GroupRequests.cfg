CONSTANTS
    Threads = {t1, t2}
    Names = {m, n}
    MaxCalls = 3
    MaxTroubles = 1
SPECIFICATION Spec
SYMMETRY Symmetry
INVARIANTS TypeOK RecordsReadable CachesAgree
 
CHECK_DEADLOCK FALSE
