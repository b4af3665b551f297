\* One call at a time on fresh reads, with wrap-around of a range of three IDs.
SPECIFICATION ScanSpec
CONSTANTS
    Workers = {w1}
    Names = {a, b, c}
    Targets = {0, 2}
    MinID = 1
    MaxID = 4
    Lagging = FALSE
    Refusing = TRUE
    MaxRequests = 6
INVARIANTS IDsUnique ExhaustionIsReal
PROPERTY RegistrySpec
CHECK_DEADLOCK FALSE
