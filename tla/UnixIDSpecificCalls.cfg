\* A call for ID 2 races an ordinary one.
SPECIFICATION FairSpec
CONSTANTS
    Workers = {w1, w2}
    Names = {a, b}
    Targets = {0, 2}
    MinID = 1
    MaxID = 4
    Lagging = FALSE
    Refusing = FALSE
    MaxRequests = 2
PROPERTY SpecificCallsEnd
CHECK_DEADLOCK FALSE
