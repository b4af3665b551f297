\* Two calls that race for the hint, with stale reads, refusals, crashes,
\* deletions, and one ID a client may ask for.
SPECIFICATION FairSpec
CONSTANTS
    Workers = {w1, w2}
    Names = {a, b}
    Targets = {0, 2}
    MinID = 1
    MaxID = 4
    Lagging = TRUE
    Refusing = TRUE
    MaxRequests = 2
INVARIANTS TypeOK OrdinaryIDsUnique
PROPERTY OrdinaryCallsEnd
CHECK_DEADLOCK FALSE
