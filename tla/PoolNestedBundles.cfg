CONSTANTS
    Workers = {w1, w2}
    Calls <- MCCalls
    Parts <- MCParts
SPECIFICATION FairSpec
INVARIANTS TypeOK RequestsOutliveTasks RunOnce
PROPERTIES ServiceSpec AnsweredUnlessAllBlocked PoolEnds
CHECK_DEADLOCK FALSE
