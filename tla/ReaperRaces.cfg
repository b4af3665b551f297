\* Two callers; three commands, each of which may be abandoned.
SPECIFICATION Spec
CONSTANTS
    Callers = {c1, c2}
    Pids = {p1, p2, p3}
    MaxRuns = 3
INVARIANTS TypeOK StatusIsOwn StatusNotLost TableClean
CHECK_DEADLOCK FALSE
