\* One caller that runs one command after another, as sync_users does.
SPECIFICATION FairSpec
CONSTANTS
    Callers = {c1}
    Pids = {p1, p2}
    MaxRuns = 2
PROPERTY CommandsEnd
CHECK_DEADLOCK FALSE
