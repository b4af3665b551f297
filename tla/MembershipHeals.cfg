\* Two threads race on one membership; writes may fail, reads may be stale.
SPECIFICATION FairSpec
CONSTANTS
    Threads = {t1, t2}
    Users = {u1}
    Groups = {g1}
    MemberStates = {"Active"}
    Lagging = TRUE
    Failing = TRUE
    MaxWrites = 2
PROPERTY StatusHeals
CHECK_DEADLOCK FALSE
