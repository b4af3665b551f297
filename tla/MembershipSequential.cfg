\* One thread; two groups; writes may fail, reads are fresh.
SPECIFICATION Spec
CONSTANTS
    Threads = {t1}
    Users = {u1}
    Groups = {g1, g2}
    MemberStates = {"Active", "Disabled"}
    Lagging = FALSE
    Failing = TRUE
    MaxWrites = 3
INVARIANTS TypeOK CachesAgree
CHECK_DEADLOCK FALSE
