CONSTANTS
    Threads = {t1, t2}
    Users = {u, s}
    Superusers = {s}
    Groups <- MCGroups
    Root = "root"
    Above <- MCAbove
    Alike <- MCAlike
    MaxCalls = 3
    MaxTroubles = 1
SPECIFICATION Spec
SYMMETRY Symmetry
INVARIANTS TypeOK NestedMemberships MembersHaveGroups GroupsEnclosed
CHECK_DEADLOCK FALSE
