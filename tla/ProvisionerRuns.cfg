CONSTANTS
    Instances = {p, q}
    Users = {u}
    Groups = {1, 2}
    ServiceAccounts = {}
    MaxLaunches = 3
    MaxTroubles = 1
    MaxChanges = 1
SPECIFICATION Spec
SYMMETRY Symmetry
INVARIANTS TypeOK Tracked Converged Exclusive
PROPERTIES ForeignUntouched LockSpec
CHECK_DEADLOCK FALSE
