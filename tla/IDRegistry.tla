----------------------------- MODULE IDRegistry -----------------------------
(***************************************************************************)
(* What the unix ID allocation promises: every record has at most one ID,  *)
(* no two records share one, and a record keeps its ID until it is         *)
(* deleted (src/include/PersistentStore.h, addUser, addGroup: a record     *)
(* without a unix ID is assigned one).                                     *)
(***************************************************************************)
EXTENDS Naturals

CONSTANTS Names, IDs

VARIABLE assigned   \* assigned[n]: the ID of record n, 0 if there is none

Init == assigned = [n \in Names |-> 0]

Assign(n, id) ==
    /\ assigned[n] = 0
    /\ \A m \in Names : assigned[m] # id
    /\ assigned' = [assigned EXCEPT ![n] = id]

Release(n) ==
    /\ assigned[n] # 0
    /\ assigned' = [assigned EXCEPT ![n] = 0]

Next == \E n \in Names : Release(n) \/ \E id \in IDs : Assign(n, id)

Spec == Init /\ [][Next]_assigned
=============================================================================
