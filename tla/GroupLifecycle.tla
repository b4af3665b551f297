---------------------------- MODULE GroupLifecycle ----------------------------
(***************************************************************************)
(* What the group handlers promise about each group name                   *)
(* (src/src/GroupCommands.cpp, src/src/PersistentStore.cpp): a group is    *)
(* founded or requested under a free name, a request becomes a group only  *)
(* by approval, a group has members only while it exists, and its record   *)
(* goes last.                                                              *)
(***************************************************************************)
CONSTANT Names

VARIABLES
    kind,    \* "none", "request", "group"; "unclear": nothing is promised
    member   \* whether somebody is a member of the group

Kinds == {"none", "request", "group", "unclear"}

Init ==
    /\ kind \in [Names -> Kinds \ {"unclear"}]
    /\ member = [n \in Names |-> FALSE]

\* From kind k to l, with or without a member before (a) and after (b).
Request(k, a, l, b) == k = "none" /\ ~a /\ l = "request" /\ ~b
Found(k, a, l, b)   == k = "none" /\ ~a /\ l = "group" /\ ~b
Approve(k, a, l, b) == k = "request" /\ ~a /\ l = "group" /\ ~b
Enrol(k, a, l, b)   == k = "group" /\ l = "group" /\ b
Empty(k, a, l, b)   == k = "group" /\ l = "group" /\ ~b
Remove(k, a, l, b)  == k # "unclear" /\ ~a /\ l = "none" /\ ~b
Lose(k, a, l, b)    == l = "unclear" /\ ~b
Recover(k, a, l, b) == k = "unclear" /\ l = "none" /\ ~b

Step(k, a, l, b) ==
    \/ k = l /\ a = b
    \/ Request(k, a, l, b) \/ Found(k, a, l, b) \/ Approve(k, a, l, b)
    \/ Enrol(k, a, l, b) \/ Empty(k, a, l, b)
    \/ Remove(k, a, l, b) \/ Lose(k, a, l, b) \/ Recover(k, a, l, b)

Next ==
    /\ kind' \in [Names -> Kinds] /\ member' \in [Names -> BOOLEAN]
    /\ \A n \in Names : Step(kind[n], member[n], kind'[n], member'[n])

Spec == Init /\ [][Next]_<<kind, member>>
=============================================================================
