---------------------------- MODULE GroupHierarchy ----------------------------
(***************************************************************************)
(* Memberships in groups within groups (src/src/UserCommands.cpp:          *)
(* setUserStatusInGroup, removeUserFromGroup, adminInAnyEnclosingGroup;    *)
(* src/src/GroupCommands.cpp: createGroup, updateGroupRequest,             *)
(* approveSubgroupRequest, denySubgroupRequest, deleteGroup).  A handler   *)
(* tests records of one level and then writes those of another, or those   *)
(* of many groups one by one.  A call begins with the step that makes its  *)
(* first tests; one that they refuse changes nothing and is left out.      *)
(* Reads are taken to be current: what lagging reads and the caches do to a*)
(* record is the subject of GroupRecords and MembershipStore.              *)
(***************************************************************************)
EXTENDS Naturals, FiniteSets

CONSTANTS
    Threads,     \* server threads
    Users,
    Superusers,
    Groups, Root,
    Above,       \* Above[g]: the groups that enclose g
    Alike,       \* Alike[g]: the groups whose names begin with that of g
    MaxCalls,    \* bound: number of calls in a behaviour
    MaxTroubles  \* bound: number of failing requests and restarts

Within(g) == {h \in Groups : g \in Above[h]}

ASSUME HierarchyAssumption ==
    /\ Superusers \subseteq Users
    /\ Root \in Groups /\ Above[Root] = {}
    /\ Above \in [Groups -> SUBSET Groups] /\ Alike \in [Groups -> SUBSET Groups]
    /\ \A g \in Groups :
          /\ g \notin Above[g]
          /\ g # Root => Root \in Above[g]
          /\ g # Root => \E e \in Above[g] : Above[g] = Above[e] \cup {e}
          /\ \A e \in Above[g] : Above[e] \subseteq Above[g]
          /\ {g} \cup Within(g) \subseteq Alike[g] /\ Alike[g] \cap Above[g] = {}
          /\ \A h \in Alike[g] : Alike[h] \subseteq Alike[g]
    /\ MaxCalls \in Nat /\ MaxTroubles \in Nat

VARIABLES
    kind,     \* of each group: "none", "request", "group"
    asker,    \* who asked for it
    member,   \* member[u][g]: the state of the membership record
    call,     \* what each thread does
    calls, troubles,
    raced     \* history: groups for which a call has met another, has stopped
              \* among many removals or has taken a failed read for an empty
              \* answer; which were made under another parent than the one in
              \* their name, or under one that is gone; or which have been
              \* left within a request that was removed

bounds == <<calls, troubles>>
vars == <<kind, asker, member, call, calls, troubles, raced>>

States == {"NonMember", "Pending", "Active", "Admin", "Disabled"}

Enclosing(g) == CHOOSE e \in Above[g] : Above[g] = Above[e] \cup {e}

IsMember(u, g) == member[u][g] \in {"Active", "Admin"}
AdminAbove(u, g) == \E e \in Above[g] : member[u][e] = "Admin"
MayManage(u, g) == u \in Superusers \/ member[u][g] = "Admin" \/ AdminAbove(u, g)

\* user is whose record the call writes, or who asks for a group; group is the
\* subject of the current step; other is the new name of a request, or the group
\* in which a new admin must be a member; list is the groups, and users the
\* members of group, that a removal has still to go through.
Idle == [op |-> "none", user |-> "none", group |-> Root, state |-> "NonMember",
         goal |-> Root, other |-> Root, list |-> {}, users |-> {}, pc |-> "idle"]
Active(t) == call[t].pc # "idle"
At(t, label) == call[t].pc = label
Goto(t, label) == call' = [call EXCEPT ![t].pc = label]
End(t) == call' = [call EXCEPT ![t] = Idle]

\* The groups a call may affect: those whose records it writes, and those within
\* a group that it may remove, be it only a request for one when the call begins.
Scope(op, g, r) ==
    CASE op = "remove"          -> Alike[g]
      [] op \in {"set", "create"} -> {g}
      [] op = "rename"          -> {g, r} \cup Within(g)
      [] OTHER                  -> {g} \cup Within(g)
ScopeOf(t) == IF Active(t) THEN Scope(call[t].op, call[t].goal, call[t].other) ELSE {}

\* Groups from which a removal has yet to remove the user, and perhaps has
\* already from the enclosing one: it takes the memberships in any order.
Unordered(t) ==
    IF At(t, "others") THEN {h \in call[t].list : Enclosing(h) # call[t].goal} ELSE {}

StillRaced ==
    {g \in raced : \/ kind[g] # "none"
                   \/ \E u \in Users : member[u][g] # "NonMember"
                   \/ \E t \in Threads : g \in ScopeOf(t)}
-----------------------------------------------------------------------------
Nested(u, g) == member[u][g] # "NonMember" => member[u][Enclosing(g)] # "NonMember"

\* Everybody but the superusers is a member of the root group (createUser).
Init ==
    /\ raced = {}
    /\ kind \in [Groups -> {"none", "group"}] /\ kind[Root] = "group"
    /\ \A g \in Groups \ {Root} : kind[g] = "group" => kind[Enclosing(g)] = "group"
    /\ asker = [g \in Groups |-> "none"]
    /\ member \in [Users -> [Groups -> {"NonMember", "Active"}]]
    /\ \A u \in Users : member[u][Root] = "Active" <=> u \notin Superusers
    /\ \A u \in Users, g \in Groups : member[u][g] = "Active" => kind[g] = "group"
    /\ \A u \in Users, g \in Groups \ {Root} : Nested(u, g)
    /\ call = [t \in Threads |-> Idle]
    /\ calls = 0 /\ troubles = 0

\* A call that has passed its first tests.
Call(op, g, label) == [Idle EXCEPT !.op = op, !.group = g, !.goal = g, !.pc = label]

Ready(t) == ~Active(t) /\ calls < MaxCalls

Begin(t, c, left) ==
    /\ calls' = calls + 1
    /\ call' = [call EXCEPT ![t] = c]
    /\ raced' = StillRaced \cup left
                  \cup (Scope(c.op, c.goal, c.other) \cap UNION {ScopeOf(s) : s \in Threads})
    /\ UNCHANGED <<kind, asker, member>>
-----------------------------------------------------------------------------
\* setUserStatusInGroup: which changes are allowed from the state now.
Allowed(now, by, g, s) ==
    /\ now # s
    /\ \/ s = "Pending" /\ now = "NonMember"
       \/ s \in {"Active", "Admin"} /\ now # "Disabled" /\ MayManage(by, g)
       \/ s \in {"Active", "Admin"} /\ now = "Disabled"
          /\ (by \in Superusers \/ member[by][g] = "Admin")
       \/ s = "Disabled" /\ now \notin {"NonMember", "Pending"} /\ MayManage(by, g)

\* There is a group, or a request for it, and the change is allowed from the
\* state that was read.
MaySet(t, by, u, g, now, s) ==
    /\ kind[g] # "none" /\ Allowed(now, by, g, s)
    /\ Begin(t, [Call("set", g, "enclosing") EXCEPT !.user = u, !.state = s], {})

CheckStatus(t) ==
    /\ Ready(t)
    /\ \E by \in Users, u \in Users, g \in Groups, s \in States \ {"NonMember"} :
          MaySet(t, by, u, g, member[u][g], s)
    /\ UNCHANGED troubles

CheckEnclosing(t) ==
    /\ At(t, "enclosing")
    /\ LET c == call[t]
       IN  IF c.group = Root \/ IsMember(c.user, Enclosing(c.group))
           THEN Goto(t, "write") ELSE End(t)
    /\ UNCHANGED <<kind, asker, member, bounds, raced>>

WriteStatus(t) ==
    /\ At(t, "write")
    /\ member' = [member EXCEPT ![call[t].user][call[t].group] = call[t].state]
    /\ End(t)
    /\ UNCHANGED <<kind, asker, bounds, raced>>
-----------------------------------------------------------------------------
\* removeUserFromGroup: the user's memberships are listed, and those in groups
\* whose names begin like the group's are removed; then the one in the group.
ListMemberships(t) ==
    /\ Ready(t)
    /\ \E by \in Users, u \in Users, g \in Groups :
          /\ MayManage(by, g)
          /\ Begin(t, [Call("remove", g, "others") EXCEPT
                         !.user = u,
                         !.list = {h \in Alike[g] \ {g} : member[u][h] # "NonMember"}], {})
    /\ UNCHANGED troubles

\* Mutant of RemoveMembership: the group itself comes first.
RemoveMembershipFirst(t) ==
    /\ At(t, "others")
    /\ LET c == call[t]
       IN  \/ /\ member[c.user][c.group] # "NonMember"
              /\ member' = [member EXCEPT ![c.user][c.group] = "NonMember"]
              /\ UNCHANGED call
           \/ /\ member[c.user][c.group] = "NonMember"
              /\ \E h \in c.list :
                    /\ member' = [member EXCEPT ![c.user][h] = "NonMember"]
                    /\ call' = [call EXCEPT ![t].list = @ \ {h}]
    /\ UNCHANGED <<kind, asker, bounds, raced>>

RemoveMembership(t) ==
    /\ At(t, "others")
    /\ LET c == call[t]
       IN  \/ \E h \in c.list :
                /\ member' = [member EXCEPT ![c.user][h] = "NonMember"]
                /\ call' = [call EXCEPT ![t].list = @ \ {h}]
           \/ /\ c.list = {}
              /\ member' = [member EXCEPT ![c.user][c.group] = "NonMember"]
              /\ End(t)
    /\ UNCHANGED <<kind, asker, bounds, raced>>
-----------------------------------------------------------------------------
\* The parent e of the new group g is a name of its own in the call, and need not
\* be the group that the new name, which may be absolute, is within.  Nobody asks
\* for another root group.
Stray(g, e) == IF e = Enclosing(g) THEN {} ELSE {g}

\* Those within a request that is removed alone are left behind.
Left(g) == {h \in Within(g) : kind[h] # "none"}

\* createGroup: there is the parent, or a request for it, of which the caller is
\* a member or an admin, and the new group is not found.
MayCreate(t, found) ==
    Ready(t) /\ \E by \in Users, g \in Groups \ {Root}, e \in Groups :
       /\ kind[e] # "none" /\ (MayManage(by, e) \/ IsMember(by, e))
       /\ found[g] = "none"
       /\ Begin(t, [Call("create", g, "create") EXCEPT !.user = by, !.other = e], {})

Create(t) == MayCreate(t, kind) /\ UNCHANGED troubles

\* Then addGroup for who manages the parent, and addGroupRequest for others,
\* whatever there is by now.
Found(t, manages) ==
    LET c == call[t]
    IN  /\ kind' = [kind EXCEPT ![c.group] = IF manages THEN "group" ELSE "request"]
        /\ asker' = [asker EXCEPT ![c.group] = IF manages THEN "none" ELSE c.user]
        /\ raced' = raced \cup (IF manages THEN Stray(c.group, c.other) ELSE {})
        /\ IF manages THEN Goto(t, "admin") ELSE End(t)

WriteGroup(t) ==
    /\ At(t, "create") /\ Found(t, MayManage(call[t].user, call[t].other))
    /\ UNCHANGED <<member, bounds>>

\* approveSubgroupRequest: the requester must still be a member of the parent;
\* otherwise the request is removed.  Whether there is a parent is not asked.
MayApprove(by, g, e) == kind[g] = "request" /\ MayManage(by, e)

Approve(t) ==
    /\ Ready(t)
    /\ \E by \in Users, g \in Groups \ {Root}, e \in Groups :
          /\ MayApprove(by, g, e)
          /\ IF IsMember(asker[g], e)
             THEN Begin(t, [Call("approve", g, "approve") EXCEPT
                              !.user = asker[g], !.other = e], {})
             ELSE Begin(t, Call("approve", g, "group"), Left(g))
    /\ UNCHANGED troubles

\* approveGroupRequest reads the request again; the handler looks at what it
\* returns only after the requester has become an admin.
Approved(t) ==
    LET c == call[t]
    IN  /\ raced' = raced \cup Stray(c.group, c.other)
                          \cup (IF kind[c.other] = "none" THEN {c.group} ELSE {})
        /\ Goto(t, "admin")

WriteApproval(t) ==
    /\ At(t, "approve") /\ Approved(t)
    /\ LET g == call[t].group
       IN  IF kind[g] = "request"
           THEN /\ kind' = [kind EXCEPT ![g] = "group"]
                /\ asker' = [asker EXCEPT ![g] = "none"]
           ELSE UNCHANGED <<kind, asker>>
    /\ UNCHANGED <<member, bounds>>

\* Who created or asked for the group becomes its admin, if there is any
\* record of a membership in the parent.
SetAdmin(t) ==
    /\ At(t, "admin")
    /\ LET c == call[t]
       IN  IF member[c.user][c.other] # "NonMember"
           THEN member' = [member EXCEPT ![c.user][c.group] = "Admin"] ELSE UNCHANGED member
    /\ End(t)
    /\ UNCHANGED <<kind, asker, bounds, raced>>

\* denySubgroupRequest.
Deny(t) ==
    /\ Ready(t)
    /\ \E by \in Users, g \in Groups \ {Root}, e \in Groups :
          MayApprove(by, g, e) /\ Begin(t, Call("deny", g, "group"), Left(g))
    /\ UNCHANGED troubles

\* updateGroupRequest with a new name r, which is not found: addGroupRequest, and
\* removeGroup of the old name.  The rights are in the group the old name is within.
MayRename(t, found) ==
    Ready(t) /\ \E by \in Users, g \in Groups \ {Root}, r \in Groups \ {Root} :
       /\ kind[g] = "request" /\ (MayManage(by, Enclosing(g)) \/ asker[g] = by)
       /\ found[r] = "none"
       /\ Begin(t, [Call("rename", g, "rename") EXCEPT !.user = asker[g], !.other = r], {})

Rename(t) == MayRename(t, kind) /\ UNCHANGED troubles

WriteRequest(t) ==
    /\ At(t, "rename")
    /\ LET c == call[t]
       IN  /\ kind' = [kind EXCEPT ![c.other] = "request"]
           /\ asker' = [asker EXCEPT ![c.other] = c.user]
           /\ raced' = raced \cup Left(c.group) \cup ({c.other} \cap Within(c.group))
    /\ Goto(t, "group")
    /\ UNCHANGED <<member, bounds>>
-----------------------------------------------------------------------------
\* deleteGroup: the groups within are listed, and removed before the group.
\* Requests are in the list only if they happen to be in the cache it is taken
\* from.
ListSubgroups(t) ==
    /\ Ready(t)
    /\ \E by \in Users, g \in Groups :
          /\ kind[g] # "none" /\ MayManage(by, g)
          /\ \E some \in SUBSET {h \in Within(g) : kind[h] = "request"} :
                LET list == some \cup {h \in Within(g) : kind[h] = "group"}
                IN  Begin(t, [Call("delete", g, "next") EXCEPT !.list = list], Left(g) \ list)
    /\ UNCHANGED troubles

\* Mutant of NextGroup: the names are in ascending order.
NextGroupAscending(t) ==
    /\ At(t, "next")
    /\ LET c == call[t]
       IN  \/ \E h \in c.list :
                /\ Above[h] \cap c.list = {}
                /\ call' = [call EXCEPT ![t].list = @ \ {h}, ![t].group = h, ![t].pc = "group"]
           \/ /\ c.list = {}
              /\ call' = [call EXCEPT ![t].group = c.goal, ![t].pc = "group"]
    /\ UNCHANGED <<kind, asker, member, bounds, raced>>

\* The names are in descending order: a group comes after those within it.
NextGroup(t) ==
    /\ At(t, "next")
    /\ LET c == call[t]
       IN  \/ \E h \in c.list :
                /\ Within(h) \cap c.list = {}
                /\ call' = [call EXCEPT ![t].list = @ \ {h}, ![t].group = h, ![t].pc = "group"]
           \/ /\ c.list = {}
              /\ call' = [call EXCEPT ![t].group = c.goal, ![t].pc = "group"]
    /\ UNCHANGED <<kind, asker, member, bounds, raced>>

\* removeGroup: the members are listed, their memberships removed one by one,
\* then the record.
ListMembers(t) ==
    /\ At(t, "group")
    /\ call' = [call EXCEPT ![t].pc = "members",
                  ![t].users = {u \in Users : member[u][call[t].group] # "NonMember"}]
    /\ UNCHANGED <<kind, asker, member, bounds, raced>>

RemoveMember(t) ==
    /\ At(t, "members")
    /\ \E u \in call[t].users :
          /\ member' = [member EXCEPT ![u][call[t].group] = "NonMember"]
          /\ call' = [call EXCEPT ![t].users = @ \ {u}]
    /\ UNCHANGED <<kind, asker, bounds, raced>>

\* Mutant of RemoveRecord: the members are left to themselves.
RemoveRecordFirst(t) ==
    /\ At(t, "members")
    /\ kind' = [kind EXCEPT ![call[t].group] = "none"]
    /\ asker' = [asker EXCEPT ![call[t].group] = "none"]
    /\ IF call[t].op = "delete" /\ call[t].group # call[t].goal THEN Goto(t, "next") ELSE End(t)
    /\ UNCHANGED <<member, bounds, raced>>

\* Mutant of RemoveRecord: its group is forgotten.
RemoveRecordBlank(t) ==
    /\ At(t, "members") /\ call[t].users = {}
    /\ kind' = [kind EXCEPT ![call[t].group] = ""]
    /\ End(t)
    /\ UNCHANGED <<asker, member, bounds, raced>>

RemoveRecord(t) ==
    /\ At(t, "members") /\ call[t].users = {}
    /\ kind' = [kind EXCEPT ![call[t].group] = "none"]
    /\ asker' = [asker EXCEPT ![call[t].group] = "none"]
    /\ IF call[t].op = "delete" /\ call[t].group # call[t].goal THEN Goto(t, "next") ELSE End(t)
    /\ UNCHANGED <<member, bounds, raced>>
-----------------------------------------------------------------------------
\* A request to the database fails, and the handler returns an error; or the
\* server ends.  What has been written stays.
Trouble == troubles < MaxTroubles /\ troubles' = troubles + 1

Fail(t) ==
    /\ Active(t) /\ Trouble
    /\ raced' = raced \cup Unordered(t)
    /\ End(t)
    /\ UNCHANGED <<kind, asker, member, calls>>

\* A read fails and counts as having found nothing: userStatusInGroup returns
\* NonMember, getGroup an invalid group, and the functions that list return
\* what they have so far.
StatusReadFails(t) ==
    /\ Trouble
    /\ \/ /\ Ready(t)
          /\ \E by \in Users, u \in Users, g \in Groups, s \in States \ {"NonMember"} :
                MaySet(t, by, u, g, "NonMember", s)
       \/ /\ Ready(t)
          /\ \E by \in Users, g \in Groups \ {Root}, e \in Groups :
                MayApprove(by, g, e) /\ Begin(t, Call("approve", g, "group"), Left(g))
       \/ At(t, "create") /\ call[t].user \notin Superusers
          /\ Found(t, FALSE) /\ UNCHANGED <<member, calls>>
       \/ At(t, "admin") /\ End(t) /\ UNCHANGED <<kind, asker, member, calls, raced>>

GroupReadFails(t) ==
    /\ Trouble
    /\ LET unread == [g \in Groups |-> "none"] IN MayCreate(t, unread) \/ MayRename(t, unread)

\* approveGroupRequest fails.
ApproveFails(t) ==
    /\ Trouble
    /\ At(t, "approve") /\ Approved(t)
    /\ UNCHANGED <<kind, asker, member, calls>>

ListFails(t) ==
    /\ Trouble
    /\ \/ /\ Ready(t)
          /\ \E by \in Users, u \in Users, g \in Groups :
                /\ MayManage(by, g)
                /\ Begin(t, [Call("remove", g, "others") EXCEPT !.user = u],
                         {h \in Within(g) : member[u][h] # "NonMember"})
       \/ /\ Ready(t)
          /\ \E by \in Users, g \in Groups :
                /\ kind[g] # "none" /\ MayManage(by, g)
                /\ \E list \in SUBSET {h \in Within(g) : kind[h] = "group"} :
                      Begin(t, [Call("delete", g, "next") EXCEPT !.list = list],
                            Left(g) \ list)
       \/ /\ At(t, "group") /\ Goto(t, "members")
          /\ raced' = raced \cup {g \in {call[t].group} :
                                     \E u \in Users : member[u][g] # "NonMember"}
          /\ UNCHANGED <<kind, asker, member, calls>>

Restart ==
    /\ (\E t \in Threads : Active(t)) /\ Trouble
    /\ raced' = raced \cup UNION {Unordered(t) : t \in Threads}
    /\ call' = [t \in Threads |-> Idle]
    /\ UNCHANGED <<kind, asker, member, calls>>

Step(t) ==
    \/ CheckStatus(t) \/ CheckEnclosing(t) \/ WriteStatus(t)
    \/ ListMemberships(t) \/ RemoveMembership(t)
    \/ Create(t) \/ WriteGroup(t) \/ Approve(t) \/ WriteApproval(t) \/ SetAdmin(t)
    \/ Deny(t) \/ Rename(t) \/ WriteRequest(t)
    \/ ListSubgroups(t) \/ NextGroup(t) \/ ListMembers(t) \/ RemoveMember(t) \/ RemoveRecord(t)

Next ==
    \/ \E t \in Threads : Step(t) \/ Fail(t)
                        \/ StatusReadFails(t) \/ GroupReadFails(t) \/ ApproveFails(t)
                        \/ ListFails(t)
    \/ Restart

Spec == Init /\ [][Next]_vars
-----------------------------------------------------------------------------
TypeOK ==
    /\ kind \in [Groups -> {"none", "request", "group"}]
    /\ asker \in [Groups -> Users \cup {"none"}]
    /\ member \in [Users -> [Groups -> States]]
    /\ \A t \in Threads :
          /\ call[t].group \in Groups /\ call[t].goal \in Groups /\ call[t].other \in Groups
          /\ call[t].list \subseteq Groups /\ call[t].users \subseteq Users
          /\ call[t].user \in Users \cup {"none"} /\ call[t].state \in States
    /\ calls \in 0 .. MaxCalls /\ troubles \in 0 .. MaxTroubles
    /\ raced \subseteq Groups

\* A user who has a membership record in a group has one in the enclosing
\* group (UserCommands.cpp:876-880, 1045-1063), wherever a call stops, and also
\* in a request; unless the group is raced (see there), or it is being removed.
NestedMemberships ==
    \A u \in Users, g \in Groups \ (raced \cup {Root}) :
       Nested(u, g) \/ \E t \in Threads : call[t].user = u /\ g \in Unordered(t)

\* A member is a member of a group or of a request for one, also after an
\* approval that failed and while a removal goes on: no membership waits for the
\* next group of that name (PersistentStore.cpp:1500-1504, GroupCommands.cpp:647-712).
MembersHaveGroups ==
    \A u \in Users, g \in Groups \ raced : member[u][g] # "NonMember" => kind[g] # "none"

\* A group made under the parent in its name is within a group, or a request for
\* one, also when the deletion of many stops half-way (GroupCommands.cpp:692-712).
GroupsEnclosed ==
    \A g \in Groups \ (raced \cup {Root}) : kind[g] = "group" => kind[Enclosing(g)] # "none"
=============================================================================
