----------------------------- MODULE Provisioner -----------------------------
(***************************************************************************)
(* Provisioning of a host (src/src/sync_users.cpp: SystemState, main,      *)
(* fetchGroups, fetchUsers), with its lock file.  A process reads its lists*)
(* of accounts and groups it has made, fetches what there should be,       *)
(* deletes and creates in phases, and writes the lists back when it ends,  *)
(* by exception too.  Each command on the host is a step; a process may be *)
(* killed between any two.                                                 *)
(***************************************************************************)
EXTENDS LockFile

CONSTANTS
    Users,
    Groups,           \* numbered in the order of their names; 0 is none
    ServiceAccounts,  \* users for whom no account is made
    MaxLaunches,      \* bounds: processes started in a behaviour,
    MaxTroubles,      \* failures and deaths,
    MaxChanges        \* changes of the server's data and by the administrator

ASSUME ProvisionerAssumption ==
    /\ Groups \subseteq Nat \ {0} /\ Groups # {}
    /\ ServiceAccounts \subseteq Users
    /\ {MaxLaunches, MaxTroubles, MaxChanges} \subseteq Nat

VARIABLES
    account,    \* the host's accounts: see Account
    groups,     \* the host's groups: who made them
    userList,   \* the files existing_users and existing_groups
    groupList,
    server,     \* what the server answers: see Answers
    phase,      \* where main is, inside the lock
    mine,       \* existingUsers and existingGroups: [users, groups]
    expected,   \* expectedGroups and expectedUsers, as they are fetched
    todo,       \* names the phase has yet to deal with
    toUpdate,   \* usersToUpdate
    budget,     \* what is left of the bounds
    untracked,  \* history: names whose record was lost with a process
    raced,      \* history: two processes may have been inside at once
    reused,     \* history: names the administrator has taken while they were
                \* in a list: [users, groups]
    agreed      \* history: runs in a row with nothing amiss (2: or more),
                \* and whether the present one still is

host == <<account, groups>>
lists == <<userList, groupList>>
local == <<phase, mine, expected, todo, toUpdate>>
history == <<untracked, raced, reused, agreed>>
vars == <<lockVars, host, lists, server, local, budget, history>>

Makers == {"nobody", "us", "other"}
Account == [by : Makers, first : Groups \cup {0}, in : SUBSET Groups]
NoAccount == [by |-> "nobody", first |-> 0, in |-> {}]
OthersAccount == [by |-> "other", first |-> 0, in |-> {}]
Answers == [groups : SUBSET Groups, users : SUBSET Users, in : [Users -> SUBSET Groups]]

Phases == {"read", "fetchGroups", "fetchUsers", "deleteUsers", "wipeUsers", "deleteGroups",
           "wipeGroups", "createGroups", "createUsers", "updateUsers",
           "writeUsers", "writeGroups"}

Lowest(s) == CHOOSE g \in s : \A h \in s : g <= h
Accounts == {u \in Users : account[u].by # "nobody"}
HostGroups == {g \in Groups : groups[g] # "nobody"}
Nothing == [groups |-> {}, users |-> {}, in |-> [u \in Users |-> {}]]

\* A user belongs only to groups there are; the group whose subgroups are to
\* be provisioned, the first of them all, is always there.
ServerStates == {s \in Answers : /\ Lowest(Groups) \in s.groups
                                 /\ \A u \in Users : s.in[u] \subseteq s.groups
                                 /\ \A u \in Users \ s.users : s.in[u] = {}}

Init ==
    /\ LockInit /\ file = "absent"
    /\ \E taken \in {{}} \cup {{x} : x \in Users \cup Groups} :
          /\ account = [u \in Users |-> IF u \in taken THEN OthersAccount ELSE NoAccount]
          /\ groups = [g \in Groups |-> IF g \in taken THEN "other" ELSE "nobody"]
    /\ userList = {} /\ groupList = {}
    /\ server \in ServerStates
    /\ phase = [i \in Instances |-> "read"]
    /\ mine = [i \in Instances |-> [users |-> {}, groups |-> {}]]
    /\ expected = [i \in Instances |-> Nothing]
    /\ todo = [i \in Instances |-> {}]
    /\ toUpdate = [i \in Instances |-> {}]
    /\ budget = [launches |-> MaxLaunches, troubles |-> MaxTroubles, changes |-> MaxChanges]
    /\ untracked = {}
    /\ raced = FALSE
    /\ reused = [users |-> {}, groups |-> {}]
    /\ agreed = [runs |-> 0, still |-> FALSE]
-----------------------------------------------------------------------------
Trouble ==
    /\ budget.troubles > 0
    /\ budget' = [budget EXCEPT !.troubles = @ - 1]

Disturb == agreed' = [runs |-> 0, still |-> FALSE]

\* The locals of main are gone, but for the lists in SystemState.
Unwind(i) ==
    /\ expected' = [expected EXCEPT ![i] = Nothing]
    /\ todo' = [todo EXCEPT ![i] = {}]
    /\ toUpdate' = [toUpdate EXCEPT ![i] = {}]

\* The process i is over, and with it what only it knew.
Forget(i) ==
    /\ phase' = [phase EXCEPT ![i] = "read"]
    /\ mine' = [mine EXCEPT ![i] = [users |-> {}, groups |-> {}]]
    /\ Unwind(i)

Unrecorded(i) == (mine[i].users \ userList) \cup (mine[i].groups \ groupList)

Begin(i) ==
    /\ budget.launches > 0
    /\ budget' = [budget EXCEPT !.launches = @ - 1]
    /\ Launch(i)
    /\ UNCHANGED <<host, lists, server, local, history>>

\* Mutant of TakeLock: the lock is an unnamed temporary, gone at once.
TakeLockTemporary(i) ==
    /\ \/ stage[i] # "write" /\ Acquire(i)
       \/ stage[i] = "write" /\ Move(i, "inside") /\ file' = "absent" /\ UNCHANGED doubt
    /\ raced' = (raced \/ doubt')
    /\ IF doubt' /\ ~doubt THEN Trouble ELSE UNCHANGED budget
    /\ UNCHANGED <<host, lists, server, local, untracked, reused, agreed>>

\* The constructor of LockFile.
TakeLock(i) ==
    /\ Acquire(i)
    /\ raced' = (raced \/ doubt')
    /\ IF doubt' /\ ~doubt THEN Trouble ELSE UNCHANGED budget
    /\ UNCHANGED <<host, lists, server, local, untracked, reused, agreed>>

\* The process is killed.
Kill(i) ==
    /\ Vanish(i)
    /\ Trouble
    /\ untracked' = untracked \cup Unrecorded(i)
    /\ Forget(i)
    /\ Disturb
    /\ UNCHANGED <<host, lists, server, raced, reused>>

\* main returns or has caught an exception: both files have been written.
Finish(i) ==
    /\ Unlink(i)
    /\ Forget(i)
    /\ agreed' = IF agreed.still THEN [runs |-> IF agreed.runs = 0 THEN 1 ELSE 2, still |-> FALSE]
                 ELSE [runs |-> 0, still |-> FALSE]
    /\ UNCHANGED <<host, lists, server, budget, untracked, raced, reused>>
-----------------------------------------------------------------------------
At(i, label) == stage[i] = "inside" /\ phase[i] = label
To(i, label) == phase' = [phase EXCEPT ![i] = label]
Outside == <<lockVars, lists, server, untracked, raced, reused>>

\* Mutant of ReadLists: no sanityCheckExistingRecords.
ReadListsUnchecked(i) ==
    /\ At(i, "read")
    /\ mine' = [mine EXCEPT ![i] = [users |-> userList, groups |-> groupList]]
    /\ \/ /\ To(i, "fetchGroups")
          /\ agreed' = [agreed EXCEPT !.still = TRUE]
          /\ UNCHANGED todo
       \/ To(i, "wipeUsers") /\ Disturb /\ todo' = [todo EXCEPT ![i] = mine'[i].users]
    /\ UNCHANGED <<host, Outside, expected, toUpdate, budget>>

\* SystemState: the lists, without what the host does not have.  With
\* --wipe, all of it goes.
ReadLists(i) ==
    /\ At(i, "read")
    /\ mine' = [mine EXCEPT ![i] = [users |-> userList \cap Accounts,
                                     groups |-> groupList \cap HostGroups]]
    /\ \/ /\ To(i, "fetchGroups")
          /\ agreed' = [agreed EXCEPT !.still = TRUE]
          /\ UNCHANGED todo
       \/ To(i, "wipeUsers") /\ Disturb /\ todo' = [todo EXCEPT ![i] = mine'[i].users]
    /\ UNCHANGED <<host, Outside, expected, toUpdate, budget>>

\* A list or a file of the host cannot be read, or a missing list not be made:
\* log_fatal in the constructor, so that nothing is written back.
ReadFails(i) ==
    /\ At(i, "read")
    /\ Trouble
    /\ Disturb
    /\ Leave(i)
    /\ UNCHANGED <<host, lists, server, local, untracked, raced, reused>>

FetchGroups(i) ==
    /\ At(i, "fetchGroups")
    /\ expected' = [expected EXCEPT ![i].groups = server.groups]
    /\ To(i, "fetchUsers")
    /\ UNCHANGED <<host, Outside, mine, todo, toUpdate, budget, agreed>>

\* Users that should not exist are to be deleted first.
FetchUsers(i) ==
    /\ At(i, "fetchUsers")
    /\ expected' = [expected EXCEPT ![i].users = server.users, ![i].in = server.in]
    /\ todo' = [todo EXCEPT ![i] = mine[i].users \ server.users]
    /\ To(i, "deleteUsers")
    /\ UNCHANGED <<host, Outside, mine, toUpdate, budget, agreed>>

\* A request fails, or an answer is not what it should be: log_fatal.
FetchFails(i) ==
    /\ At(i, "fetchGroups") \/ At(i, "fetchUsers")
    /\ Trouble
    /\ Disturb
    /\ To(i, "writeUsers")
    /\ Unwind(i)
    /\ UNCHANGED <<host, Outside, mine>>

\* userdel, usermod and the like fail for a reason not modelled: it is
\* logged, and the name is passed over.
CommandFails(i) ==
    /\ stage[i] = "inside"
    /\ Trouble
    /\ Disturb
    /\ \E x \in todo[i] : todo' = [todo EXCEPT ![i] = @ \ {x}]
    /\ UNCHANGED <<host, Outside, phase, mine, expected, toUpdate>>

RemoveUser(i, u) ==
    /\ At(i, "deleteUsers") \/ At(i, "wipeUsers")
    /\ u \in todo[i]
    /\ todo' = [todo EXCEPT ![i] = @ \ {u}]
    /\ IF u \in Accounts
       THEN /\ account' = [account EXCEPT ![u] = NoAccount]
            /\ mine' = [mine EXCEPT ![i].users = @ \ {u}]
       ELSE UNCHANGED <<account, mine>>
    /\ UNCHANGED <<groups, Outside, phase, expected, toUpdate, budget, agreed>>

\* The rest of the users are to be updated in the end.  Reducing their
\* memberships changes nothing: that usermod is given no user.
UsersDeleted(i) ==
    /\ At(i, "deleteUsers") /\ todo[i] = {}
    /\ toUpdate' = [toUpdate EXCEPT ![i] = expected[i].users \cap mine[i].users]
    /\ todo' = [todo EXCEPT ![i] = mine[i].groups \ expected[i].groups]
    /\ To(i, "deleteGroups")
    /\ UNCHANGED <<host, Outside, mine, expected, budget, agreed>>

UsersWiped(i) ==
    /\ At(i, "wipeUsers") /\ todo[i] = {}
    /\ todo' = [todo EXCEPT ![i] = mine[i].groups]
    /\ To(i, "wipeGroups")
    /\ UNCHANGED <<host, Outside, mine, expected, toUpdate, budget, agreed>>

\* groupdel refuses to remove a group that is some account's first.
RemoveGroup(i, g) ==
    /\ At(i, "deleteGroups") \/ At(i, "wipeGroups")
    /\ g \in todo[i] /\ \A h \in todo[i] : g <= h
    /\ todo' = [todo EXCEPT ![i] = @ \ {g}]
    /\ IF g \in HostGroups /\ \A u \in Users : account[u].first # g
       THEN /\ groups' = [groups EXCEPT ![g] = "nobody"]
            /\ account' = [u \in Users |-> [account[u] EXCEPT !.in = @ \ {g}]]
            /\ mine' = [mine EXCEPT ![i].groups = @ \ {g}]
       ELSE UNCHANGED <<host, mine>>
    /\ UNCHANGED <<Outside, phase, expected, toUpdate, budget, agreed>>

GroupsWiped(i) ==
    /\ At(i, "wipeGroups") /\ todo[i] = {}
    /\ To(i, "writeUsers")
    /\ Unwind(i)
    /\ UNCHANGED <<host, Outside, mine, budget, agreed>>

GroupsDeleted(i) ==
    /\ At(i, "deleteGroups") /\ todo[i] = {}
    /\ todo' = [todo EXCEPT ![i] = expected[i].groups \ mine[i].groups]
    /\ To(i, "createGroups")
    /\ UNCHANGED <<host, Outside, mine, expected, toUpdate, budget, agreed>>

AddGroup(i, g) ==
    /\ At(i, "createGroups")
    /\ g \in todo[i] /\ \A h \in todo[i] : g <= h
    /\ todo' = [todo EXCEPT ![i] = @ \ {g}]
    /\ IF g \notin HostGroups
       THEN /\ groups' = [groups EXCEPT ![g] = "us"]
            /\ mine' = [mine EXCEPT ![i].groups = @ \cup {g}]
       ELSE UNCHANGED <<groups, mine>>
    /\ UNCHANGED <<account, Outside, phase, expected, toUpdate, budget, agreed>>

GroupsCreated(i) ==
    /\ At(i, "createGroups") /\ todo[i] = {}
    /\ todo' = [todo EXCEPT ![i] = (expected[i].users \ mine[i].users) \ ServiceAccounts]
    /\ To(i, "createUsers")
    /\ UNCHANGED <<host, Outside, mine, expected, toUpdate, budget, agreed>>

Placed(i, u) == [by |-> "us", first |-> Lowest(expected[i].in[u]), in |-> expected[i].in[u]]
Placeable(i, u) == expected[i].in[u] \subseteq HostGroups

\* Mutant of AddUser: the user is recorded whether or not useradd succeeded.
AddUserRecorded(i, u) ==
    /\ At(i, "createUsers")
    /\ u \in todo[i] /\ expected[i].in[u] # {}
    /\ todo' = [todo EXCEPT ![i] = @ \ {u}]
    /\ mine' = [mine EXCEPT ![i].users = @ \cup {u}]
    /\ IF u \notin Accounts /\ Placeable(i, u)
       THEN account' = [account EXCEPT ![u] = Placed(i, u)]
       ELSE UNCHANGED account
    /\ UNCHANGED <<groups, Outside, phase, expected, toUpdate, budget, agreed>>

\* Mutant of AddUser: the user is not recorded.
AddUserUnrecorded(i, u) ==
    /\ At(i, "createUsers")
    /\ u \in todo[i] /\ expected[i].in[u] # {}
    /\ todo' = [todo EXCEPT ![i] = @ \ {u}]
    /\ IF u \notin Accounts /\ Placeable(i, u)
       THEN account' = [account EXCEPT ![u] = Placed(i, u)]
       ELSE UNCHANGED account
    /\ UNCHANGED <<groups, Outside, phase, mine, expected, toUpdate, budget, agreed>>

\* Mutant of AddUser: no refusal of a user without groups.
AddUserGroupless(i, u) ==
    /\ At(i, "createUsers")
    /\ u \in todo[i]
    /\ todo' = [todo EXCEPT ![i] = @ \ {u}]
    /\ IF u \notin Accounts /\ Placeable(i, u)
       THEN /\ account' = [account EXCEPT ![u] =
                  [by |-> "us", first |-> 0, in |-> expected[i].in[u]]]
            /\ mine' = [mine EXCEPT ![i].users = @ \cup {u}]
       ELSE UNCHANGED <<account, mine>>
    /\ UNCHANGED <<groups, Outside, phase, expected, toUpdate, budget, agreed>>

\* useradd refuses a name that is taken and groups that do not exist.
AddUser(i, u) ==
    /\ At(i, "createUsers")
    /\ u \in todo[i] /\ expected[i].in[u] # {}
    /\ todo' = [todo EXCEPT ![i] = @ \ {u}]
    /\ IF u \notin Accounts /\ Placeable(i, u)
       THEN /\ account' = [account EXCEPT ![u] = Placed(i, u)]
            /\ mine' = [mine EXCEPT ![i].users = @ \cup {u}]
       ELSE UNCHANGED <<account, mine>>
    /\ UNCHANGED <<groups, Outside, phase, expected, toUpdate, budget, agreed>>

UsersCreated(i) ==
    /\ At(i, "createUsers") /\ todo[i] = {}
    /\ todo' = [todo EXCEPT ![i] = toUpdate[i]]
    /\ To(i, "updateUsers")
    /\ UNCHANGED <<host, Outside, mine, expected, toUpdate, budget, agreed>>

\* usermod: the account as it should be.
UpdateUser(i, u) ==
    /\ At(i, "updateUsers")
    /\ u \in todo[i] /\ expected[i].in[u] # {}
    /\ todo' = [todo EXCEPT ![i] = @ \ {u}]
    /\ account' = IF u \in Accounts /\ Placeable(i, u)
                  THEN [account EXCEPT ![u] = [Placed(i, u) EXCEPT !.by = account[u].by]]
                  ELSE account
    /\ UNCHANGED <<groups, Outside, phase, mine, expected, toUpdate, budget, agreed>>

UsersUpdated(i) ==
    /\ At(i, "updateUsers") /\ todo[i] = {}
    /\ To(i, "writeUsers")
    /\ Unwind(i)
    /\ UNCHANGED <<host, Outside, mine, budget, agreed>>

\* defaultGroup of a user without groups: log_fatal ends the run.
NoDefaultGroup(i) ==
    /\ At(i, "createUsers") \/ At(i, "updateUsers")
    /\ \E u \in todo[i] : expected[i].in[u] = {}
    /\ Unwind(i)
    /\ Disturb
    /\ To(i, "writeUsers")
    /\ UNCHANGED <<host, Outside, mine, budget>>

\* ~SystemState: each list goes to a temporary file and is moved into place.
WriteUsers(i) ==
    /\ At(i, "writeUsers")
    /\ userList' = mine[i].users
    /\ To(i, "writeGroups")
    /\ UNCHANGED <<host, lockVars, groupList, server, mine, expected, todo, toUpdate,
                   budget, history>>

WriteGroups(i) ==
    /\ At(i, "writeGroups")
    /\ groupList' = mine[i].groups
    /\ Leave(i)
    /\ UNCHANGED <<host, userList, server, local, budget, history>>

\* The file cannot be replaced: it is logged, and the old list stays.
RenameFails(i) ==
    /\ Trouble
    /\ Disturb
    /\ \/ /\ At(i, "writeUsers")
          /\ untracked' = untracked \cup (mine[i].users \ userList)
          /\ To(i, "writeGroups")
          /\ UNCHANGED lockVars
       \/ /\ At(i, "writeGroups")
          /\ untracked' = untracked \cup (mine[i].groups \ groupList)
          /\ Leave(i)
          /\ UNCHANGED phase
    /\ UNCHANGED <<host, lists, server, mine, expected, todo, toUpdate, raced, reused>>

\* The temporary file cannot be written: log_fatal in a destructor.
WriteFails(i) ==
    /\ At(i, "writeUsers") \/ At(i, "writeGroups")
    /\ Kill(i)
-----------------------------------------------------------------------------
\* Groups and memberships change at the server.
ServerChanges ==
    /\ budget.changes > 0
    /\ budget' = [budget EXCEPT !.changes = @ - 1]
    /\ \E s \in ServerStates \ {server} : server' = s
    /\ Disturb
    /\ UNCHANGED <<lockVars, host, lists, local, untracked, raced, reused>>

UserListed(u) == u \in userList \/ \E i \in Instances : u \in mine[i].users
GroupListed(g) == g \in groupList \/ \E i \in Instances : g \in mine[i].groups

\* The administrator deletes an account, the provisioner's or another, or makes
\* one.  Nothing keeps her from a name that is still in a list.
AdminChanges(u) ==
    /\ budget.changes > 0
    /\ budget' = [budget EXCEPT !.changes = @ - 1]
    /\ IF u \in Accounts
       THEN account' = [account EXCEPT ![u] = NoAccount] /\ UNCHANGED reused
       ELSE /\ account' = [account EXCEPT ![u] = OthersAccount]
            /\ reused' = [reused EXCEPT !.users = IF UserListed(u) THEN @ \cup {u} ELSE @ \ {u}]
    /\ Disturb
    /\ UNCHANGED <<lockVars, groups, lists, server, local, untracked, raced>>

\* The administrator does the same with a group.
AdminChangesGroup(g) ==
    /\ budget.changes > 0
    /\ budget' = [budget EXCEPT !.changes = @ - 1]
    /\ IF g \in HostGroups
       THEN /\ \A u \in Users : account[u].first # g
            /\ groups' = [groups EXCEPT ![g] = "nobody"]
            /\ account' = [u \in Users |-> [account[u] EXCEPT !.in = @ \ {g}]]
            /\ UNCHANGED reused
       ELSE /\ groups' = [groups EXCEPT ![g] = "other"]
            /\ reused' = [reused EXCEPT !.groups = IF GroupListed(g) THEN @ \cup {g} ELSE @ \ {g}]
            /\ UNCHANGED account
    /\ Disturb
    /\ UNCHANGED <<lockVars, lists, server, local, untracked, raced>>

DeletePhases(i) ==
    \/ UsersDeleted(i) \/ UsersWiped(i) \/ GroupsDeleted(i) \/ GroupsWiped(i)
    \/ \E u \in Users : RemoveUser(i, u)
    \/ \E g \in Groups : RemoveGroup(i, g)

CreatePhases(i) ==
    \/ GroupsCreated(i) \/ UsersCreated(i) \/ UsersUpdated(i) \/ NoDefaultGroup(i)
    \/ \E g \in Groups : AddGroup(i, g)
    \/ \E u \in Users : AddUser(i, u) \/ UpdateUser(i, u)

Synchronize(i) ==
    \/ ReadLists(i) \/ ReadFails(i) \/ FetchGroups(i) \/ FetchUsers(i) \/ FetchFails(i)
    \/ DeletePhases(i) \/ CreatePhases(i) \/ CommandFails(i)
    \/ WriteUsers(i) \/ WriteGroups(i) \/ RenameFails(i) \/ WriteFails(i)

Next ==
    \/ \E i \in Instances :
          Begin(i) \/ TakeLock(i) \/ Synchronize(i) \/ Finish(i) \/ Kill(i)
    \/ ServerChanges
    \/ \E u \in Users : AdminChanges(u)
    \/ \E g \in Groups : AdminChangesGroup(g)

Spec == Init /\ [][Next]_vars
-----------------------------------------------------------------------------
\* Types, and that an account the provisioner made has a first group.
TypeOK ==
    /\ LockTypeOK
    /\ account \in [Users -> Account]
    /\ \A u \in Users : account[u].by = "us" => account[u].first \in Groups
    /\ groups \in [Groups -> Makers]
    /\ userList \subseteq Users /\ groupList \subseteq Groups
    /\ server \in Answers
    /\ phase \in [Instances -> Phases]
    /\ mine \in [Instances -> [users : SUBSET Users, groups : SUBSET Groups]]
    /\ expected \in [Instances -> Answers]
    /\ todo \in [Instances -> SUBSET (Users \cup Groups)]
    /\ toUpdate \in [Instances -> SUBSET Users]
    /\ budget \in [launches : Nat, troubles : Nat, changes : Nat]
    /\ untracked \subseteq Users \cup Groups
    /\ raced \in BOOLEAN
    /\ reused \in [users : SUBSET Users, groups : SUBSET Groups]
    /\ agreed \in [runs : 0 .. 2, still : BOOLEAN]

\* No step of a provisioner touches an account or a group that somebody else
\* made: useradd's answer decides what is recorded (sync_users.cpp:580-584), and
\* only what is recorded is changed or deleted.  Not so for a name taken while
\* it was in a list: a process killed after userdel has not taken the name off
\* (545), an account deleted by hand stays on it till the next run, and being in
\* /etc/passwd is all that is asked of a listed name (696-699).
ForeignUntouched ==
    [][(\E i \in Instances : Synchronize(i)) =>
         /\ \A u \in Users \ reused.users :
               account[u].by = "other" => account'[u] = account[u]
         /\ \A g \in Groups \ reused.groups :
               groups[g] = "other" => groups'[g] = groups[g]]_vars

\* "It is very important that we not lose track of this data" (518-520):
\* between runs every account and group the provisioner made is in its
\* lists, also after runs that were aborted, but for what a killed process
\* had not written, and unless two processes have run at once.
Tracked ==
    ~raced /\ (\A i \in Instances : ~Holding(i)) =>
       /\ \A u \in Users \ untracked : account[u].by = "us" => u \in userList
       /\ \A g \in Groups \ untracked : groups[g] = "us" => g \in groupList

\* After two undisturbed runs the host is as the server says.  One is not
\* enough: a group that was somebody's first is only deleted by the next.
Converged ==
    ~raced /\ agreed.runs = 2 /\ untracked = {} =>
       /\ \A u \in Users \ ServiceAccounts :
             account[u].by # "other" =>
                account[u] = IF u \in server.users
                             THEN [by |-> "us", first |-> Lowest(server.in[u]), in |-> server.in[u]]
                             ELSE NoAccount
       /\ \A g \in Groups : groups[g] # "other" => (groups[g] = "us" <=> g \in server.groups)
=============================================================================
