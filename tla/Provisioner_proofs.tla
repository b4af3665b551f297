-------------------------- MODULE Provisioner_proofs --------------------------
(***************************************************************************)
(* Proofs about Provisioner and its lock file, for any number of           *)
(* processes, any sets of users and groups, and any bounds.                *)
(***************************************************************************)
EXTENDS Provisioner, TLAPS, WellFoundedInduction

(* The lock file by itself. *)

\* As long as nothing is in doubt, one process at most is past its test, and
\* once inside it is the one whose PID is in the file.
Owner ==
    ~doubt =>
       /\ \A i, j \in Instances :
             (Acquiring(i) \/ Holding(i)) /\ (Acquiring(j) \/ Holding(j)) => i = j
       /\ \A i \in Instances : Holding(i) => file = i

LockInv == LockTypeOK /\ Owner

\* The file is free and no process there when the model begins.
LEMMA LockInitInv == LockInit => LockInv
BY PidAssumption DEF LockInit, LockInv, LockTypeOK, Owner, Stages, Acquiring, Holding

\* No step leads out of the types.
LEMMA LockTypeStep == LockTypeOK /\ [LockNext]_lockVars => LockTypeOK'
<1> SUFFICES ASSUME LockTypeOK, [LockNext]_lockVars
             PROVE  LockTypeOK'
    OBVIOUS
<1> USE DEF LockTypeOK, Stages, Move
<1>1. CASE UNCHANGED lockVars
    BY <1>1 DEF lockVars
<1>2. ASSUME NEW i \in Instances, Launch(i) PROVE LockTypeOK'
    BY <1>2 DEF Launch
<1>3. ASSUME NEW i \in Instances, Acquire(i) PROVE LockTypeOK'
    BY <1>3 DEF Acquire, TestFile, Refuse, OpenFile, WritePid, LosePid, OpenFails
<1>4. ASSUME NEW i \in Instances, Leave(i) \/ Unlink(i) \/ Vanish(i) PROVE LockTypeOK'
    BY <1>4 DEF Leave, Unlink, Vanish
<1> QED BY <1>1, <1>2, <1>3, <1>4 DEF LockNext

\* No step gives the file a second owner.  A process that passes its test
\* while another is inside would have found that one's PID in the file; one
\* that passes it while another is between its test and its write leaves doubt.
LEMMA OwnerStep == LockInv /\ [LockNext]_lockVars => Owner'
<1> SUFFICES ASSUME LockInv, [LockNext]_lockVars
             PROVE  Owner'
    OBVIOUS
<1> USE DEF LockInv, LockTypeOK, Stages, Move, Owner, Acquiring, Holding
<1>1. CASE UNCHANGED lockVars
    BY <1>1 DEF lockVars
<1>2. ASSUME NEW i \in Instances, Launch(i) PROVE Owner'
    BY <1>2 DEF Launch
<1>3. ASSUME NEW i \in Instances, TestFile(i) PROVE Owner'
    BY <1>3 DEF TestFile
<1>4. ASSUME NEW i \in Instances, Refuse(i) \/ OpenFails(i) PROVE Owner'
    BY <1>4 DEF Refuse, OpenFails
<1>5. ASSUME NEW i \in Instances, OpenFile(i) PROVE Owner'
    BY <1>5 DEF OpenFile
<1>6. ASSUME NEW i \in Instances, WritePid(i) PROVE Owner'
    BY <1>6 DEF WritePid
<1>7. ASSUME NEW i \in Instances, LosePid(i) PROVE Owner'
    BY <1>7 DEF LosePid
<1>8. ASSUME NEW i \in Instances, Leave(i) \/ Vanish(i) PROVE Owner'
    BY <1>8 DEF Leave, Vanish
<1>9. ASSUME NEW i \in Instances, Unlink(i) PROVE Owner'
    BY <1>9 DEF Unlink
<1> QED BY <1>1, <1>2, <1>3, <1>4, <1>5, <1>6, <1>7, <1>8, <1>9 DEF LockNext, Acquire

\* The invariant of the lock file, for every set of processes.
THEOREM LockInvariant == LockSpec => []LockInv
<1>1. LockInv /\ [LockNext]_lockVars => LockInv'
    BY LockTypeStep, OwnerStep DEF LockInv
<1> QED BY LockInitInv, <1>1, PTL DEF LockSpec

\* Every variable of the lock file keeps its type (sync_users.cpp, LockFile).
THEOREM LockTypeCorrect == LockSpec => []LockTypeOK
BY LockInvariant, PTL DEF LockInv

\* One provisioner at a time, as long as no two constructors overlap
\* (sync_users.cpp, LockFile): whatever PIDs killed processes leave behind.
THEOREM MutualExclusion == LockSpec => []Exclusive
<1>1. LockInv => Exclusive
    BY DEF LockInv, Owner, Exclusive
<1> QED BY LockInvariant, <1>1, PTL

-----------------------------------------------------------------------------
\* What most leaves need: the groups of variables, and where a process is.
USE DEF vars, lockVars, host, lists, local, history, Outside, At, To, Unwind

-----------------------------------------------------------------------------
(* The lock file in the provisioner. *)

\* A step of main leaves the lock file alone, or the process its lock.
LEMMA SynchronizeLock ==
    ASSUME NEW i \in Instances, Synchronize(i)
    PROVE  Leave(i) \/ Vanish(i) \/ UNCHANGED lockVars
<1>1. CASE DeletePhases(i)
    BY <1>1 DEF DeletePhases, UsersDeleted, UsersWiped, GroupsDeleted, GroupsWiped,
                RemoveUser, RemoveGroup
<1>2. CASE CreatePhases(i)
    BY <1>2 DEF CreatePhases, GroupsCreated, UsersCreated, UsersUpdated, NoDefaultGroup,
                AddGroup, AddUser, UpdateUser
<1>3. CASE ReadLists(i) \/ FetchGroups(i) \/ FetchUsers(i) \/ FetchFails(i) \/ CommandFails(i)
    BY <1>3 DEF ReadLists, FetchGroups, FetchUsers, FetchFails, CommandFails
<1>4. CASE ReadFails(i) \/ WriteUsers(i) \/ WriteGroups(i) \/ RenameFails(i) \/ WriteFails(i)
    BY <1>4 DEF ReadFails, WriteUsers, WriteGroups, RenameFails, WriteFails, Kill
<1> QED BY <1>1, <1>2, <1>3, <1>4 DEF Synchronize

\* What the administrator does.
AdminActs ==
    \/ \E u \in Users : AdminChanges(u)
    \/ \E g \in Groups : AdminChangesGroup(g)

\* Every step of the provisioner is one of the lock file or leaves it alone.
LEMMA LockStep == [Next]_vars => [LockNext]_lockVars
<1> SUFFICES ASSUME [Next]_vars PROVE [LockNext]_lockVars
    OBVIOUS
<1>1. CASE UNCHANGED vars
    BY <1>1
<1>2. ASSUME NEW i \in Instances, Synchronize(i) PROVE [LockNext]_lockVars
    BY <1>2, SynchronizeLock DEF LockNext
<1>3. ASSUME NEW i \in Instances, Begin(i) \/ TakeLock(i) \/ Finish(i) \/ Kill(i)
      PROVE  [LockNext]_lockVars
    BY <1>3 DEF Begin, TakeLock, Finish, Kill, LockNext
<1>4. CASE ServerChanges \/ AdminActs
    BY <1>4 DEF ServerChanges, AdminActs, AdminChanges, AdminChangesGroup
<1> QED BY <1>1, <1>2, <1>3, <1>4 DEF Next, AdminActs

\* The provisioner, whatever else it does, uses the file as LockFile says
\* (sync_users.cpp, main: the lock is a local variable).
THEOREM ImplementsLock == Spec => LockSpec
<1>1. Init => LockInit
    BY DEF Init
<1> QED BY <1>1, LockStep, PTL DEF Spec, LockSpec

\* One provisioner at a time, in the whole program (sync_users.cpp, main).
THEOREM ProvisionerExclusive == Spec => []Exclusive
BY ImplementsLock, MutualExclusion, PTL

-----------------------------------------------------------------------------
(* Types. *)

\* Every non-empty set of numbers has a lowest member: defaultGroup.
Below == {ss \in Nat \X Nat : ss[1] < ss[2]}

LEMMA LowestIsMember ==
    ASSUME NEW S, S \subseteq Nat, S # {}
    PROVE  Lowest(S) \in S
<1>1. OpToRel(<, Nat) = Below
    BY DEF OpToRel, Below
<1>2. \E g \in S : \A h \in S : ~ (<<h, g>> \in Below)
    BY <1>1, NatLessThanWellFounded, WFMin
<1>3. ASSUME NEW g \in S, NEW h \in S, ~ (<<h, g>> \in Below) PROVE g <= h
    BY <1>3 DEF Below
<1>4. \E g \in S : \A h \in S : g <= h
    BY <1>2, <1>3, Zenon
<1> QED BY <1>4, Zenon DEF Lowest

\* What useradd and usermod are told is an account, the first group included.
LEMMA PlacedIsAccount ==
    ASSUME TypeOK, NEW i \in Instances, NEW u \in Users, expected[i].in[u] # {}
    PROVE  Placed(i, u) \in Account /\ Placed(i, u).by = "us" /\ Placed(i, u).first \in Groups
<1>1. expected[i].in[u] \in SUBSET Groups
    BY DEF TypeOK, Answers
<1>2. Lowest(expected[i].in[u]) \in Groups
    BY <1>1, LowestIsMember, ProvisionerAssumption
<1> QED BY <1>1, <1>2 DEF Placed, Account, Makers

(***************************************************************************)
(* Types of everything but the lock file and the host.                     *)
(***************************************************************************)
Budgets == [launches : Nat, troubles : Nat, changes : Nat]
Agreements == [runs : 0 .. 2, still : BOOLEAN]

LocalTypeOK ==
    /\ userList \subseteq Users /\ groupList \subseteq Groups
    /\ server \in Answers
    /\ phase \in [Instances -> Phases]
    /\ mine \in [Instances -> [users : SUBSET Users, groups : SUBSET Groups]]
    /\ expected \in [Instances -> Answers]
    /\ todo \in [Instances -> SUBSET (Users \cup Groups)]
    /\ toUpdate \in [Instances -> SUBSET Users]
    /\ budget \in Budgets
    /\ untracked \subseteq Users \cup Groups
    /\ raced \in BOOLEAN
    /\ reused \in [users : SUBSET Users, groups : SUBSET Groups]
    /\ agreed \in Agreements

\* Types of the host.
HostTypeOK ==
    /\ account \in [Users -> Account]
    /\ \A u \in Users : account[u].by = "us" => account[u].first \in Groups
    /\ groups \in [Groups -> Makers]

\* The types are those of the three parts.
LEMMA TypeParts == TypeOK <=> LockTypeOK /\ HostTypeOK /\ LocalTypeOK
BY DEF TypeOK, HostTypeOK, LocalTypeOK, Budgets, Agreements

LEMMA InitTypes == Init => TypeOK
<1> SUFFICES ASSUME Init PROVE TypeOK
    OBVIOUS
<1>1. LockTypeOK
    BY LockInitInv DEF Init, LockInv
<1>2. HostTypeOK
    BY DEF HostTypeOK, Init, Account, Makers, NoAccount, OthersAccount
<1>3. Nothing \in Answers
    BY DEF Nothing, Answers
<1>4. budget \in Budgets
    BY ProvisionerAssumption DEF Init, Budgets
<1>5. agreed \in Agreements
    BY DEF Init, Agreements
<1>6. server \in Answers
    BY DEF Init, ServerStates
<1>7. LocalTypeOK
    BY <1>3, <1>4, <1>5, <1>6 DEF Init, LocalTypeOK, Phases
<1> QED BY <1>1, <1>2, <1>7, TypeParts

\* The counters stay natural numbers: each guard says that something is left.
LEMMA BudgetStep ==
    ASSUME budget \in Budgets
    PROVE  /\ Trouble => budget' \in Budgets
           /\ \A i \in Instances : Begin(i) => budget' \in Budgets
           /\ ServerChanges => budget' \in Budgets
           /\ \A u \in Users : AdminChanges(u) => budget' \in Budgets
           /\ \A g \in Groups : AdminChangesGroup(g) => budget' \in Budgets
BY DEF Budgets, Trouble, Begin, ServerChanges, AdminChanges, AdminChangesGroup

LEMMA AgreedStep ==
    ASSUME agreed \in Agreements
    PROVE  /\ Disturb => agreed' \in Agreements
           /\ \A i \in Instances : Finish(i) => agreed' \in Agreements
           /\ \A i \in Instances : ReadLists(i) => agreed' \in Agreements
<1>1. Disturb => agreed' \in Agreements
    BY DEF Agreements, Disturb
<1>2. ASSUME NEW i \in Instances, Finish(i) PROVE agreed' \in Agreements
  <2>1. \/ agreed' = [runs |-> 0, still |-> FALSE]
        \/ agreed' = [runs |-> 1, still |-> FALSE]
        \/ agreed' = [runs |-> 2, still |-> FALSE]
      BY <1>2, Zenon DEF Finish
  <2>2. \A n \in 0 .. 2 : [runs |-> n, still |-> FALSE] \in Agreements
      BY DEF Agreements
  <2>3. 0 \in 0 .. 2 /\ 1 \in 0 .. 2 /\ 2 \in 0 .. 2
      OBVIOUS
  <2> QED BY <2>1, <2>2, <2>3, Zenon
<1>3. ASSUME NEW i \in Instances, ReadLists(i) PROVE agreed' \in Agreements
  <2>1. agreed' = [agreed EXCEPT !.still = TRUE] \/ Disturb
      BY <1>3 DEF ReadLists
  <2>2. CASE agreed' = [agreed EXCEPT !.still = TRUE]
      BY <2>2 DEF Agreements
  <2> QED BY <1>1, <2>1, <2>2
<1> QED BY <1>1, <1>2, <1>3

\* What is fetched has the type of an answer.
LEMMA AnswerStep ==
    ASSUME server \in Answers, expected \in [Instances -> Answers]
    PROVE  /\ Nothing \in Answers
           /\ \A i \in Instances : [expected[i] EXCEPT !.groups = server.groups] \in Answers
           /\ \A i \in Instances :
                 [expected[i] EXCEPT !.users = server.users, !.in = server.in] \in Answers
           /\ \A i \in Instances : expected[i].users \subseteq Users
                                   /\ expected[i].groups \subseteq Groups
           /\ server.users \subseteq Users
BY DEF Nothing, Answers

\* The types of what a process means to do; main's end and the process's.
PlanTypes ==
    /\ expected \in [Instances -> Answers]
    /\ todo \in [Instances -> SUBSET (Users \cup Groups)]
    /\ toUpdate \in [Instances -> SUBSET Users]

LEMMA UnwindStep ==
    ASSUME PlanTypes, NEW i \in Instances, Unwind(i)
    PROVE  PlanTypes'
<1>1. Nothing \in Answers
    BY DEF Nothing, Answers
<1> QED BY <1>1 DEF PlanTypes, Unwind

LEMMA ForgetStep ==
    ASSUME LocalTypeOK, NEW i \in Instances, Forget(i)
    PROVE  /\ PlanTypes'
           /\ phase' \in [Instances -> Phases]
           /\ mine' \in [Instances -> [users : SUBSET Users, groups : SUBSET Groups]]
<1>1. PlanTypes' BY UnwindStep DEF Forget, LocalTypeOK, PlanTypes
<1>2. phase' \in [Instances -> Phases]
    BY DEF Forget, LocalTypeOK, Phases
<1>3. mine' \in [Instances -> [users : SUBSET Users, groups : SUBSET Groups]]
    BY DEF Forget, LocalTypeOK
<1> QED BY <1>1, <1>2, <1>3

LEMMA LocalTypeStep == TypeOK /\ [Next]_vars => LocalTypeOK'
<1> SUFFICES ASSUME TypeOK, [Next]_vars PROVE LocalTypeOK'
    OBVIOUS
<1>0. LocalTypeOK
    BY TypeParts
<1> USE <1>0 DEF LocalTypeOK
<1>1. CASE UNCHANGED vars
    BY <1>1
<1>2. /\ Trouble => budget' \in Budgets
      /\ Disturb => agreed' \in Agreements
      /\ Nothing \in Answers
    BY BudgetStep, AgreedStep, AnswerStep
<1>3. ASSUME NEW i \in Instances, Begin(i) PROVE LocalTypeOK'
    BY <1>3, BudgetStep DEF Begin
<1>4. ASSUME NEW i \in Instances, TakeLock(i) PROVE LocalTypeOK'
  <2>1. doubt' \in BOOLEAN
      BY LockStep, TypeParts, LockTypeStep DEF LockTypeOK
  <2> QED BY <1>2, <1>4, <2>1 DEF TakeLock
<1>5. ASSUME NEW i \in Instances, Kill(i) \/ WriteFails(i) PROVE LocalTypeOK'
  <2>1. Unrecorded(i) \subseteq Users \cup Groups
      BY DEF Unrecorded
  <2>2. Kill(i)
      BY <1>5 DEF WriteFails
  <2>3. untracked' \subseteq Users \cup Groups /\ UNCHANGED <<lists, server, raced, reused>>
      BY <2>1, <2>2 DEF Kill
  <2>4. budget' \in Budgets /\ agreed' \in Agreements
      BY <1>2, <2>2 DEF Kill
  <2>5. Forget(i)
      BY <2>2 DEF Kill
  <2> QED BY <2>3, <2>4, <2>5, ForgetStep DEF PlanTypes
<1>6. ASSUME NEW i \in Instances, Finish(i) PROVE LocalTypeOK'
  <2>1. agreed' \in Agreements
      BY <1>6, AgreedStep
  <2>2. Forget(i) /\ UNCHANGED <<lists, server, budget, untracked, raced, reused>>
      BY <1>6 DEF Finish
  <2> QED BY <2>1, <2>2, ForgetStep DEF PlanTypes
<1>7. ASSUME NEW i \in Instances, ReadLists(i) PROVE LocalTypeOK'
  <2>1. agreed' \in Agreements
      BY <1>7, AgreedStep
  <2>2. mine' \in [Instances -> [users : SUBSET Users, groups : SUBSET Groups]]
      BY <1>7 DEF ReadLists, Accounts, HostGroups
  <2>3. mine'[i].users \subseteq Users
      BY <2>2
  <2>4. /\ phase' \in [Instances -> Phases]
        /\ todo' \in [Instances -> SUBSET (Users \cup Groups)]
        /\ UNCHANGED <<lists, server, untracked, raced, reused, expected, toUpdate, budget>>
      BY <1>7, <2>3 DEF ReadLists, Phases
  <2> QED BY <2>1, <2>2, <2>4
<1>8. ASSUME NEW i \in Instances, ReadFails(i) \/ FetchFails(i) PROVE LocalTypeOK'
  <2>1. budget' \in Budgets /\ agreed' \in Agreements
      BY <1>2, <1>8 DEF ReadFails, FetchFails
  <2>2. UNCHANGED <<lists, server, mine, untracked, raced, reused>>
      BY <1>8 DEF ReadFails, FetchFails
  <2>3. CASE ReadFails(i)
      BY <2>1, <2>2, <2>3 DEF ReadFails
  <2>4. CASE FetchFails(i)
    <3>1. PlanTypes'
        BY <2>4, UnwindStep DEF FetchFails, PlanTypes
    <3>2. phase' \in [Instances -> Phases]
        BY <2>4 DEF FetchFails, Phases
    <3> QED BY <2>1, <2>2, <3>1, <3>2 DEF PlanTypes
  <2> QED BY <1>8, <2>3, <2>4
<1>9. ASSUME NEW i \in Instances, FetchGroups(i) PROVE LocalTypeOK'
    BY <1>9, AnswerStep DEF FetchGroups, Phases
<1>10. ASSUME NEW i \in Instances, FetchUsers(i) PROVE LocalTypeOK'
    BY <1>10, AnswerStep DEF FetchUsers, Phases
<1>11. ASSUME NEW i \in Instances, CommandFails(i) PROVE LocalTypeOK'
    BY <1>2, <1>11 DEF CommandFails
<1>12. ASSUME NEW i \in Instances, DeletePhases(i) PROVE LocalTypeOK'
  <2>1. CASE UsersDeleted(i)
      BY <2>1, AnswerStep DEF UsersDeleted, Phases
  <2>2. CASE UsersWiped(i) \/ GroupsWiped(i)
      BY <1>2, <2>2, SMTT(40) DEF UsersWiped, GroupsWiped, Phases
  <2>3. CASE GroupsDeleted(i)
      BY <2>3, AnswerStep DEF GroupsDeleted, Phases
  <2>4. ASSUME NEW u \in Users, RemoveUser(i, u) PROVE LocalTypeOK'
      BY <2>4 DEF RemoveUser
  <2>5. ASSUME NEW g \in Groups, RemoveGroup(i, g) PROVE LocalTypeOK'
      BY <2>5 DEF RemoveGroup
  <2> QED BY <1>12, <2>1, <2>2, <2>3, <2>4, <2>5 DEF DeletePhases
<1>13. ASSUME NEW i \in Instances, CreatePhases(i) PROVE LocalTypeOK'
  <2>1. CASE GroupsCreated(i)
      BY <2>1, AnswerStep DEF GroupsCreated, Phases
  <2>2. CASE UsersCreated(i) \/ UsersUpdated(i)
      BY <1>2, <2>2, SMTT(40) DEF UsersCreated, UsersUpdated, Phases
  <2>3. CASE NoDefaultGroup(i)
      BY <1>2, <2>3 DEF NoDefaultGroup, Phases
  <2>4. ASSUME NEW g \in Groups, AddGroup(i, g) PROVE LocalTypeOK'
      BY <2>4 DEF AddGroup
  <2>5. ASSUME NEW u \in Users, AddUser(i, u) PROVE LocalTypeOK'
      BY <2>5 DEF AddUser
  <2>6. ASSUME NEW u \in Users, UpdateUser(i, u) PROVE LocalTypeOK'
      BY <2>6 DEF UpdateUser
  <2> QED BY <1>13, <2>1, <2>2, <2>3, <2>4, <2>5, <2>6 DEF CreatePhases
<1>14. ASSUME NEW i \in Instances, WriteUsers(i) \/ WriteGroups(i) PROVE LocalTypeOK'
    BY <1>14 DEF WriteUsers, WriteGroups, Phases
<1>15. ASSUME NEW i \in Instances, RenameFails(i) PROVE LocalTypeOK'
    BY <1>2, <1>15 DEF RenameFails, Phases
<1>16. CASE ServerChanges
    BY <1>2, <1>16, BudgetStep DEF ServerChanges, ServerStates
<1>17. ASSUME NEW u \in Users, AdminChanges(u) PROVE LocalTypeOK'
    BY <1>2, <1>17, BudgetStep DEF AdminChanges
<1>18. ASSUME NEW g \in Groups, AdminChangesGroup(g) PROVE LocalTypeOK'
    BY <1>2, <1>18, BudgetStep DEF AdminChangesGroup
<1> QED BY <1>1, <1>3, <1>4, <1>5, <1>6, <1>7, <1>8, <1>9, <1>10, <1>11, <1>12, <1>13, <1>14,
           <1>15, <1>16, <1>17, <1>18
        DEF Next, Synchronize

LEMMA HostTypeStep == TypeOK /\ [Next]_vars => HostTypeOK'
<1> SUFFICES ASSUME TypeOK, [Next]_vars PROVE HostTypeOK'
    OBVIOUS
<1>0. HostTypeOK
    BY TypeParts
<1> USE <1>0 DEF HostTypeOK
<1>1. CASE UNCHANGED host
    BY <1>1
<1>2. NoAccount \in Account /\ NoAccount.by # "us" /\ OthersAccount \in Account
      /\ OthersAccount.by # "us"
    BY DEF NoAccount, OthersAccount, Account, Makers
<1>3. ASSUME NEW i \in Instances, NEW u \in Users, RemoveUser(i, u) PROVE HostTypeOK'
    BY <1>2, <1>3 DEF RemoveUser
<1>4. ASSUME NEW i \in Instances, NEW g \in Groups, RemoveGroup(i, g) PROVE HostTypeOK'
    BY <1>4, SMTT(40) DEF RemoveGroup, Account, Makers
<1>5. ASSUME NEW i \in Instances, NEW g \in Groups, AddGroup(i, g) PROVE HostTypeOK'
    BY <1>5 DEF AddGroup, Makers
<1>6. ASSUME NEW i \in Instances, NEW u \in Users, AddUser(i, u) PROVE HostTypeOK'
    BY <1>6, PlacedIsAccount DEF AddUser
<1>7. ASSUME NEW i \in Instances, NEW u \in Users, UpdateUser(i, u) PROVE HostTypeOK'
  <2>1. [Placed(i, u) EXCEPT !.by = account[u].by] \in Account
        /\ [Placed(i, u) EXCEPT !.by = account[u].by].first \in Groups
      BY <1>7, PlacedIsAccount DEF UpdateUser, Account
  <2> QED BY <1>7, <2>1 DEF UpdateUser
<1>8. ASSUME NEW u \in Users, AdminChanges(u) PROVE HostTypeOK'
    BY <1>2, <1>8 DEF AdminChanges
<1>13. ASSUME NEW g \in Groups, AdminChangesGroup(g) PROVE HostTypeOK'
    BY <1>13 DEF AdminChangesGroup, Account, Makers
<1>9. ASSUME NEW i \in Instances, Begin(i) \/ TakeLock(i) \/ Finish(i) \/ Kill(i)
      PROVE  UNCHANGED host
    BY <1>9 DEF Begin, TakeLock, Finish, Kill
<1>10. ASSUME NEW i \in Instances,
              ReadLists(i) \/ ReadFails(i) \/ FetchGroups(i) \/ FetchUsers(i) \/ FetchFails(i)
              \/ CommandFails(i) \/ WriteUsers(i) \/ WriteGroups(i) \/ RenameFails(i)
              \/ WriteFails(i)
       PROVE  UNCHANGED host
    BY <1>10 DEF ReadLists, ReadFails, FetchGroups, FetchUsers, FetchFails, CommandFails,
                 WriteUsers, WriteGroups, RenameFails, WriteFails, Kill
<1>11. ASSUME NEW i \in Instances, UsersDeleted(i) \/ UsersWiped(i) \/ GroupsDeleted(i)
              \/ GroupsWiped(i) \/ GroupsCreated(i) \/ UsersCreated(i) \/ UsersUpdated(i)
              \/ NoDefaultGroup(i)
       PROVE  UNCHANGED host
    BY <1>11 DEF UsersDeleted, UsersWiped, GroupsDeleted, GroupsWiped, GroupsCreated,
                 UsersCreated, UsersUpdated, NoDefaultGroup
<1>12. CASE ServerChanges \/ UNCHANGED vars
    BY <1>12 DEF ServerChanges
<1> QED BY <1>1, <1>3, <1>4, <1>5, <1>6, <1>7, <1>8, <1>9, <1>10, <1>11, <1>12, <1>13
        DEF Next, Synchronize, DeletePhases, CreatePhases

\* No step leads out of the types.
LEMMA TypeStep == TypeOK /\ [Next]_vars => TypeOK'
<1> SUFFICES ASSUME TypeOK, [Next]_vars PROVE TypeOK'
    OBVIOUS
<1>1. LockTypeOK'
    BY LockStep, LockTypeStep DEF TypeOK
<1>2. HostTypeOK' /\ LocalTypeOK'
    BY LocalTypeStep, HostTypeStep
<1> QED BY <1>1, <1>2 DEF TypeOK, HostTypeOK, LocalTypeOK, Budgets, Agreements

\* Every variable keeps its type, and an account the provisioner made has a
\* first group (sync_users.cpp, defaultGroup).
THEOREM TypeCorrect == Spec => []TypeOK
BY InitTypes, TypeStep, PTL DEF Spec
-----------------------------------------------------------------------------
(***************************************************************************)
(* Accounts and groups of others.                                          *)
(***************************************************************************)
DeletesUsers(i) == phase[i] \in {"deleteUsers", "wipeUsers"}
DeletesGroups(i) == phase[i] \in {"deleteGroups", "wipeGroups"}
AfterDeletion(i) == phase[i] \in {"deleteGroups", "createGroups", "createUsers", "updateUsers"}

\* What is not ours is in nobody's list, on disk or in a process, unless the
\* name was in one when it was taken.
UsersNotClaimed ==
    \A u \in Users \ reused.users : account[u].by = "other" =>
       /\ account[u] = OthersAccount
       /\ u \notin userList
       /\ \A i \in Instances : u \notin mine[i].users

GroupsNotClaimed ==
    \A g \in Groups \ reused.groups : groups[g] = "other" =>
       /\ g \notin groupList
       /\ \A i \in Instances : g \notin mine[i].groups

NotClaimed == UsersNotClaimed /\ GroupsNotClaimed

\* What a process deletes or changes is in its own list.
Targets ==
    \A i \in Instances :
       /\ DeletesUsers(i) \/ phase[i] = "updateUsers" => todo[i] \subseteq mine[i].users
       /\ DeletesGroups(i) => todo[i] \subseteq mine[i].groups
       /\ IF AfterDeletion(i) THEN toUpdate[i] \subseteq mine[i].users ELSE toUpdate[i] = {}

(***************************************************************************)
(* Where what we made is known: in the lists on disk, or, from their       *)
(* reading to their writing, in the lists of the one process inside.       *)
(***************************************************************************)
HasUsers(i) == stage[i] = "inside" /\ phase[i] \notin {"read", "writeGroups"}
HasGroups(i) == stage[i] = "inside" /\ phase[i] # "read"

Idle == \A i \in Instances : ~Holding(i) => phase[i] = "read"

\* The provisioner has placed the account: it has made it, or taken it for its
\* own.
Ours(u) == account[u].first # 0

UsersKnown ==
    \A u \in Users \ untracked : Ours(u) =>
       /\ (\A i \in Instances : ~HasUsers(i)) => u \in userList
       /\ \A i \in Instances : HasUsers(i) => u \in mine[i].users

GroupsKnown ==
    \A g \in Groups \ untracked : groups[g] = "us" =>
       /\ (\A i \in Instances : ~HasGroups(i)) => g \in groupList
       /\ \A i \in Instances : HasGroups(i) => g \in mine[i].groups

Known ==
    /\ doubt => raced
    /\ Idle
    /\ ~raced => UsersKnown /\ GroupsKnown
-----------------------------------------------------------------------------
(* Steps that change little. *)

\* Commands of main that leave the host, the lists on disk and its own alone.
Plans(i) ==
    \/ FetchGroups(i) \/ FetchUsers(i) \/ FetchFails(i) \/ CommandFails(i)
    \/ UsersDeleted(i) \/ UsersWiped(i) \/ GroupsDeleted(i) \/ GroupsWiped(i)
    \/ GroupsCreated(i) \/ UsersCreated(i) \/ UsersUpdated(i) \/ NoDefaultGroup(i)

\* The process is inside, and stays between the reading of its lists and
\* their writing.
Between(i) == phase[i] # "read" /\ phase[i] # "writeGroups"

LEMMA PlansKeep ==
    ASSUME LocalTypeOK, NEW i \in Instances, Plans(i)
    PROVE  /\ UNCHANGED <<host, lists, mine, lockVars, untracked, raced, reused>>
           /\ stage[i] = "inside"
           /\ (Between(i) /\ Between(i)') \/ UNCHANGED phase
           /\ \A j \in Instances \ {i} : phase'[j] = phase[j]
<1>1. CASE FetchGroups(i) \/ FetchUsers(i) \/ FetchFails(i)
    BY <1>1 DEF FetchGroups, FetchUsers, FetchFails, LocalTypeOK, Between
<1>2. CASE CommandFails(i)
    BY <1>2 DEF CommandFails, LocalTypeOK, Between
<1>3. CASE UsersDeleted(i) \/ UsersWiped(i) \/ GroupsDeleted(i) \/ GroupsWiped(i)
    BY <1>3 DEF UsersDeleted, UsersWiped, GroupsDeleted, GroupsWiped, LocalTypeOK, Between
<1>4. CASE GroupsCreated(i) \/ UsersCreated(i) \/ UsersUpdated(i) \/ NoDefaultGroup(i)
    BY <1>4 DEF GroupsCreated, UsersCreated, UsersUpdated, NoDefaultGroup, LocalTypeOK, Between
<1> QED BY <1>1, <1>2, <1>3, <1>4 DEF Plans

\* The steps of main, one by one.
LEMMA SynchronizeCases ==
    ASSUME NEW i \in Instances, Synchronize(i)
    PROVE  \/ Plans(i) \/ ReadLists(i) \/ ReadFails(i)
           \/ \E u \in Users : RemoveUser(i, u) \/ AddUser(i, u) \/ UpdateUser(i, u)
           \/ \E g \in Groups : RemoveGroup(i, g) \/ AddGroup(i, g)
           \/ WriteUsers(i) \/ WriteGroups(i) \/ RenameFails(i) \/ Kill(i)
BY DEF Synchronize, DeletePhases, CreatePhases, Plans, WriteFails

-----------------------------------------------------------------------------
(* Others' accounts and groups. *)

ForeignInv == TypeOK /\ NotClaimed /\ Targets

\* At the start nothing is claimed and nothing is to be deleted.
LEMMA ForeignInit == Init => ForeignInv
<1> SUFFICES ASSUME Init PROVE ForeignInv
    OBVIOUS
<1>1. NotClaimed
    BY DEF Init, NotClaimed, UsersNotClaimed, GroupsNotClaimed, NoAccount, OthersAccount
<1>2. Targets
    BY DEF Init, Targets, DeletesUsers, DeletesGroups, AfterDeletion
<1> QED BY <1>1, <1>2, InitTypes DEF ForeignInv

\* The model counts no groups of others' accounts: there is none to leave.
LEMMA OthersInNone == \A g \in Groups : [OthersAccount EXCEPT !.in = @ \ {g}] = OthersAccount
<1>1. \A g \in Groups : {} \ {g} = {}
    OBVIOUS
<1>2. OthersAccount.in = {}
    BY DEF OthersAccount
<1> QED BY <1>1, <1>2, Zenon DEF OthersAccount

\* A name is claimed by the one command that has just made it, and only if
\* it was nobody's.
LEMMA NotClaimedStep == ForeignInv /\ [Next]_vars => NotClaimed'
<1> SUFFICES ASSUME ForeignInv, [Next]_vars PROVE NotClaimed'
    OBVIOUS
<1>0. HostTypeOK /\ LocalTypeOK /\ NotClaimed /\ Targets
    BY TypeParts DEF ForeignInv
<1> USE <1>0 DEF NotClaimed, UsersNotClaimed, GroupsNotClaimed, HostTypeOK, LocalTypeOK
<1>1. CASE UNCHANGED <<host, lists, mine, reused>>
    BY <1>1
<1>2. ASSUME NEW i \in Instances, Kill(i) \/ Finish(i) PROVE NotClaimed'
  <2>1. UsersNotClaimed'
      BY <1>2 DEF Kill, Finish, Forget
  <2>2. GroupsNotClaimed'
      BY <1>2 DEF Kill, Finish, Forget
  <2> QED BY <2>1, <2>2
<1>3. ASSUME NEW i \in Instances, Begin(i) \/ TakeLock(i) \/ ReadFails(i) \/ RenameFails(i)
      PROVE  UNCHANGED <<host, lists, mine, reused>>
    BY <1>3 DEF Begin, TakeLock, ReadFails, RenameFails
<1>4. ASSUME NEW i \in Instances, ReadLists(i) PROVE NotClaimed'
    BY <1>4 DEF ReadLists
<1>5. ASSUME NEW i \in Instances, NEW u \in Users, RemoveUser(i, u) PROVE NotClaimed'
  <2>1. \A j \in Instances : mine'[j].users \subseteq mine[j].users
      BY <1>5 DEF RemoveUser
  <2>2. \A v \in Users : account'[v].by = "other" => account'[v] = account[v]
      BY <1>5 DEF RemoveUser, NoAccount
  <2>3. UsersNotClaimed'
      BY <1>5, <2>1, <2>2 DEF RemoveUser
  <2>4. GroupsNotClaimed'
      BY <1>5 DEF RemoveUser
  <2> QED BY <2>3, <2>4
<1>6. ASSUME NEW i \in Instances, NEW g \in Groups, RemoveGroup(i, g) PROVE NotClaimed'
  <2>1. \A j \in Instances : mine'[j].users = mine[j].users
      BY <1>6 DEF RemoveGroup
  <2>2. \A v \in Users \ reused.users : account'[v].by = "other" => account'[v] = account[v]
    <3>1. \A v \in Users : [account[v] EXCEPT !.in = @ \ {g}].by = account[v].by
        BY DEF Account
    <3>2. [OthersAccount EXCEPT !.in = @ \ {g}] = OthersAccount
        BY OthersInNone
    <3>3. CASE account' = account
        BY <3>3
    <3>4. CASE account' = [v \in Users |-> [account[v] EXCEPT !.in = @ \ {g}]]
        BY <3>1, <3>2, <3>4, Zenon
    <3> QED BY <1>6, <3>3, <3>4 DEF RemoveGroup
  <2>3. UsersNotClaimed'
      BY <1>6, <2>1, <2>2 DEF RemoveGroup
  <2>4. \A j \in Instances : mine'[j].groups \subseteq mine[j].groups
      BY <1>6, SMTT(40) DEF RemoveGroup
  <2>5. \A h \in Groups : groups'[h] = "other" => groups[h] = "other"
      BY <1>6 DEF RemoveGroup
  <2>6. GroupsNotClaimed'
      BY <1>6, <2>4, <2>5 DEF RemoveGroup
  <2> QED BY <2>3, <2>6
<1>7. ASSUME NEW i \in Instances, NEW g \in Groups, AddGroup(i, g) PROVE NotClaimed'
  <2>1. \A j \in Instances : mine'[j].users = mine[j].users
      BY <1>7 DEF AddGroup
  <2>2. UsersNotClaimed'
      BY <1>7, <2>1 DEF AddGroup
  <2>3. GroupsNotClaimed'
      BY <1>7, SMTT(40) DEF AddGroup, HostGroups
  <2> QED BY <2>2, <2>3
<1>8. ASSUME NEW i \in Instances, NEW u \in Users, AddUser(i, u) PROVE NotClaimed'
  <2>1. \A j \in Instances : mine'[j].users \subseteq mine[j].users \cup {u}
      BY <1>8 DEF AddUser
  <2>2. \A v \in Users : account'[v].by = "other" => account'[v] = account[v]
      BY <1>8 DEF AddUser, Placed
  <2>3. mine' # mine => account'[u].by = "us"
      BY <1>8 DEF AddUser, Placed
  <2>4. UsersNotClaimed'
    <3>1. CASE mine' = mine
        BY <1>8, <2>2, <3>1 DEF AddUser
    <3>2. CASE mine' # mine
        BY <1>8, <2>1, <2>2, <2>3, <3>2 DEF AddUser
    <3> QED BY <3>1, <3>2
  <2>5. GroupsNotClaimed'
      BY <1>8 DEF AddUser
  <2> QED BY <2>4, <2>5
<1>9. ASSUME NEW i \in Instances, NEW u \in Users, UpdateUser(i, u) PROVE NotClaimed'
    BY <1>9 DEF UpdateUser, Placed, Targets
<1>10. ASSUME NEW i \in Instances, WriteUsers(i) \/ WriteGroups(i) PROVE NotClaimed'
    BY <1>10 DEF WriteUsers, WriteGroups
<1>11. ASSUME NEW u \in Users, AdminChanges(u) PROVE NotClaimed'
  <2>1. \/ account' = [account EXCEPT ![u] = NoAccount] /\ UNCHANGED reused
        \/ /\ account' = [account EXCEPT ![u] = OthersAccount]
           /\ \/ u \in reused'.users
              \/ u \notin userList /\ \A i \in Instances : u \notin mine[i].users
      BY <1>11 DEF AdminChanges, UserListed
  <2>2. NoAccount.by # "other"
      BY DEF NoAccount
  <2>3. UNCHANGED <<groups, lists, mine>> /\ reused'.groups = reused.groups
      BY <1>11 DEF AdminChanges
  <2>4. \A v \in Users \ {u} : v \in reused.users => v \in reused'.users
      BY <1>11 DEF AdminChanges
  <2>5. \A v \in Users \ {u} : account'[v] = account[v]
      BY <2>1
  <2>6. account'[u] = NoAccount \/ account'[u] = OthersAccount
      BY <2>1
  <2>7. UsersNotClaimed'
      BY <2>1, <2>2, <2>3, <2>4, <2>5, <2>6
  <2> QED BY <2>3, <2>7
<1>13. ASSUME NEW g \in Groups, AdminChangesGroup(g) PROVE NotClaimed'
  <2>1. UNCHANGED <<lists, mine>> /\ reused'.users = reused.users
      BY <1>13 DEF AdminChangesGroup
  <2>2. \A v \in Users : account'[v].by = "other" /\ account[v] = OthersAccount
                         => account'[v] = account[v]
    <3>1. [OthersAccount EXCEPT !.in = @ \ {g}] = OthersAccount
        BY OthersInNone
    <3>2. CASE account' = account
        BY <3>2
    <3>3. CASE account' = [v \in Users |-> [account[v] EXCEPT !.in = @ \ {g}]]
        BY <3>1, <3>3, Zenon
    <3> QED BY <1>13, <3>2, <3>3 DEF AdminChangesGroup
  <2>3. \A v \in Users : account'[v].by = account[v].by
      BY <1>13 DEF AdminChangesGroup, Account
  <2>4. UsersNotClaimed'
      BY <2>1, <2>2, <2>3
  <2>5. groups'[g] = "other" =>
           \/ g \in reused'.groups
           \/ g \notin groupList /\ \A i \in Instances : g \notin mine[i].groups
      BY <1>13 DEF AdminChangesGroup, GroupListed
  <2>6. \A h \in Groups \ {g} : /\ groups'[h] = groups[h]
                                /\ h \in reused.groups => h \in reused'.groups
      BY <1>13 DEF AdminChangesGroup
  <2>7. GroupsNotClaimed'
      BY <2>1, <2>5, <2>6
  <2> QED BY <2>4, <2>7
<1>12. CASE ServerChanges \/ UNCHANGED vars
    BY <1>12 DEF ServerChanges
<1> QED BY <1>1, <1>2, <1>3, <1>4, <1>5, <1>6, <1>7, <1>8, <1>9, <1>10, <1>11, <1>12, <1>13,
           SynchronizeCases, PlansKeep DEF Next

\* Each phase takes its names from the process's own list, and what is
\* removed from that list is dealt with.
LEMMA TargetsStep == TypeOK /\ Targets /\ [Next]_vars => Targets'
<1> SUFFICES ASSUME TypeOK, Targets, [Next]_vars PROVE Targets'
    OBVIOUS
<1>0. LocalTypeOK /\ Targets
    BY TypeParts
<1> USE <1>0 DEF Targets, LocalTypeOK, DeletesUsers, DeletesGroups, AfterDeletion
<1>1. CASE UNCHANGED local
    BY <1>1
<1>2. ASSUME NEW i \in Instances, Kill(i) \/ Finish(i) PROVE Targets'
    BY <1>2 DEF Kill, Finish, Forget
<1>3. ASSUME NEW i \in Instances, Begin(i) \/ TakeLock(i) \/ ReadFails(i) \/ WriteGroups(i)
      PROVE  UNCHANGED local
    BY <1>3 DEF Begin, TakeLock, ReadFails, WriteGroups
<1>4. ASSUME NEW i \in Instances, ReadLists(i) PROVE Targets'
    BY <1>4 DEF ReadLists
<1>5. ASSUME NEW i \in Instances, Plans(i) PROVE Targets'
  <2>1. CASE FetchGroups(i) \/ FetchFails(i)
      BY <2>1 DEF FetchGroups, FetchFails
  <2>2. CASE FetchUsers(i)
      BY <2>2 DEF FetchUsers
  <2>3. CASE CommandFails(i)
      BY <2>3 DEF CommandFails
  <2>4. CASE UsersDeleted(i)
      BY <2>4 DEF UsersDeleted
  <2>5. CASE UsersWiped(i) \/ GroupsWiped(i)
      BY <2>5 DEF UsersWiped, GroupsWiped
  <2>6. CASE GroupsDeleted(i) \/ GroupsCreated(i)
      BY <2>6 DEF GroupsDeleted, GroupsCreated
  <2>7. CASE UsersCreated(i)
      BY <2>7 DEF UsersCreated
  <2>8. CASE UsersUpdated(i) \/ NoDefaultGroup(i)
      BY <2>8 DEF UsersUpdated, NoDefaultGroup
  <2> QED BY <1>5, <2>1, <2>2, <2>3, <2>4, <2>5, <2>6, <2>7, <2>8 DEF Plans
<1>6. ASSUME NEW i \in Instances, NEW u \in Users, RemoveUser(i, u) PROVE Targets'
    BY <1>6 DEF RemoveUser
<1>7. ASSUME NEW i \in Instances, NEW g \in Groups, RemoveGroup(i, g) PROVE Targets'
    BY <1>7 DEF RemoveGroup
<1>8. ASSUME NEW i \in Instances, NEW g \in Groups, AddGroup(i, g) PROVE Targets'
    BY <1>8 DEF AddGroup
<1>9. ASSUME NEW i \in Instances, NEW u \in Users, AddUser(i, u) PROVE Targets'
    BY <1>9 DEF AddUser
<1>10. ASSUME NEW i \in Instances, NEW u \in Users, UpdateUser(i, u) PROVE Targets'
    BY <1>10 DEF UpdateUser
<1>11. ASSUME NEW i \in Instances, WriteUsers(i) \/ RenameFails(i) PROVE Targets'
    BY <1>11 DEF WriteUsers, RenameFails
<1>12. CASE ServerChanges \/ AdminActs \/ UNCHANGED vars
    BY <1>12 DEF ServerChanges, AdminActs, AdminChanges, AdminChangesGroup
<1> QED BY <1>1, <1>2, <1>3, <1>4, <1>5, <1>6, <1>7, <1>8, <1>9, <1>10, <1>11, <1>12,
           SynchronizeCases DEF Next, AdminActs

\* What a step of main changes on the host was nobody's or is its own.
Untouched ==
    /\ \A u \in Users \ reused.users : account[u].by = "other" => account'[u] = account[u]
    /\ \A g \in Groups \ reused.groups : groups[g] = "other" => groups'[g] = groups[g]

LEMMA UntouchedStep ==
    ASSUME ForeignInv, NEW i \in Instances, Synchronize(i)
    PROVE  Untouched
<1>0. HostTypeOK /\ LocalTypeOK /\ NotClaimed /\ Targets
    BY TypeParts DEF ForeignInv
<1> USE <1>0 DEF Untouched, HostTypeOK, NotClaimed, UsersNotClaimed, GroupsNotClaimed
<1>1. CASE UNCHANGED host
    BY <1>1
<1>2. CASE ReadLists(i) \/ ReadFails(i) \/ WriteUsers(i) \/ WriteGroups(i) \/ RenameFails(i)
           \/ Kill(i)
    BY <1>2 DEF ReadLists, ReadFails, WriteUsers, WriteGroups, RenameFails, Kill
<1>3. ASSUME NEW u \in Users, RemoveUser(i, u) PROVE Untouched
    BY <1>3 DEF RemoveUser, Targets, DeletesUsers
<1>4. ASSUME NEW g \in Groups, RemoveGroup(i, g) PROVE Untouched
  <2>1. groups[g] # "other" \/ g \in reused.groups
      BY <1>4 DEF RemoveGroup, Targets, DeletesGroups
  <2>2. [OthersAccount EXCEPT !.in = @ \ {g}] = OthersAccount
      BY OthersInNone
  <2>3. \A u \in Users \ reused.users : account[u].by = "other" => account'[u] = account[u]
    <3>1. CASE account' = account
        BY <3>1
    <3>2. CASE account' = [v \in Users |-> [account[v] EXCEPT !.in = @ \ {g}]]
        BY <2>2, <3>2, Zenon
    <3> QED BY <1>4, <3>1, <3>2 DEF RemoveGroup
  <2>4. \A h \in Groups \ reused.groups : groups[h] = "other" => groups'[h] = groups[h]
      BY <1>4, <2>1 DEF RemoveGroup
  <2> QED BY <2>3, <2>4
<1>5. ASSUME NEW g \in Groups, AddGroup(i, g) PROVE Untouched
    BY <1>5 DEF AddGroup, HostGroups
<1>6. ASSUME NEW u \in Users, AddUser(i, u) PROVE Untouched
    BY <1>6 DEF AddUser, Accounts
<1>7. ASSUME NEW u \in Users, UpdateUser(i, u) PROVE Untouched
    BY <1>7 DEF UpdateUser, Targets
<1> QED BY <1>1, <1>2, <1>3, <1>4, <1>5, <1>6, <1>7, SynchronizeCases, PlansKeep

\* No step of a provisioner touches an account or a group that somebody else
\* made under a name in no list (sync_users.cpp, addUser, removeUser), even with
\* several of them at once and whatever the administrator does besides.
THEOREM OthersAreSafe == Spec => ForeignUntouched
<1>1. ForeignInv /\ [Next]_vars => ForeignInv'
    BY NotClaimedStep, TargetsStep, TypeStep DEF ForeignInv
<1>2. ForeignInv /\ [Next]_vars => [(\E i \in Instances : Synchronize(i)) => Untouched]_vars
    BY UntouchedStep
<1>3. Spec => [][(\E i \in Instances : Synchronize(i)) => Untouched]_vars
    BY ForeignInit, <1>1, <1>2, PTL DEF Spec
<1> QED BY <1>3 DEF ForeignUntouched, Untouched
-----------------------------------------------------------------------------
(* What the provisioner made is recorded. *)

\* The server's data are in order, and where there is no account there is nothing.
Shape ==
    /\ server \in ServerStates
    /\ \A u \in Users : account[u].by = "nobody" => account[u] = NoAccount

LEMMA NobodyInNone == \A g \in Groups : [NoAccount EXCEPT !.in = @ \ {g}] = NoAccount
<1>1. \A g \in Groups : {} \ {g} = {}
  OBVIOUS
<1>2. NoAccount.in = {}
  BY DEF NoAccount
<1> QED BY <1>1, <1>2, Zenon DEF NoAccount

\* The server's answers stay answers, and what is deleted leaves nothing.
LEMMA ShapeStep == ASSUME TypeOK, Shape, [Next]_vars PROVE Shape'
<1>0. HostTypeOK /\ LocalTypeOK
  BY TypeParts
<1> USE <1>0 DEF Shape, HostTypeOK
<1>1. CASE UNCHANGED <<account, server>>
  BY <1>1
<1>2. ASSUME NEW i \in Instances, Begin(i) \/ TakeLock(i) \/ Finish(i) \/ Kill(i)
      PROVE  UNCHANGED <<account, server>>
  BY <1>2 DEF Begin, TakeLock, Finish, Kill
<1>3. ASSUME NEW i \in Instances, Plans(i) PROVE UNCHANGED <<account, server>>
  <2>1. UNCHANGED account
    BY <1>3, PlansKeep
  <2>2. UNCHANGED server
    BY <1>3 DEF Plans, FetchGroups, FetchUsers, FetchFails, CommandFails, UsersDeleted, UsersWiped,
                GroupsDeleted, GroupsWiped, GroupsCreated, UsersCreated, UsersUpdated,
                NoDefaultGroup
  <2> QED BY <2>1, <2>2
<1>4. ASSUME NEW i \in Instances,
             ReadLists(i) \/ ReadFails(i) \/ WriteUsers(i) \/ WriteGroups(i) \/ RenameFails(i)
      PROVE  UNCHANGED <<account, server>>
  BY <1>4 DEF ReadLists, ReadFails, WriteUsers, WriteGroups, RenameFails
<1>5. ASSUME NEW i \in Instances, NEW u \in Users, RemoveUser(i, u) PROVE Shape'
  BY <1>5 DEF RemoveUser
<1>6. ASSUME NEW i \in Instances, NEW u \in Users, AddUser(i, u) PROVE Shape'
  BY <1>6 DEF AddUser, Placed
<1>7. ASSUME NEW i \in Instances, NEW u \in Users, UpdateUser(i, u) PROVE Shape'
  <2>1. UNCHANGED server
    BY <1>7 DEF UpdateUser
  <2>2. CASE account' = account
    BY <2>1, <2>2
  <2>3. CASE account' # account
    <3>1. /\ account' = [account EXCEPT ![u] = [Placed(i, u) EXCEPT !.by = account[u].by]]
          /\ account[u].by # "nobody"
      BY <1>7, <2>3 DEF UpdateUser, Accounts
    <3>2. account'[u].by # "nobody" /\ \A v \in Users \ {u} : account'[v] = account[v]
      BY <3>1 DEF Placed
    <3> QED BY <2>1, <3>2
  <2> QED BY <2>2, <2>3
<1>8. ASSUME NEW i \in Instances, NEW g \in Groups, RemoveGroup(i, g) PROVE Shape'
  <2>1. UNCHANGED server
    BY <1>8 DEF RemoveGroup
  <2>2. CASE account' = account
    BY <2>1, <2>2
  <2>3. CASE account' # account
    <3>1. account' = [v \in Users |-> [account[v] EXCEPT !.in = @ \ {g}]]
      BY <1>8, <2>3 DEF RemoveGroup
    <3>2. \A v \in Users : account'[v].by = account[v].by
      BY <3>1 DEF Account
    <3>3. \A v \in Users : account[v] = NoAccount => account'[v] = NoAccount
      BY <3>1, NobodyInNone, Zenon
    <3> QED BY <2>1, <3>2, <3>3
  <2> QED BY <2>2, <2>3
<1>9. ASSUME NEW i \in Instances, NEW g \in Groups, AddGroup(i, g)
      PROVE  UNCHANGED <<account, server>>
  BY <1>9 DEF AddGroup
<1>10. CASE ServerChanges
  BY <1>10 DEF ServerChanges
<1>11. ASSUME NEW u \in Users, AdminChanges(u) PROVE Shape'
  BY <1>11 DEF AdminChanges, NoAccount, OthersAccount
<1>13. ASSUME NEW g \in Groups, AdminChangesGroup(g) PROVE Shape'
  <2>1. \A u \in Users : account'[u].by = "nobody" => account'[u] = NoAccount
    <3>1. [NoAccount EXCEPT !.in = @ \ {g}] = NoAccount
      BY NobodyInNone
    <3>2. \A u \in Users : [account[u] EXCEPT !.in = @ \ {g}].by = account[u].by
      BY <1>0 DEF Account
    <3>3. CASE account' = account
      BY <1>0, <3>3
    <3>4. CASE account' = [u \in Users |-> [account[u] EXCEPT !.in = @ \ {g}]]
      BY <1>0, <3>1, <3>2, <3>4, Zenon
    <3> QED BY <1>13, <3>3, <3>4 DEF AdminChangesGroup
  <2> QED BY <1>13, <2>1 DEF AdminChangesGroup
<1>12. CASE UNCHANGED vars
  BY <1>12
<1> QED BY <1>1, <1>2, <1>3, <1>4, <1>5, <1>6, <1>7, <1>8, <1>9, <1>10, <1>11, <1>12, <1>13,
           SynchronizeCases DEF Next

\* What a provisioner has placed is there.
LEMMA OursExist ==
    ASSUME Shape, NEW u \in Users, Ours(u)
    PROVE  u \in Accounts
BY DEF Shape, Ours, Accounts, NoAccount

KnownInv == TypeOK /\ Targets /\ Shape /\ Owner /\ Known

LEMMA KnownInit == Init => KnownInv
<1> SUFFICES ASSUME Init PROVE KnownInv
    OBVIOUS
<1>1. Owner
    BY LockInitInv DEF Init, LockInv
<1>2. Known
    BY DEF Init, Known, Idle, UsersKnown, GroupsKnown, Ours, NoAccount, OthersAccount, LockInit
<1>3. Shape
    BY DEF Init, Shape, NoAccount, OthersAccount
<1> QED BY <1>1, <1>2, <1>3, ForeignInit DEF KnownInv, ForeignInv

\* As long as no two have been inside at once, whoever is inside is alone.
LEMMA Alone ==
    ASSUME KnownInv, ~raced, NEW i \in Instances, stage[i] = "inside"
    PROVE  \A j \in Instances \ {i} : ~HasUsers(j) /\ ~HasGroups(j)
BY DEF KnownInv, Known, Owner, Holding, HasUsers, HasGroups

\* A process outside is at the start of main, and doubt is remembered.
LEMMA IdleStep == KnownInv /\ [Next]_vars => Idle' /\ (doubt' => raced')
<1> SUFFICES ASSUME KnownInv, [Next]_vars PROVE Idle' /\ (doubt' => raced')
    OBVIOUS
<1>0. LockTypeOK /\ LocalTypeOK /\ Idle /\ (doubt => raced)
    BY TypeParts DEF KnownInv, Known
<1> USE <1>0 DEF Idle, LockTypeOK, LocalTypeOK, Holding
<1>1. CASE UNCHANGED <<lockVars, phase, raced>>
    BY <1>1
<1>2. ASSUME NEW i \in Instances, Begin(i) PROVE Idle' /\ (doubt' => raced')
    BY <1>2 DEF Begin, Launch, Move
<1>3. ASSUME NEW i \in Instances, TakeLock(i) PROVE Idle' /\ (doubt' => raced')
    BY <1>3 DEF TakeLock, Acquire, TestFile, Refuse, OpenFile, WritePid, LosePid, OpenFails, Move
<1>4. ASSUME NEW i \in Instances, Kill(i) PROVE Idle' /\ (doubt' => raced')
    BY <1>4 DEF Kill, Vanish, Forget, Move
<1>5. ASSUME NEW i \in Instances, Finish(i) PROVE Idle' /\ (doubt' => raced')
    BY <1>5 DEF Finish, Unlink, Forget, Move
<1>6. ASSUME NEW i \in Instances, Synchronize(i), ~Kill(i) PROVE Idle' /\ (doubt' => raced')
  <2>1. /\ UNCHANGED <<doubt, raced>>
        /\ \A j \in Instances \ {i} : stage'[j] = stage[j] /\ phase'[j] = phase[j]
        /\ stage'[i] \in {"inside", "unlink"}
    <3>1. CASE Plans(i)
        BY <3>1, PlansKeep
    <3>2. CASE ReadLists(i) \/ ReadFails(i)
        BY <3>2 DEF ReadLists, ReadFails, Leave, Move
    <3>3. ASSUME NEW u \in Users, RemoveUser(i, u) \/ AddUser(i, u) \/ UpdateUser(i, u)
          PROVE  stage[i] = "inside" /\ UNCHANGED <<lockVars, raced, phase>>
        BY <3>3 DEF RemoveUser, AddUser, UpdateUser
    <3>4. ASSUME NEW g \in Groups, RemoveGroup(i, g) \/ AddGroup(i, g)
          PROVE  stage[i] = "inside" /\ UNCHANGED <<lockVars, raced, phase>>
        BY <3>4 DEF RemoveGroup, AddGroup
    <3>5. CASE WriteUsers(i) \/ WriteGroups(i)
        BY <3>5 DEF WriteUsers, WriteGroups, Leave, Move
    <3>6. CASE RenameFails(i)
        BY <3>6 DEF RenameFails, Leave, Move
    <3> QED BY <1>6, <3>1, <3>2, <3>3, <3>4, <3>5, <3>6, SynchronizeCases
  <2> QED BY <2>1
<1>7. CASE ServerChanges \/ AdminActs \/ UNCHANGED vars
    BY <1>7 DEF ServerChanges, AdminActs, AdminChanges, AdminChangesGroup
<1> QED BY <1>1, <1>2, <1>3, <1>4, <1>5, <1>6, <1>7 DEF Next, AdminActs

\* What is known stays known under a step that keeps the host and the lists,
\* and moves main neither past the reading nor past the writing.
LEMMA KnownKept ==
    ASSUME UsersKnown, GroupsKnown, UNCHANGED <<lists, mine, untracked>>,
           \A u \in Users : Ours(u)' => Ours(u),
           \A g \in Groups : groups'[g] = "us" => groups[g] = "us",
           \A j \in Instances : HasUsers(j)' = HasUsers(j) /\ HasGroups(j)' = HasGroups(j)
    PROVE  UsersKnown' /\ GroupsKnown'
BY DEF UsersKnown, GroupsKnown

\* Steps that only one process, alone inside, can take.
LEMMA InsideStep ==
    ASSUME KnownInv, ~raced', NEW i \in Instances, Synchronize(i), ~Kill(i)
    PROVE  UsersKnown' /\ GroupsKnown'
<1>0. /\ LockTypeOK /\ LocalTypeOK /\ HostTypeOK /\ Idle /\ Targets /\ Shape
      /\ raced' = raced => UsersKnown /\ GroupsKnown
    BY TypeParts DEF KnownInv, Known
<1> USE <1>0 DEF LockTypeOK, LocalTypeOK, HostTypeOK
<1>1. CASE Plans(i)
  <2>1. ~raced
      BY <1>1, PlansKeep
  <2>2. \A j \in Instances : HasUsers(j)' = HasUsers(j) /\ HasGroups(j)' = HasGroups(j)
      BY <1>1, PlansKeep DEF HasUsers, HasGroups, Between
  <2>3. \A u \in Users : Ours(u)' => Ours(u)
      BY <1>1, PlansKeep DEF Ours
  <2> QED BY <1>1, <2>1, <2>2, <2>3, PlansKeep, KnownKept
<1>2. CASE ReadLists(i)
  <2>1. \A j \in Instances \ {i} : ~HasUsers(j)' /\ ~HasGroups(j)'
      BY <1>2, Alone DEF ReadLists, HasUsers, HasGroups
  <2>2. \A j \in Instances : ~HasUsers(j) /\ ~HasGroups(j)
      BY <1>2, Alone DEF ReadLists, HasUsers, HasGroups
  <2>3. HasUsers(i)' /\ HasGroups(i)'
      BY <1>2 DEF ReadLists, HasUsers, HasGroups
  <2>4. mine'[i].users = userList \cap Accounts /\ mine'[i].groups = groupList \cap HostGroups
      BY <1>2 DEF ReadLists
  <2>5. UNCHANGED <<host, lists, untracked, raced>>
      BY <1>2 DEF ReadLists
  <2>6. UsersKnown'
      BY <2>1, <2>2, <2>3, <2>4, <2>5, OursExist DEF UsersKnown, Ours
  <2>7. GroupsKnown'
      BY <2>1, <2>2, <2>3, <2>4, <2>5 DEF GroupsKnown, HostGroups
  <2> QED BY <2>6, <2>7
<1>3. CASE ReadFails(i)
  <2>1. \A j \in Instances : HasUsers(j)' = HasUsers(j) /\ HasGroups(j)' = HasGroups(j)
      BY <1>3 DEF ReadFails, Leave, Move, HasUsers, HasGroups
  <2>2. \A u \in Users : Ours(u)' => Ours(u)
      BY <1>3 DEF ReadFails, Ours
  <2> QED BY <1>3, <2>1, <2>2, KnownKept DEF ReadFails
<1>4. ASSUME NEW u \in Users, RemoveUser(i, u) \/ AddUser(i, u) \/ UpdateUser(i, u)
      PROVE  UsersKnown' /\ GroupsKnown'
  <2>1. /\ UNCHANGED <<groups, lists, lockVars, untracked, raced, phase>>
        /\ HasUsers(i) /\ HasGroups(i)
      BY <1>4 DEF RemoveUser, AddUser, UpdateUser, HasUsers, HasGroups
  <2>2. \A j \in Instances : HasUsers(j)' = HasUsers(j) /\ HasGroups(j)' = HasGroups(j)
      BY <2>1 DEF HasUsers, HasGroups
  <2>3. \A j \in Instances : j # i => ~HasUsers(j) /\ ~HasGroups(j)
      BY <2>1, Alone DEF HasUsers
  <2>4. \A j \in Instances : mine'[j].groups = mine[j].groups
    <3>1. CASE RemoveUser(i, u)
        BY <3>1 DEF RemoveUser
    <3>2. CASE AddUser(i, u)
        BY <3>2 DEF AddUser
    <3>3. CASE UpdateUser(i, u)
        BY <3>3 DEF UpdateUser
    <3> QED BY <1>4, <3>1, <3>2, <3>3
  <2>5. \A v \in Users : Ours(v)' =>
           \/ Ours(v) /\ (v \in mine[i].users => v \in mine'[i].users)
           \/ v \in mine'[i].users
    <3>1. CASE RemoveUser(i, u)
      <4>1. CASE u \in Accounts
        <5>1. ~Ours(u)' /\ \A v \in Users \ {u} : account'[v] = account[v]
            BY <3>1, <4>1 DEF RemoveUser, NoAccount, Ours
        <5>2. mine'[i].users = mine[i].users \ {u}
            BY <3>1, <4>1 DEF RemoveUser
        <5> QED BY <5>1, <5>2 DEF Ours
      <4>2. CASE u \notin Accounts
          BY <3>1, <4>2 DEF RemoveUser, Ours
      <4> QED BY <4>1, <4>2
    <3>2. CASE AddUser(i, u)
        BY <3>2 DEF AddUser, Ours
    <3>3. CASE UpdateUser(i, u)
      <4>1. u \in mine'[i].users /\ mine' = mine
          BY <3>3 DEF UpdateUser, Targets
      <4>2. \A v \in Users \ {u} : account'[v] = account[v]
          BY <3>3 DEF UpdateUser
      <4> QED BY <4>1, <4>2 DEF Ours
    <3> QED BY <1>4, <3>1, <3>2, <3>3
  <2>6. UsersKnown'
      BY <2>1, <2>2, <2>3, <2>5 DEF UsersKnown
  <2>7. GroupsKnown'
      BY <2>1, <2>2, <2>4 DEF GroupsKnown
  <2> QED BY <2>6, <2>7
<1>5. ASSUME NEW g \in Groups, RemoveGroup(i, g) \/ AddGroup(i, g)
      PROVE  UsersKnown' /\ GroupsKnown'
  <2>1. /\ UNCHANGED <<lists, lockVars, untracked, raced, phase>>
        /\ HasUsers(i) /\ HasGroups(i)
      BY <1>5 DEF RemoveGroup, AddGroup, HasUsers, HasGroups
  <2>2. \A j \in Instances : HasUsers(j)' = HasUsers(j) /\ HasGroups(j)' = HasGroups(j)
      BY <2>1 DEF HasUsers, HasGroups
  <2>3. \A j \in Instances : j # i => ~HasUsers(j) /\ ~HasGroups(j)
      BY <2>1, Alone DEF HasUsers
  <2>4. \A j \in Instances : mine'[j].users = mine[j].users
    <3>1. \/ mine' = mine
          \/ \E gs : mine' = [mine EXCEPT ![i].groups = gs]
        BY <1>5, Zenon DEF RemoveGroup, AddGroup
    <3>2. ASSUME NEW gs, mine' = [mine EXCEPT ![i].groups = gs]
          PROVE  \A j \in Instances : mine'[j].users = mine[j].users
        BY <3>2
    <3> QED BY <3>1, <3>2
  <2>5. \A v \in Users : account'[v].first = account[v].first
    <3>1. CASE RemoveGroup(i, g)
        BY <3>1 DEF RemoveGroup, Account
    <3>2. CASE AddGroup(i, g)
        BY <3>2 DEF AddGroup
    <3> QED BY <1>5, <3>1, <3>2
  <2>6. \A h \in Groups : groups'[h] = "us" =>
           \/ groups[h] = "us" /\ (h \in mine[i].groups => h \in mine'[i].groups)
           \/ h \in mine'[i].groups
    <3>1. CASE RemoveGroup(i, g)
        BY <3>1 DEF RemoveGroup
    <3>2. CASE AddGroup(i, g)
        BY <3>2 DEF AddGroup
    <3> QED BY <1>5, <3>1, <3>2
  <2>7. UsersKnown'
      BY <2>1, <2>2, <2>4, <2>5 DEF UsersKnown, Ours
  <2>8. GroupsKnown'
      BY <2>1, <2>2, <2>3, <2>6 DEF GroupsKnown
  <2> QED BY <2>7, <2>8
<1>6. CASE WriteUsers(i)
  <2>1. /\ UNCHANGED <<host, groupList, mine, lockVars, untracked, raced>>
        /\ userList' = mine[i].users
        /\ HasUsers(i) /\ HasGroups(i)
      BY <1>6 DEF WriteUsers, HasUsers, HasGroups
  <2>2. /\ \A j \in Instances : HasGroups(j)' = HasGroups(j)
        /\ \A j \in Instances : ~HasUsers(j)'
      BY <1>6, Alone DEF WriteUsers, HasUsers, HasGroups
  <2> QED BY <2>1, <2>2 DEF UsersKnown, GroupsKnown, Ours
<1>7. CASE WriteGroups(i)
  <2>1. /\ UNCHANGED <<host, userList, mine, untracked, raced>>
        /\ groupList' = mine[i].groups
        /\ HasGroups(i)
      BY <1>7 DEF WriteGroups, HasGroups
  <2>2. /\ \A j \in Instances : HasUsers(j)' = HasUsers(j)
        /\ \A j \in Instances : ~HasGroups(j)'
      BY <1>7, Alone DEF WriteGroups, Leave, Move, HasUsers, HasGroups
  <2> QED BY <2>1, <2>2 DEF UsersKnown, GroupsKnown, Ours
<1>8. CASE RenameFails(i)
  <2>1. CASE phase[i] = "writeUsers"
    <3>1. /\ UNCHANGED <<host, lists, mine, lockVars, raced>>
          /\ untracked' = untracked \cup (mine[i].users \ userList)
          /\ HasUsers(i) /\ HasGroups(i)
        BY <1>8, <2>1 DEF RenameFails, HasUsers, HasGroups
    <3>2. /\ \A j \in Instances : HasGroups(j)' = HasGroups(j)
          /\ \A j \in Instances : ~HasUsers(j)'
        BY <1>8, <2>1, Alone DEF RenameFails, HasUsers, HasGroups
    <3> QED BY <3>1, <3>2 DEF UsersKnown, GroupsKnown, Ours
  <2>2. CASE phase[i] # "writeUsers"
    <3>1. /\ UNCHANGED <<host, lists, mine, raced>>
          /\ untracked' = untracked \cup (mine[i].groups \ groupList)
          /\ HasGroups(i)
        BY <1>8, <2>2 DEF RenameFails, HasGroups
    <3>2. /\ \A j \in Instances : HasUsers(j)' = HasUsers(j)
          /\ \A j \in Instances : ~HasGroups(j)'
        BY <1>8, <2>2, Alone DEF RenameFails, Leave, Move, HasUsers, HasGroups
    <3> QED BY <3>1, <3>2 DEF UsersKnown, GroupsKnown, Ours
  <2> QED BY <2>1, <2>2
<1> QED BY <1>1, <1>2, <1>3, <1>4, <1>5, <1>6, <1>7, <1>8, SynchronizeCases

\* What a killed process had not written is no longer counted on.
LEMMA KnownStep == KnownInv /\ [Next]_vars => Known'
<1> SUFFICES ASSUME KnownInv, [Next]_vars PROVE Known'
    OBVIOUS
<1>1. Idle' /\ (doubt' => raced')
    BY IdleStep
<1> SUFFICES ASSUME ~raced' PROVE UsersKnown' /\ GroupsKnown'
    BY <1>1 DEF Known
<1>0. /\ LockTypeOK /\ LocalTypeOK /\ HostTypeOK /\ Idle /\ Targets /\ Shape
      /\ raced' = raced => UsersKnown /\ GroupsKnown
    BY TypeParts DEF KnownInv, Known
<1> USE <1>0 DEF LockTypeOK, LocalTypeOK, HostTypeOK
<1>2. CASE UNCHANGED vars
  <2>1. \A j \in Instances : HasUsers(j)' = HasUsers(j) /\ HasGroups(j)' = HasGroups(j)
      BY <1>2 DEF HasUsers, HasGroups
  <2>2. \A u \in Users : Ours(u)' => Ours(u)
      BY <1>2 DEF Ours
  <2> QED BY <1>2, <2>1, <2>2, KnownKept
<1>3. ASSUME NEW i \in Instances, Begin(i) PROVE UsersKnown' /\ GroupsKnown'
  <2>1. \A j \in Instances : HasUsers(j)' = HasUsers(j) /\ HasGroups(j)' = HasGroups(j)
      BY <1>3 DEF Begin, Launch, Move, HasUsers, HasGroups
  <2>2. \A u \in Users : Ours(u)' => Ours(u)
      BY <1>3 DEF Begin, Ours
  <2> QED BY <1>3, <2>1, <2>2, KnownKept DEF Begin
<1>4. ASSUME NEW i \in Instances, TakeLock(i) PROVE UsersKnown' /\ GroupsKnown'
  <2>1. /\ ~raced /\ UNCHANGED <<host, lists, mine, untracked, phase>>
      BY <1>4 DEF TakeLock
  <2>2. phase[i] = "read" /\ \A j \in Instances \ {i} : stage'[j] = stage[j]
      BY <1>4 DEF TakeLock, Acquire, TestFile, Refuse, OpenFile, WritePid, LosePid, OpenFails,
                  Move, Idle, Holding
  <2>3. \A j \in Instances : HasUsers(j)' = HasUsers(j) /\ HasGroups(j)' = HasGroups(j)
      BY <2>1, <2>2 DEF HasUsers, HasGroups
  <2>4. \A u \in Users : Ours(u)' => Ours(u)
      BY <2>1 DEF Ours
  <2> QED BY <2>1, <2>3, <2>4, KnownKept DEF KnownInv, Known
<1>5. ASSUME NEW i \in Instances, Kill(i) PROVE UsersKnown' /\ GroupsKnown'
  <2>1. /\ UNCHANGED <<host, lists, raced>>
        /\ untracked' = untracked \cup (mine[i].users \ userList) \cup (mine[i].groups \ groupList)
        /\ \A j \in Instances \ {i} : mine'[j] = mine[j]
      BY <1>5 DEF Kill, Forget, Unrecorded
  <2>2. /\ ~HasUsers(i)' /\ ~HasGroups(i)'
        /\ \A j \in Instances \ {i} : HasUsers(j)' = HasUsers(j) /\ HasGroups(j)' = HasGroups(j)
      BY <1>5 DEF Kill, Vanish, Forget, Move, HasUsers, HasGroups
  <2>3. UsersKnown /\ GroupsKnown
      BY <2>1
  <2>4. ASSUME NEW u \in Users \ untracked', Ours(u)'
        PROVE  /\ (\A j \in Instances : ~HasUsers(j)') => u \in userList'
               /\ \A j \in Instances : HasUsers(j)' => u \in mine'[j].users
    <3>1. /\ (\A j \in Instances : ~HasUsers(j)) => u \in userList
          /\ \A j \in Instances : HasUsers(j) => u \in mine[j].users
        BY <2>1, <2>3, <2>4 DEF UsersKnown, Ours
    <3>2. u \in mine[i].users => u \in userList
        BY <2>1, <2>4
    <3> QED BY <2>1, <2>2, <3>1, <3>2
  <2>5. ASSUME NEW g \in Groups \ untracked', groups'[g] = "us"
        PROVE  /\ (\A j \in Instances : ~HasGroups(j)') => g \in groupList'
               /\ \A j \in Instances : HasGroups(j)' => g \in mine'[j].groups
    <3>1. /\ (\A j \in Instances : ~HasGroups(j)) => g \in groupList
          /\ \A j \in Instances : HasGroups(j) => g \in mine[j].groups
        BY <2>1, <2>3, <2>5 DEF GroupsKnown
    <3>2. g \in mine[i].groups => g \in groupList
        BY <2>1, <2>5
    <3> QED BY <2>1, <2>2, <3>1, <3>2
  <2> QED BY <2>4, <2>5 DEF UsersKnown, GroupsKnown, Ours
<1>6. ASSUME NEW i \in Instances, Finish(i) PROVE UsersKnown' /\ GroupsKnown'
  <2>1. /\ UNCHANGED <<host, lists, untracked, raced>>
        /\ \A j \in Instances \ {i} : mine'[j] = mine[j]
      BY <1>6 DEF Finish, Forget
  <2>2. /\ ~HasUsers(i) /\ ~HasGroups(i)
        /\ \A j \in Instances : HasUsers(j)' = HasUsers(j) /\ HasGroups(j)' = HasGroups(j)
      BY <1>6 DEF Finish, Unlink, Forget, Move, HasUsers, HasGroups
  <2>3. UsersKnown /\ GroupsKnown
      BY <2>1
  <2>4. \A j \in Instances : HasUsers(j) \/ HasGroups(j) => mine'[j] = mine[j]
      BY <2>1, <2>2
  <2>5. UsersKnown'
      BY <2>1, <2>2, <2>3, <2>4 DEF UsersKnown, Ours
  <2>6. GroupsKnown'
      BY <2>1, <2>2, <2>3, <2>4 DEF GroupsKnown
  <2> QED BY <2>5, <2>6
<1>7. ASSUME NEW i \in Instances, Synchronize(i) PROVE UsersKnown' /\ GroupsKnown'
    BY <1>5, <1>7, InsideStep
<1>8. CASE ServerChanges \/ AdminActs
  <2>1. UNCHANGED <<lists, local, lockVars, untracked, raced>>
      BY <1>8 DEF ServerChanges, AdminActs, AdminChanges, AdminChangesGroup
  <2>2. \A v \in Users : Ours(v)' => Ours(v)
    <3>1. CASE ServerChanges
        BY <3>1 DEF ServerChanges, Ours
    <3>2. ASSUME NEW u \in Users, AdminChanges(u) PROVE \A v \in Users : Ours(v)' => Ours(v)
        BY <3>2 DEF AdminChanges, NoAccount, OthersAccount, Ours
    <3>3. ASSUME NEW g \in Groups, AdminChangesGroup(g)
          PROVE  \A v \in Users : Ours(v)' => Ours(v)
        BY <3>3 DEF AdminChangesGroup, Ours, Account
    <3> QED BY <1>8, <3>1, <3>2, <3>3 DEF AdminActs
  <2>3. \A h \in Groups : groups'[h] = "us" => groups[h] = "us"
      BY <1>8 DEF ServerChanges, AdminActs, AdminChanges, AdminChangesGroup
  <2>4. \A j \in Instances : HasUsers(j)' = HasUsers(j) /\ HasGroups(j)' = HasGroups(j)
      BY <2>1 DEF HasUsers, HasGroups
  <2> QED BY <2>1, <2>2, <2>3, <2>4, KnownKept
<1> QED BY <1>2, <1>3, <1>4, <1>5, <1>6, <1>7, <1>8 DEF Next, AdminActs

LEMMA KnownInvStep == KnownInv /\ [Next]_vars => KnownInv'
<1> HAVE KnownInv /\ [Next]_vars
<1>1. TypeOK' /\ Targets' /\ Shape' /\ Known'
    BY TypeStep, TargetsStep, ShapeStep, KnownStep DEF KnownInv
<1>2. LockInv
    BY TypeParts DEF KnownInv, LockInv
<1>3. Owner'
    BY <1>2, LockStep, OwnerStep
<1> QED BY <1>1, <1>3 DEF KnownInv

\* "It is very important that we not lose track of this data"
\* (sync_users.cpp, ~SystemState): between runs, all that the provisioner made
\* is in its lists, but for what a killed process had not written.
THEOREM NothingLost == Spec => []Tracked
<1>1. KnownInv => Tracked
  <2>1. ASSUME KnownInv, NEW u \in Users, account[u].by = "us" PROVE Ours(u)
      BY <2>1, TypeParts, ProvisionerAssumption DEF KnownInv, HostTypeOK, Ours
  <2> QED BY <2>1 DEF KnownInv, Known, UsersKnown, GroupsKnown, Tracked, Holding, HasUsers,
                      HasGroups
<1> QED BY KnownInit, KnownInvStep, <1>1, PTL DEF Spec

-----------------------------------------------------------------------------
(***************************************************************************)
(* What two undisturbed runs come to.                                      *)
(***************************************************************************)
Writing == {"writeUsers", "writeGroups"}

\* The account is as the server says.
Right(u) ==
    /\ u \in server.users /\ server.in[u] # {}
    /\ account[u] = [by |-> account[u].by, first |-> Lowest(server.in[u]), in |-> server.in[u]]

\* After one run: what is there is right, and what has to be there first is.
Settled ==
    /\ \A u \in Users : Ours(u) => Right(u)
    /\ server.groups \subseteq HostGroups

\* After another one: what is not right is gone, and nothing is missing.
Agrees ==
    /\ Settled
    /\ \A u \in server.users \ ServiceAccounts : account[u].by # "nobody"
    /\ \A g \in Groups : groups[g] = "us" => g \in server.groups

\* What a run means to do, once it has asked the server.
OnPlan(i) ==
    /\ phase[i] \notin {"wipeUsers", "wipeGroups"}
    /\ stage[i] = "unlink" => phase[i] = "writeGroups"
    /\ phase[i] = "fetchUsers" => expected[i].groups = server.groups
    /\ phase[i] = "deleteUsers" \/ AfterDeletion(i) => expected[i] = server
    /\ phase[i] = "deleteUsers" => todo[i] \subseteq Users \ server.users
    /\ phase[i] = "deleteGroups" => todo[i] \subseteq Groups \ server.groups
    /\ phase[i] = "createGroups" => todo[i] \subseteq server.groups
    /\ phase[i] = "createUsers" => todo[i] \subseteq server.users \ ServiceAccounts
    /\ phase[i] = "updateUsers" => todo[i] \subseteq server.users
    /\ AfterDeletion(i) => toUpdate[i] \subseteq server.users

\* What it has done so far.
Did(i) ==
    /\ phase[i] = "deleteUsers" => \A u \in Users : Ours(u) => u \in server.users \cup todo[i]
    /\ phase[i] \in {"deleteGroups", "createGroups", "createUsers"} =>
          \A u \in Users : Ours(u) => u \in toUpdate[i] \/ Right(u)
    /\ phase[i] = "createGroups" => server.groups \subseteq HostGroups \cup todo[i]
    /\ phase[i] \in {"createUsers", "updateUsers"} => server.groups \subseteq HostGroups
    /\ phase[i] = "updateUsers" => \A u \in Users : Ours(u) => u \in todo[i] \/ Right(u)
    /\ phase[i] \in Writing => Settled

\* What it has done beyond, if it found things settled.
DidAgain(i) ==
    /\ phase[i] = "deleteGroups" =>
          \A g \in Groups : groups[g] = "us" => g \in server.groups \cup todo[i]
    /\ phase[i] \in {"createGroups", "createUsers", "updateUsers"} =>
          \A g \in Groups : groups[g] = "us" => g \in server.groups
    /\ phase[i] = "createUsers" =>
          \A u \in server.users \ ServiceAccounts : account[u].by # "nobody" \/ u \in todo[i]
    /\ phase[i] = "updateUsers" =>
          \A u \in server.users \ ServiceAccounts : account[u].by # "nobody"
    /\ phase[i] \in Writing => Agrees

\* The lists a process has read name nothing that is not there.
GroupsThere == \A i \in Instances : HasGroups(i) => mine[i].groups \subseteq HostGroups
UsersThere == \A i \in Instances : HasUsers(i) => mine[i].users \subseteq Accounts

Steady == agreed.still \/ agreed.runs > 0

Converges ==
    /\ Steady => GroupsThere /\ \A i \in Instances : Holding(i) => OnPlan(i) /\ Did(i)
    /\ agreed.runs > 0 =>
          UsersThere /\ Settled /\ \A i \in Instances : Holding(i) => DidAgain(i)
    /\ agreed.runs = 2 => Agrees

Trusted == ~raced /\ untracked = {}

ConvergedInv == KnownInv /\ ForeignInv /\ Shape /\ (Trusted => Converges)

\* History only grows.
LEMMA TrustKept == ASSUME TypeOK, [Next]_vars PROVE Trusted' => Trusted
<1>0. LocalTypeOK
  BY TypeParts
<1>1. untracked \subseteq untracked' /\ (raced => raced')
  <2>1. ASSUME NEW i \in Instances, Begin(i) \/ TakeLock(i) \/ Finish(i)
        PROVE  untracked \subseteq untracked' /\ (raced => raced')
    <3>1. CASE Begin(i) \/ Finish(i)
      BY <3>1 DEF Begin, Finish
    <3>2. CASE TakeLock(i)
      <4>1. untracked' = untracked
        BY <3>2 DEF TakeLock
      <4>2. raced' = (raced \/ doubt')
        BY <3>2, Zenon DEF TakeLock
      <4> QED BY <4>1, <4>2
    <3> QED BY <2>1, <3>1, <3>2
  <2>2. ASSUME NEW i \in Instances, Kill(i) PROVE untracked \subseteq untracked' /\ raced' = raced
    BY <2>2 DEF Kill
  <2>3. ASSUME NEW i \in Instances, Synchronize(i), ~Kill(i)
        PROVE  untracked \subseteq untracked' /\ raced' = raced
    <3>1. CASE Plans(i)
      BY <1>0, <3>1, PlansKeep
    <3>2. CASE ReadLists(i) \/ ReadFails(i) \/ WriteUsers(i) \/ WriteGroups(i)
      BY <3>2 DEF ReadLists, ReadFails, WriteUsers, WriteGroups
    <3>3. CASE RenameFails(i)
      BY <3>3 DEF RenameFails
    <3>4. ASSUME NEW u \in Users, RemoveUser(i, u) \/ AddUser(i, u) \/ UpdateUser(i, u)
          PROVE  UNCHANGED <<untracked, raced>>
      BY <3>4 DEF RemoveUser, AddUser, UpdateUser
    <3>5. ASSUME NEW g \in Groups, RemoveGroup(i, g) \/ AddGroup(i, g)
          PROVE  UNCHANGED <<untracked, raced>>
      BY <3>5 DEF RemoveGroup, AddGroup
    <3> QED BY <2>3, <3>1, <3>2, <3>3, <3>4, <3>5, SynchronizeCases
  <2>4. CASE ServerChanges \/ AdminActs \/ UNCHANGED vars
    BY <2>4 DEF ServerChanges, AdminActs, AdminChanges, AdminChangesGroup
  <2> QED BY <2>1, <2>2, <2>3, <2>4 DEF Next, AdminActs
<1> QED BY <1>1 DEF Trusted

\* Who holds the lock is alone.
LEMMA OneInside ==
    ASSUME KnownInv, ~raced, NEW i \in Instances, Holding(i)
    PROVE  \A j \in Instances \ {i} : ~Holding(j)
BY DEF KnownInv, Known, Owner

\* What there is to know of the process inside.
LEMMA InsideFacts ==
    ASSUME ConvergedInv, Trusted, NEW i \in Instances, stage[i] = "inside"
    PROVE  /\ LocalTypeOK /\ HostTypeOK /\ Holding(i) /\ \A j \in Instances \ {i} : ~Holding(j)
           /\ Steady => OnPlan(i) /\ Did(i)
           /\ agreed.runs > 0 => Steady /\ UsersThere /\ Settled /\ DidAgain(i)
           /\ agreed.runs = 2 => Agrees
           /\ HasUsers(i) => \A u \in Users : Ours(u) => u \in mine[i].users
           /\ HasUsers(i) /\ agreed.runs > 0 => mine[i].users \subseteq Accounts
           /\ HasGroups(i) => \A g \in Groups : groups[g] = "us" => g \in mine[i].groups
           /\ HasGroups(i) /\ Steady => mine[i].groups \subseteq HostGroups
<1>1. KnownInv /\ Converges /\ ~raced /\ untracked = {}
  BY DEF ConvergedInv, Trusted
<1>2. LocalTypeOK /\ HostTypeOK /\ UsersKnown /\ GroupsKnown
  BY <1>1, TypeParts DEF KnownInv, Known
<1>3. Holding(i)
  BY DEF Holding
<1>4. \A j \in Instances \ {i} : ~Holding(j)
  BY <1>1, <1>3, OneInside
<1>5. Steady => OnPlan(i) /\ Did(i)
  BY <1>1, <1>3 DEF Converges
<1>6. agreed.runs > 0 => Steady /\ UsersThere /\ Settled /\ DidAgain(i)
  BY <1>1, <1>3 DEF Converges, Steady
<1>7. agreed.runs = 2 => Agrees
  BY <1>1 DEF Converges
<1>8. HasUsers(i) => \A u \in Users : Ours(u) => u \in mine[i].users
  BY <1>1, <1>2 DEF UsersKnown, Ours
<1>9. HasUsers(i) /\ agreed.runs > 0 => mine[i].users \subseteq Accounts
  BY <1>6 DEF UsersThere
<1>10. HasGroups(i) => \A g \in Groups : groups[g] = "us" => g \in mine[i].groups
  BY <1>1, <1>2 DEF GroupsKnown
<1>11. HasGroups(i) /\ Steady => mine[i].groups \subseteq HostGroups
  BY <1>1 DEF Converges, GroupsThere
<1> QED BY <1>2, <1>3, <1>4, <1>5, <1>6, <1>7, <1>8, <1>9, <1>10, <1>11

\* What such a process has to show after a step.
LEMMA InsideReduces ==
    ASSUME ConvergedInv, Trusted, NEW i \in Instances, stage[i] = "inside",
           \A j \in Instances \ {i} : stage'[j] = stage[j],
           Steady' => GroupsThere' /\ OnPlan(i)' /\ Did(i)',
           agreed'.runs > 0 => UsersThere' /\ Settled' /\ DidAgain(i)',
           agreed'.runs = 2 => Agrees'
    PROVE  Converges'
<1>1. \A j \in Instances : Holding(j)' => j = i
  BY InsideFacts DEF Holding
<1>2. Steady' => \A j \in Instances : Holding(j)' => OnPlan(j)' /\ Did(j)'
  BY <1>1
<1>3. agreed'.runs > 0 => \A j \in Instances : Holding(j)' => DidAgain(j)'
  BY <1>1
<1> QED BY <1>2, <1>3 DEF Converges

LEMMA Unsteady == ASSUME ~Steady' PROVE Converges'
BY DEF Converges, Steady

LEMMA Disturbed == ASSUME Disturb PROVE ~Steady'
BY DEF Disturb, Steady

LEMMA GroupsThereKept ==
    ASSUME GroupsThere, UNCHANGED groups,
           \A j \in Instances : HasGroups(j)' => HasGroups(j) /\ mine'[j].groups = mine[j].groups
    PROVE  GroupsThere'
<1>1. HostGroups' = HostGroups
  BY DEF HostGroups
<1> QED BY <1>1 DEF GroupsThere

LEMMA UsersThereKept ==
    ASSUME UsersThere, Accounts \subseteq Accounts',
           \A j \in Instances : HasUsers(j)' => HasUsers(j) /\ mine'[j].users = mine[j].users
    PROVE  UsersThere'
BY DEF UsersThere

LEMMA HostKept ==
    ASSUME UNCHANGED <<host, server>>
    PROVE  /\ Settled => Settled'
           /\ Agrees => Agrees'
           /\ \A u \in Users : (Right(u) => Right(u)') /\ (Ours(u)' => Ours(u))
           /\ HostGroups' = HostGroups /\ Accounts' = Accounts
<1>1. \A u \in Users : (Right(u) => Right(u)') /\ (Ours(u)' => Ours(u))
  BY DEF Right, Ours
<1>2. HostGroups' = HostGroups /\ Accounts' = Accounts
  BY DEF HostGroups, Accounts
<1>3. Settled => Settled'
  BY <1>1, <1>2 DEF Settled
<1>4. Agrees => Agrees'
  BY <1>3 DEF Agrees
<1> QED BY <1>1, <1>2, <1>3, <1>4

\* What one command does to one account.
LEMMA AccountKept ==
    ASSUME UNCHANGED server, NEW u, account'[u] = account[u]
    PROVE  (Right(u) => Right(u)') /\ (Ours(u)' => Ours(u))
BY DEF Right, Ours

\* What has just been read from the lists is there.
LEMMA ListsRead ==
    ASSUME KnownInv, ~raced, NEW i \in Instances, ReadLists(i)
    PROVE  GroupsThere'
<1>0. LocalTypeOK
  BY TypeParts DEF KnownInv
<1>1. \A j \in Instances \ {i} : ~HasGroups(j)'
  BY <1>0, Alone DEF ReadLists, HasGroups, LocalTypeOK
<1>2. mine'[i].groups = groupList \cap HostGroups /\ HostGroups' = HostGroups
  BY <1>0 DEF ReadLists, HostGroups, LocalTypeOK
<1> QED BY <1>1, <1>2 DEF GroupsThere

LEMMA GroupsStay ==
    ASSUME KnownInv, ~raced, GroupsThere, [Next]_vars, ~AdminActs PROVE GroupsThere'
<1>0. /\ LocalTypeOK /\ LockTypeOK /\ GroupsThere /\ KnownInv /\ ~raced
      /\ \A j \in Instances : ~Holding(j) => phase[j] = "read"
  BY TypeParts DEF KnownInv, Known, Idle
<1> USE <1>0 DEF LocalTypeOK, LockTypeOK
<1>1. ASSUME NEW i \in Instances, Begin(i) PROVE GroupsThere'
  BY <1>1, GroupsThereKept DEF Begin, Launch, Move, HasGroups
<1>2. ASSUME NEW i \in Instances, TakeLock(i) PROVE GroupsThere'
  <2>1. \A j \in Instances : HasGroups(j)' => HasGroups(j)
    BY <1>2 DEF TakeLock, Acquire, TestFile, Refuse, OpenFile, WritePid, LosePid, OpenFails,
                Move, HasGroups, Holding
  <2> QED BY <1>2, <2>1, GroupsThereKept DEF TakeLock
<1>3. ASSUME NEW i \in Instances, Finish(i) PROVE GroupsThere'
  <2>1. \A j \in Instances : HasGroups(j)' => HasGroups(j) /\ mine'[j].groups = mine[j].groups
    BY <1>3 DEF Finish, Unlink, Forget, Move, HasGroups
  <2> QED BY <1>3, <2>1, GroupsThereKept DEF Finish
<1>4. ASSUME NEW i \in Instances, Kill(i) PROVE GroupsThere'
  <2>1. \A j \in Instances : HasGroups(j)' => HasGroups(j) /\ mine'[j].groups = mine[j].groups
    BY <1>4 DEF Kill, Vanish, Forget, Move, HasGroups
  <2> QED BY <1>4, <2>1, GroupsThereKept DEF Kill
<1>5. ASSUME NEW i \in Instances, Plans(i) PROVE GroupsThere'
  <2>1. \A j \in Instances : HasGroups(j)' => HasGroups(j)
    BY <1>5, PlansKeep DEF HasGroups, Between
  <2> QED BY <1>5, <2>1, PlansKeep, GroupsThereKept
<1>6. ASSUME NEW i \in Instances, ReadLists(i) PROVE GroupsThere'
  BY <1>6, ListsRead
<1>7. ASSUME NEW i \in Instances, ReadFails(i) \/ WriteGroups(i) \/ WriteUsers(i)
      PROVE  GroupsThere'
  <2>1. \A j \in Instances : HasGroups(j)' => HasGroups(j)
    BY <1>7 DEF ReadFails, WriteGroups, WriteUsers, Leave, Move, HasGroups
  <2> QED BY <1>7, <2>1, GroupsThereKept DEF ReadFails, WriteGroups, WriteUsers
<1>8. ASSUME NEW i \in Instances, RenameFails(i) PROVE GroupsThere'
  <2>1. \A j \in Instances : HasGroups(j)' => HasGroups(j)
    BY <1>8 DEF RenameFails, Leave, Move, HasGroups
  <2> QED BY <1>8, <2>1, GroupsThereKept DEF RenameFails
<1>9. ASSUME NEW i \in Instances, NEW u \in Users,
             RemoveUser(i, u) \/ AddUser(i, u) \/ UpdateUser(i, u)
      PROVE  GroupsThere'
  <2>1. \A j \in Instances : mine'[j].groups = mine[j].groups
    <3>1. CASE RemoveUser(i, u)
      BY <3>1 DEF RemoveUser
    <3>2. CASE AddUser(i, u)
      BY <3>2 DEF AddUser
    <3>3. CASE UpdateUser(i, u)
      BY <3>3 DEF UpdateUser
    <3> QED BY <1>9, <3>1, <3>2, <3>3
  <2>2. UNCHANGED <<groups, lockVars, phase>>
    BY <1>9 DEF RemoveUser, AddUser, UpdateUser
  <2> QED BY <2>1, <2>2, GroupsThereKept DEF HasGroups
<1>10. ASSUME NEW i \in Instances, NEW g \in Groups, RemoveGroup(i, g) \/ AddGroup(i, g)
       PROVE  GroupsThere'
  <2>1. UNCHANGED <<lockVars, phase>> /\ HasGroups(i)
    BY <1>10 DEF RemoveGroup, AddGroup, HasGroups
  <2>2. \A j \in Instances : HasGroups(j)' => j = i
    BY <2>1, Alone DEF HasGroups
  <2>3. mine[i].groups \subseteq HostGroups /\ mine[i].groups \subseteq Groups
    BY <2>1 DEF GroupsThere
  <2>4. \A h \in mine'[i].groups : groups'[h] # "nobody" /\ h \in Groups
    <3>1. CASE UNCHANGED <<groups, mine>>
      BY <2>3, <3>1 DEF HostGroups
    <3>2. CASE RemoveGroup(i, g) /\ ~UNCHANGED <<groups, mine>>
      <4>1. groups' = [groups EXCEPT ![g] = "nobody"] /\ mine'[i].groups = mine[i].groups \ {g}
        BY <3>2 DEF RemoveGroup
      <4> QED BY <2>3, <4>1 DEF HostGroups
    <3>3. CASE AddGroup(i, g) /\ ~UNCHANGED <<groups, mine>>
      <4>1. groups' = [groups EXCEPT ![g] = "us"] /\ mine'[i].groups = mine[i].groups \cup {g}
        BY <3>3 DEF AddGroup
      <4>2. groups \in [Groups -> Makers]
        BY TypeParts DEF KnownInv, HostTypeOK
      <4> QED BY <2>3, <4>1, <4>2 DEF HostGroups
    <3> QED BY <1>10, <3>1, <3>2, <3>3
  <2> QED BY <2>2, <2>4 DEF GroupsThere, HostGroups
<1>11. CASE ServerChanges \/ UNCHANGED vars
  <2>1. UNCHANGED <<groups, lockVars, phase, mine>>
    BY <1>11 DEF ServerChanges
  <2> QED BY <2>1, GroupsThereKept DEF HasGroups
<1> QED BY <1>1, <1>2, <1>3, <1>4, <1>5, <1>6, <1>7, <1>8, <1>9, <1>10, <1>11, SynchronizeCases
        DEF Next, AdminActs

\* A run counts from the reading of its lists.
LEMMA SteadyBefore ==
    ASSUME TypeOK, [Next]_vars, Steady', \A i \in Instances : ~ReadLists(i)
    PROVE  Steady /\ ~AdminActs
<1>1. ~Disturb
  BY Disturbed
<1>2. ASSUME NEW i \in Instances, Begin(i) \/ TakeLock(i) PROVE agreed' = agreed
  BY <1>2 DEF Begin, TakeLock, history
<1>3. ASSUME NEW i \in Instances, Finish(i) PROVE Steady
  <2>1. agreed.still \/ agreed' = [runs |-> 0, still |-> FALSE]
    BY <1>3, Zenon DEF Finish
  <2> QED BY <2>1 DEF Steady
<1>4. ASSUME NEW i \in Instances, Plans(i) PROVE agreed' = agreed
  <2>1. ~(FetchFails(i) \/ CommandFails(i) \/ NoDefaultGroup(i))
    BY <1>1 DEF FetchFails, CommandFails, NoDefaultGroup
  <2>2. CASE FetchGroups(i) \/ FetchUsers(i) \/ UsersDeleted(i) \/ UsersWiped(i)
    BY <2>2 DEF FetchGroups, FetchUsers, UsersDeleted, UsersWiped
  <2>3. CASE GroupsDeleted(i) \/ GroupsWiped(i) \/ GroupsCreated(i)
    BY <2>3 DEF GroupsDeleted, GroupsWiped, GroupsCreated
  <2>4. CASE UsersCreated(i) \/ UsersUpdated(i)
    BY <2>4 DEF UsersCreated, UsersUpdated
  <2> QED BY <1>4, <2>1, <2>2, <2>3, <2>4 DEF Plans
<1>5. ASSUME NEW i \in Instances, NEW u \in Users,
             RemoveUser(i, u) \/ AddUser(i, u) \/ UpdateUser(i, u)
      PROVE  agreed' = agreed
  BY <1>5 DEF RemoveUser, AddUser, UpdateUser
<1>6. ASSUME NEW i \in Instances, NEW g \in Groups, RemoveGroup(i, g) \/ AddGroup(i, g)
      PROVE  agreed' = agreed
  BY <1>6 DEF RemoveGroup, AddGroup
<1>7. ASSUME NEW i \in Instances, WriteUsers(i) \/ WriteGroups(i) PROVE agreed' = agreed
  BY <1>7 DEF WriteUsers, WriteGroups, history
<1>8. \A i \in Instances : ~(Kill(i) \/ ReadFails(i) \/ RenameFails(i))
  BY <1>1 DEF Kill, ReadFails, RenameFails
<1>9. ~(ServerChanges \/ AdminActs)
  BY <1>1 DEF ServerChanges, AdminActs, AdminChanges, AdminChangesGroup
<1>10. CASE UNCHANGED vars
  BY <1>9, <1>10 DEF vars, history, Steady
<1>11. agreed' = agreed => Steady
  BY DEF Steady
<1> QED BY <1>2, <1>3, <1>4, <1>5, <1>6, <1>7, <1>8, <1>9, <1>10, <1>11, SynchronizeCases
        DEF Next, AdminActs

LEMMA GroupsThereStep ==
    ASSUME ConvergedInv, Trusted, [Next]_vars PROVE Steady' => GroupsThere'
<1> HAVE Steady'
<1>0. KnownInv /\ ~raced /\ TypeOK
  BY DEF ConvergedInv, Trusted, KnownInv
<1>1. CASE \E i \in Instances : ReadLists(i)
  BY <1>0, <1>1, ListsRead
<1>2. CASE \A i \in Instances : ~ReadLists(i)
  <2>1. Steady /\ ~AdminActs
    BY <1>0, <1>2, SteadyBefore
  <2>2. GroupsThere
    BY <2>1 DEF ConvergedInv, Converges
  <2> QED BY <1>0, <2>1, <2>2, GroupsStay
<1> QED BY <1>1, <1>2

LEMMA DisturbStep == ASSUME ConvergedInv, Trusted, [Next]_vars, Disturb PROVE Converges'
BY Disturbed, Unsteady

\* Steps that change neither the host nor the lists: what they have to show.
LEMMA PlansReduce ==
    ASSUME ConvergedInv, Trusted, [Next]_vars, NEW i \in Instances, Plans(i),
           UNCHANGED server, agreed'.runs = agreed.runs,
           Steady' => OnPlan(i)' /\ Did(i)',
           agreed.runs > 0 => DidAgain(i)'
    PROVE  Converges'
<1>1. stage[i] = "inside" /\ UNCHANGED <<host, mine, lockVars>> /\ LocalTypeOK
  BY PlansKeep, InsideFacts, TypeParts DEF ConvergedInv, KnownInv
<1>2. /\ agreed.runs > 0 => UsersThere /\ Settled
      /\ agreed.runs = 2 => Agrees
  BY <1>1, InsideFacts
<1>3. \A j \in Instances : HasUsers(j)' => HasUsers(j)
  BY <1>1, PlansKeep DEF HasUsers, Between
<1>4. agreed.runs > 0 => UsersThere' /\ Settled'
  BY <1>1, <1>2, <1>3, UsersThereKept, HostKept
<1>5. agreed.runs = 2 => Agrees'
  BY <1>1, <1>2, HostKept
<1>6. \A j \in Instances \ {i} : stage'[j] = stage[j]
  BY <1>1
<1> QED BY <1>1, <1>4, <1>5, <1>6, GroupsThereStep, InsideReduces

LEMMA PlansStep ==
    ASSUME ConvergedInv, Trusted, [Next]_vars, NEW i \in Instances, Plans(i)
    PROVE  Converges'
<1>0. /\ stage[i] = "inside" /\ UNCHANGED <<host, mine, lockVars>>
      /\ LocalTypeOK
  BY PlansKeep, InsideFacts, TypeParts DEF ConvergedInv, KnownInv
<1>1. /\ Steady => OnPlan(i) /\ Did(i)
      /\ agreed.runs > 0 => Steady /\ DidAgain(i)
      /\ HasUsers(i) => \A u \in Users : Ours(u) => u \in mine[i].users
      /\ HasUsers(i) /\ agreed.runs > 0 => mine[i].users \subseteq Accounts
      /\ HasGroups(i) => \A g \in Groups : groups[g] = "us" => g \in mine[i].groups
      /\ HasGroups(i) /\ Steady => mine[i].groups \subseteq HostGroups
  BY <1>0, InsideFacts
<1>2. /\ mine[i].users \subseteq Users /\ mine[i].groups \subseteq Groups
      /\ server.groups \subseteq Groups /\ server.users \subseteq Users
  BY <1>0 DEF LocalTypeOK, Answers
<1>3. CASE FetchFails(i) \/ CommandFails(i) \/ NoDefaultGroup(i)
  BY <1>3, DisturbStep DEF FetchFails, CommandFails, NoDefaultGroup
<1>4. CASE UsersWiped(i) \/ GroupsWiped(i)
  <2>1. ~Steady /\ UNCHANGED agreed
    BY <1>1, <1>4 DEF UsersWiped, GroupsWiped, OnPlan
  <2>2. ~Steady'
    BY <2>1 DEF Steady
  <2> QED BY <2>2, Unsteady
<1> USE DEF OnPlan, AfterDeletion
<1>5. CASE FetchGroups(i)
  <2>1. UNCHANGED server /\ agreed'.runs = agreed.runs
    BY <1>0, <1>5 DEF FetchGroups, LocalTypeOK, Agreements
  <2>2. phase'[i] = "fetchUsers" /\ stage'[i] = "inside" /\ expected'[i].groups = server'.groups
    BY <1>0, <1>5 DEF FetchGroups, LocalTypeOK, Answers
  <2>3. OnPlan(i)' /\ Did(i)' /\ DidAgain(i)'
    BY <2>2 DEF Did, DidAgain, Writing
  <2> QED BY <2>1, <2>3, PlansReduce
<1>6. CASE FetchUsers(i)
  <2>1. UNCHANGED <<server, agreed>>
    BY <1>6 DEF FetchUsers
  <2>2. /\ phase[i] = "fetchUsers" /\ phase'[i] = "deleteUsers" /\ stage'[i] = "inside"
        /\ todo'[i] = mine[i].users \ server.users
    BY <1>0, <1>6 DEF FetchUsers, LocalTypeOK
  <2>3. Steady => expected'[i] = server
    BY <1>0, <1>1, <1>6 DEF FetchUsers, LocalTypeOK, Answers
  <2>4. Steady => OnPlan(i)'
    BY <1>2, <2>1, <2>2, <2>3
  <2>5. Did(i)' /\ DidAgain(i)'
    BY <1>0, <1>1, <2>1, <2>2 DEF Did, DidAgain, Writing, HasUsers, Ours
  <2> QED BY <2>1, <2>4, <2>5, PlansReduce DEF Steady
<1>7. CASE UsersDeleted(i)
  <2>1. UNCHANGED <<server, agreed, expected>>
    BY <1>7 DEF UsersDeleted
  <2>2. /\ phase[i] = "deleteUsers" /\ phase'[i] = "deleteGroups" /\ stage'[i] = "inside"
        /\ todo[i] = {} /\ todo'[i] = mine[i].groups \ expected[i].groups
        /\ toUpdate'[i] = expected[i].users \cap mine[i].users
    BY <1>0, <1>7 DEF UsersDeleted, LocalTypeOK
  <2>3. Steady => OnPlan(i)'
    BY <1>1, <1>2, <2>1, <2>2
  <2>4. Steady => Did(i)'
    BY <1>0, <1>1, <2>1, <2>2 DEF Did, Writing, HasUsers, Ours
  <2>5. agreed.runs > 0 => DidAgain(i)'
    BY <1>0, <1>1, <2>1, <2>2 DEF DidAgain, Writing, HasGroups
  <2> QED BY <2>1, <2>3, <2>4, <2>5, PlansReduce DEF Steady
<1>8. CASE GroupsDeleted(i)
  <2>1. UNCHANGED <<server, agreed, expected, toUpdate>>
    BY <1>8 DEF GroupsDeleted
  <2>2. /\ phase[i] = "deleteGroups" /\ phase'[i] = "createGroups" /\ stage'[i] = "inside"
        /\ todo[i] = {} /\ todo'[i] = expected[i].groups \ mine[i].groups
    BY <1>0, <1>8 DEF GroupsDeleted, LocalTypeOK
  <2>3. Steady => OnPlan(i)'
    BY <1>1, <1>2, <2>1, <2>2
  <2>4. Steady => Did(i)'
    BY <1>0, <1>1, <2>1, <2>2, HostKept DEF Did, Writing, HasGroups
  <2>5. agreed.runs > 0 => DidAgain(i)'
    BY <1>0, <1>1, <2>1, <2>2 DEF DidAgain, Writing
  <2> QED BY <2>1, <2>3, <2>4, <2>5, PlansReduce DEF Steady
<1>9. CASE GroupsCreated(i)
  <2>1. UNCHANGED <<server, agreed, expected, toUpdate>>
    BY <1>9 DEF GroupsCreated
  <2>2. /\ phase[i] = "createGroups" /\ phase'[i] = "createUsers" /\ stage'[i] = "inside"
        /\ todo[i] = {}
        /\ todo'[i] = (expected[i].users \ mine[i].users) \ ServiceAccounts
    BY <1>0, <1>9 DEF GroupsCreated, LocalTypeOK
  <2>3. Steady => OnPlan(i)'
    BY <1>1, <1>2, <2>1, <2>2
  <2>4. Steady => Did(i)'
    BY <1>0, <1>1, <2>1, <2>2, HostKept DEF Did, Writing
  <2>5. agreed.runs > 0 => DidAgain(i)'
    BY <1>0, <1>1, <2>1, <2>2 DEF DidAgain, Writing, HasUsers, Accounts
  <2> QED BY <2>1, <2>3, <2>4, <2>5, PlansReduce DEF Steady
<1>10. CASE UsersCreated(i)
  <2>1. UNCHANGED <<server, agreed, expected, toUpdate>>
    BY <1>10 DEF UsersCreated
  <2>2. /\ phase[i] = "createUsers" /\ phase'[i] = "updateUsers" /\ stage'[i] = "inside"
        /\ todo[i] = {} /\ todo'[i] = toUpdate[i]
    BY <1>0, <1>10 DEF UsersCreated, LocalTypeOK
  <2>3. Steady => OnPlan(i)'
    BY <1>1, <1>2, <2>1, <2>2
  <2>4. Steady => Did(i)'
    BY <1>0, <1>1, <2>1, <2>2, HostKept DEF Did, Writing
  <2>5. agreed.runs > 0 => DidAgain(i)'
    BY <1>0, <1>1, <2>1, <2>2 DEF DidAgain, Writing
  <2> QED BY <2>1, <2>3, <2>4, <2>5, PlansReduce DEF Steady
<1>11. CASE UsersUpdated(i)
  <2>1. UNCHANGED <<server, agreed>>
    BY <1>11 DEF UsersUpdated
  <2>2. /\ phase[i] = "updateUsers" /\ phase'[i] = "writeUsers" /\ stage'[i] = "inside"
        /\ todo[i] = {}
    BY <1>0, <1>11 DEF UsersUpdated, LocalTypeOK
  <2>3. OnPlan(i)'
    BY <2>2
  <2>4. Steady => Settled
    BY <1>1, <2>2 DEF Did, Settled
  <2>5. agreed.runs > 0 => Agrees
    BY <1>1, <2>2, <2>4 DEF DidAgain, Agrees
  <2>6. Steady => Did(i)'
    BY <1>0, <2>1, <2>2, <2>4, HostKept DEF Did, Writing
  <2>7. agreed.runs > 0 => DidAgain(i)'
    BY <1>0, <2>1, <2>2, <2>5, HostKept DEF DidAgain, Writing
  <2> QED BY <2>1, <2>3, <2>6, <2>7, PlansReduce DEF Steady
<1> QED BY <1>3, <1>4, <1>5, <1>6, <1>7, <1>8, <1>9, <1>10, <1>11 DEF Plans

LEMMA ReadListsStep ==
    ASSUME ConvergedInv, Trusted, [Next]_vars, NEW i \in Instances, ReadLists(i)
    PROVE  Converges'
<1>0. LocalTypeOK
  BY TypeParts DEF ConvergedInv, KnownInv
<1>1. CASE Disturb
  BY <1>1, DisturbStep
<1>2. CASE ~Disturb
  <2>1. /\ UNCHANGED <<host, server, lockVars>> /\ stage[i] = "inside"
        /\ phase'[i] = "fetchGroups" /\ mine'[i].users \subseteq Accounts
        /\ agreed'.runs = agreed.runs
    BY <1>0, <1>2 DEF ReadLists, LocalTypeOK, Agreements
  <2>2. OnPlan(i)' /\ Did(i)' /\ DidAgain(i)'
    BY <2>1 DEF OnPlan, AfterDeletion, Did, DidAgain, Writing
  <2>3. \A j \in Instances : HasUsers(j)' => j = i
    BY <2>1, InsideFacts DEF HasUsers, Holding
  <2>4. UsersThere'
    BY <2>1, <2>3, HostKept DEF UsersThere
  <2>5. (agreed.runs > 0 => Settled') /\ (agreed.runs = 2 => Agrees')
    BY <2>1, InsideFacts, HostKept
  <2> QED BY <2>1, <2>2, <2>4, <2>5, GroupsThereStep, InsideReduces
<1> QED BY <1>1, <1>2

\* Steps that deal with one account: what they have to show.
LEMMA UserReduces ==
    ASSUME ConvergedInv, Trusted, [Next]_vars, Steady, NEW i \in Instances, stage[i] = "inside",
           UNCHANGED <<groups, lockVars, server, phase, agreed, expected, toUpdate>>,
           todo'[i] \subseteq todo[i],
           \A v \in Users : Ours(v)' => Right(v)' \/ (Ours(v) /\ (Right(v) => Right(v)')),
           \A v \in server.users : account[v].by # "nobody" => account'[v].by # "nobody",
           agreed.runs > 0 => mine'[i].users \subseteq Accounts',
           phase[i] \notin Writing,
           Did(i)', agreed.runs > 0 => DidAgain(i)'
    PROVE  Converges'
<1>1. /\ OnPlan(i) /\ Did(i) /\ LocalTypeOK
      /\ agreed.runs > 0 => Settled
      /\ agreed.runs = 2 => Agrees
  BY InsideFacts
<1>2. OnPlan(i)'
  BY <1>1 DEF OnPlan, AfterDeletion
<1>3. \A j \in Instances : HasUsers(j)' => j = i
  BY InsideFacts DEF HasUsers, Holding
<1>4. agreed.runs > 0 => UsersThere'
  BY <1>3 DEF UsersThere
<1>5. HostGroups' = HostGroups
  BY DEF HostGroups
<1>6. Settled => Settled'
  BY <1>5 DEF Settled
<1>7. Agrees => Agrees'
  <2>1. server.users \subseteq Users
    BY <1>1 DEF LocalTypeOK, Answers
  <2> QED BY <1>6, <2>1 DEF Agrees
<1> QED BY <1>1, <1>2, <1>4, <1>6, <1>7, GroupsThereStep, InsideReduces

LEMMA RemoveUserStep ==
    ASSUME ConvergedInv, Trusted, [Next]_vars,
           NEW i \in Instances, NEW u \in Users, RemoveUser(i, u)
    PROVE  Converges'
<1>0. /\ stage[i] = "inside"
      /\ UNCHANGED <<groups, lockVars, server, phase, agreed, expected, toUpdate>>
  BY DEF RemoveUser
<1>1. CASE ~Steady
  BY <1>0, <1>1, Unsteady DEF Steady
<1>2. CASE Steady
  <2>1. /\ LocalTypeOK /\ HostTypeOK /\ OnPlan(i) /\ Did(i)
        /\ HasUsers(i) /\ agreed.runs > 0 => mine[i].users \subseteq Accounts
    BY <1>0, <1>2, InsideFacts
  <2>2. phase[i] = "deleteUsers" /\ u \notin server.users
    BY <2>1 DEF RemoveUser, OnPlan
  <2>3. todo'[i] = todo[i] \ {u} /\ \A v \in Users \ {u} : account'[v] = account[v]
    BY <2>1 DEF RemoveUser, LocalTypeOK, HostTypeOK
  <2>5. ~Ours(u)'
    <3>1. CASE u \notin Accounts
      <4>1. account'[u] = account[u] /\ account[u] = NoAccount
        BY <3>1 DEF RemoveUser, Accounts, ConvergedInv, Shape
      <4> QED BY <4>1 DEF Ours, NoAccount
    <3> QED BY <2>1, <3>1 DEF RemoveUser, NoAccount, HostTypeOK, Ours
  <2>6. \A v \in Users \ {u} : (Right(v) => Right(v)') /\ (Ours(v)' => Ours(v))
    BY <1>0, <2>3, AccountKept
  <2>7. agreed.runs > 0 => mine'[i].users \subseteq Accounts'
    <3>1. HasUsers(i)
      BY <1>0, <2>2 DEF HasUsers
    <3>2. CASE u \in Accounts
      <4>1. mine'[i].users = mine[i].users \ {u}
        BY <2>1, <3>2 DEF RemoveUser, LocalTypeOK
      <4> QED BY <2>1, <2>3, <3>1, <4>1 DEF Accounts
    <3>3. CASE u \notin Accounts
      BY <2>1, <3>1, <3>3 DEF RemoveUser, Accounts
    <3> QED BY <3>2, <3>3
  <2>8. Did(i)'
    BY <1>0, <2>1, <2>2, <2>3, <2>5, <2>6 DEF Did, Writing
  <2>9. DidAgain(i)'
    BY <1>0, <2>2 DEF DidAgain, Writing
  <2>10. \A v \in server.users : account'[v] = account[v]
    BY <2>1, <2>2, <2>3 DEF LocalTypeOK, Answers
  <2> QED BY <1>0, <1>2, <2>2, <2>3, <2>5, <2>6, <2>7, <2>8, <2>9, <2>10, UserReduces DEF Writing
<1> QED BY <1>1, <1>2

LEMMA PlacedIsRight ==
    ASSUME ConvergedInv, NEW i \in Instances, NEW u \in Users, OnPlan(i), Did(i),
           phase[i] \in {"createUsers", "updateUsers"}, expected[i].in[u] # {}
    PROVE  /\ Placeable(i, u) /\ server.in[u] # {}
           /\ Placed(i, u) = [by |-> "us", first |-> Lowest(server.in[u]), in |-> server.in[u]]
<1>1. expected[i] = server
  BY DEF OnPlan, AfterDeletion
<1>2. server.in[u] \subseteq server.groups
  BY DEF ConvergedInv, Shape, ServerStates
<1>3. server.groups \subseteq HostGroups
  BY DEF Did
<1> QED BY <1>1, <1>2, <1>3 DEF Placeable, Placed

LEMMA AddUserStep ==
    ASSUME ConvergedInv, Trusted, [Next]_vars,
           NEW i \in Instances, NEW u \in Users, AddUser(i, u)
    PROVE  Converges'
<1>0. /\ stage[i] = "inside" /\ phase[i] = "createUsers"
      /\ UNCHANGED <<groups, lockVars, server, phase, agreed, expected, toUpdate>>
  BY DEF AddUser
<1>1. CASE ~Steady
  BY <1>0, <1>1, Unsteady DEF Steady
<1>2. CASE Steady
  <2>1. /\ LocalTypeOK /\ HostTypeOK /\ OnPlan(i) /\ Did(i)
        /\ agreed.runs > 0 => DidAgain(i) /\ mine[i].users \subseteq Accounts
    BY <1>0, <1>2, InsideFacts DEF HasUsers
  <2>2. /\ Placeable(i, u) /\ server.in[u] # {} /\ u \in server.users
        /\ Placed(i, u) = [by |-> "us", first |-> Lowest(server.in[u]), in |-> server.in[u]]
    BY <1>0, <2>1, PlacedIsRight DEF AddUser, OnPlan
  <2>3. todo'[i] = todo[i] \ {u} /\ \A v \in Users \ {u} : account'[v] = account[v]
    BY <2>1 DEF AddUser, LocalTypeOK, HostTypeOK
  <2>4. account'[u].by # "nobody" /\ (Right(u)' \/ account'[u] = account[u])
    <3>1. CASE u \notin Accounts
      <4>1. account'[u] = Placed(i, u)
        BY <2>1, <2>2, <3>1 DEF AddUser, HostTypeOK
      <4> QED BY <1>0, <2>2, <4>1 DEF Right
    <3>2. CASE u \in Accounts
      BY <3>2 DEF AddUser, Accounts
    <3> QED BY <3>1, <3>2
  <2>5. \A v \in Users : Ours(v)' => Right(v)' \/ (Ours(v) /\ (Right(v) => Right(v)'))
    BY <1>0, <2>3, <2>4, AccountKept
  <2>6. mine'[i].users \subseteq mine[i].users \cup {u}
    BY <2>1 DEF AddUser, LocalTypeOK
  <2>7. agreed.runs > 0 => mine'[i].users \subseteq Accounts'
    BY <2>1, <2>3, <2>4, <2>6 DEF Accounts
  <2>8. HostGroups' = HostGroups
    BY <1>0 DEF HostGroups
  <2>9. Did(i)'
    BY <1>0, <2>1, <2>5, <2>8 DEF Did, Writing
  <2>10. agreed.runs > 0 => DidAgain(i)'
    BY <1>0, <2>1, <2>3, <2>4 DEF DidAgain, Writing, LocalTypeOK, Answers
  <2>11. \A v \in server.users : account[v].by # "nobody" => account'[v].by # "nobody"
    BY <2>1, <2>3, <2>4 DEF LocalTypeOK, Answers
  <2> QED BY <1>0, <1>2, <2>3, <2>5, <2>7, <2>9, <2>10, <2>11, UserReduces DEF Writing
<1> QED BY <1>1, <1>2

LEMMA UpdateUserStep ==
    ASSUME ConvergedInv, Trusted, [Next]_vars,
           NEW i \in Instances, NEW u \in Users, UpdateUser(i, u)
    PROVE  Converges'
<1>0. /\ stage[i] = "inside" /\ phase[i] = "updateUsers"
      /\ UNCHANGED <<groups, lockVars, server, phase, agreed, expected, toUpdate, mine>>
  BY DEF UpdateUser
<1>1. CASE ~Steady
  BY <1>0, <1>1, Unsteady DEF Steady
<1>2. CASE Steady
  <2>1. /\ LocalTypeOK /\ HostTypeOK /\ OnPlan(i) /\ Did(i)
        /\ agreed.runs > 0 => DidAgain(i) /\ mine[i].users \subseteq Accounts
    BY <1>0, <1>2, InsideFacts DEF HasUsers
  <2>2. /\ Placeable(i, u) /\ server.in[u] # {} /\ u \in server.users
        /\ Placed(i, u) = [by |-> "us", first |-> Lowest(server.in[u]), in |-> server.in[u]]
    BY <1>0, <2>1, PlacedIsRight DEF UpdateUser, OnPlan
  <2>3. todo'[i] = todo[i] \ {u} /\ \A v \in Users \ {u} : account'[v] = account[v]
    BY <2>1 DEF UpdateUser, LocalTypeOK, HostTypeOK
  <2>4. account[u].by # "nobody" => Right(u)' /\ account'[u].by # "nobody"
    <3> SUFFICES ASSUME account[u].by # "nobody" PROVE Right(u)' /\ account'[u].by # "nobody"
      OBVIOUS
    <3>1. account'[u] = [Placed(i, u) EXCEPT !.by = account[u].by]
      BY <2>1, <2>2 DEF UpdateUser, Accounts, HostTypeOK
    <3>2. account'[u] = [by |-> account[u].by, first |-> Lowest(server.in[u]),
                         in |-> server.in[u]]
      BY <2>2, <3>1
    <3>3. account'[u].by = account[u].by
      BY <3>2, SMT
    <3> QED BY <1>0, <2>2, <3>2, <3>3 DEF Right
  <2>5. account[u].by = "nobody" => account'[u] = account[u] /\ account[u] = NoAccount
    BY DEF UpdateUser, Accounts, ConvergedInv, Shape
  <2>6. Ours(u)' => Right(u)'
    BY <2>4, <2>5 DEF Ours, NoAccount
  <2>7. \A v \in Users \ {u} : (Right(v) => Right(v)') /\ (Ours(v)' => Ours(v))
    BY <1>0, <2>3, AccountKept
  <2>8. \A v \in Users : account[v].by # "nobody" => account'[v].by # "nobody"
    BY <2>3, <2>4
  <2>9. agreed.runs > 0 => mine'[i].users \subseteq Accounts'
    BY <1>0, <2>1, <2>8 DEF Accounts
  <2>10. HostGroups' = HostGroups
    BY <1>0 DEF HostGroups
  <2>11. Did(i)'
    BY <1>0, <2>1, <2>3, <2>6, <2>7, <2>10 DEF Did, Writing
  <2>12. agreed.runs > 0 => DidAgain(i)'
    BY <1>0, <2>1, <2>8 DEF DidAgain, Writing, LocalTypeOK, Answers
  <2>13. \A v \in server.users : account[v].by # "nobody" => account'[v].by # "nobody"
    BY <2>1, <2>8 DEF LocalTypeOK, Answers
  <2> QED BY <1>0, <1>2, <2>3, <2>6, <2>7, <2>9, <2>11, <2>12, <2>13, UserReduces DEF Writing
<1> QED BY <1>1, <1>2

\* Steps that deal with one group: what they have to show.
LEMMA GroupReduces ==
    ASSUME ConvergedInv, Trusted, [Next]_vars, Steady, NEW i \in Instances, stage[i] = "inside",
           UNCHANGED <<lockVars, server, phase, agreed, expected, toUpdate>>,
           todo'[i] \subseteq todo[i], \A j \in Instances : mine'[j].users = mine[j].users,
           \A v \in Users : account'[v].by = account[v].by /\ account'[v].first = account[v].first,
           \A v \in Users : Right(v) => Right(v)',
           server.groups \cap HostGroups \subseteq HostGroups',
           \A h \in Groups : groups'[h] = "us" => groups[h] = "us" \/ h \in server.groups,
           phase[i] \notin Writing,
           Did(i)', agreed.runs > 0 => DidAgain(i)'
    PROVE  Converges'
<1>1. /\ OnPlan(i) /\ Did(i) /\ LocalTypeOK
      /\ agreed.runs > 0 => Settled /\ UsersThere
      /\ agreed.runs = 2 => Agrees
  BY InsideFacts
<1>2. OnPlan(i)'
  BY <1>1 DEF OnPlan, AfterDeletion
<1>3. Accounts' = Accounts
  BY DEF Accounts
<1>4. agreed.runs > 0 => UsersThere'
  BY <1>1, <1>3, UsersThereKept DEF HasUsers
<1>5. Settled => Settled'
  BY DEF Settled, Ours
<1>6. Agrees => Agrees'
  <2>1. server.users \subseteq Users
    BY <1>1 DEF LocalTypeOK, Answers
  <2> QED BY <1>5, <2>1 DEF Agrees
<1> QED BY <1>1, <1>2, <1>4, <1>5, <1>6, GroupsThereStep, InsideReduces

\* A group that the server does not name is in no account that is right.
LEMMA RightNeedsNone ==
    ASSUME ConvergedInv, NEW v \in Users, Right(v), NEW g \in Groups \ server.groups
    PROVE  account[v].first # g /\ [account[v] EXCEPT !.in = @ \ {g}] = account[v]
<1>1. server.in[v] \subseteq server.groups /\ server.groups \subseteq Groups
  BY DEF ConvergedInv, Shape, ServerStates, Answers
<1>2. Lowest(server.in[v]) \in server.in[v]
  <2>1. server.in[v] \subseteq Nat
    BY <1>1, ProvisionerAssumption
  <2> QED BY <2>1, LowestIsMember DEF Right
<1>3. account[v] = [by |-> account[v].by, first |-> Lowest(server.in[v]), in |-> server.in[v]]
  BY DEF Right
<1>4. server.in[v] \ {g} = server.in[v]
  BY <1>1
<1>5. [account[v] EXCEPT !.in = @ \ {g}]
         = [by |-> account[v].by, first |-> Lowest(server.in[v]), in |-> server.in[v] \ {g}]
  BY <1>3, SMT
<1>6. account[v].first = Lowest(server.in[v])
  BY <1>3, SMT
<1> QED BY <1>1, <1>2, <1>3, <1>4, <1>5, <1>6

\* Once things are settled, groupdel has no reason to refuse.
LEMMA NothingInTheWay ==
    ASSUME ConvergedInv, Settled, NEW g \in Groups \ server.groups
    PROVE  \A v \in Users : account[v].first # g
<1> TAKE v \in Users
<1>1. g # 0
  BY ProvisionerAssumption
<1>2. CASE Ours(v)
  BY <1>2, RightNeedsNone DEF Settled
<1> QED BY <1>1, <1>2 DEF Ours

LEMMA RemoveGroupStep ==
    ASSUME ConvergedInv, Trusted, [Next]_vars,
           NEW i \in Instances, NEW g \in Groups, RemoveGroup(i, g)
    PROVE  Converges'
<1>0. /\ stage[i] = "inside"
      /\ UNCHANGED <<lockVars, server, phase, agreed, expected, toUpdate>>
  BY DEF RemoveGroup
<1>1. CASE ~Steady
  BY <1>0, <1>1, Unsteady DEF Steady
<1>2. CASE Steady
  <2>1. /\ LocalTypeOK /\ HostTypeOK /\ OnPlan(i) /\ Did(i)
        /\ agreed.runs > 0 => DidAgain(i) /\ Settled
    BY <1>0, <1>2, InsideFacts
  <2>2. phase[i] = "deleteGroups" /\ g \notin server.groups
    BY <2>1 DEF RemoveGroup, OnPlan
  <2>3. todo'[i] = todo[i] \ {g} /\ \A j \in Instances : mine'[j].users = mine[j].users
    BY <2>1 DEF RemoveGroup, LocalTypeOK
  <2>4. \A v \in Users : account'[v].by = account[v].by /\ account'[v].first = account[v].first
    BY <2>1 DEF RemoveGroup, HostTypeOK, Account
  <2>5. \A v \in Users : Right(v) => Right(v)'
    <3> SUFFICES ASSUME NEW v \in Users, Right(v) PROVE Right(v)'
      OBVIOUS
    <3>1. [account[v] EXCEPT !.in = @ \ {g}] = account[v]
      BY <2>2, RightNeedsNone
    <3>2. account'[v] = account[v] \/ account'[v] = [account[v] EXCEPT !.in = @ \ {g}]
      <4>1. CASE account' = account
        BY <4>1
      <4>2. CASE account' = [w \in Users |-> [account[w] EXCEPT !.in = @ \ {g}]]
        BY <4>2, Zenon
      <4> QED BY <4>1, <4>2 DEF RemoveGroup
    <3>3. account'[v] = account[v]
      BY <3>1, <3>2
    <3> QED BY <1>0, <3>3, AccountKept
  <2>6. \A h \in Groups \ {g} : groups'[h] = groups[h]
    BY <2>1 DEF RemoveGroup, HostTypeOK
  <2>7. groups'[g] = "us" => groups[g] = "us"
    BY <2>1 DEF RemoveGroup, HostTypeOK
  <2>8. agreed.runs > 0 => groups'[g] # "us"
    <3> SUFFICES ASSUME agreed.runs > 0, groups[g] = "us" PROVE groups'[g] = "nobody"
      BY <2>7
    <3>1. g \in HostGroups
      BY DEF HostGroups
    <3>2. \A v \in Users : account[v].first # g
      BY <2>1, <2>2, NothingInTheWay
    <3> QED BY <2>1, <3>1, <3>2 DEF RemoveGroup, HostTypeOK
  <2>9. server.groups \cap HostGroups \subseteq HostGroups'
    BY <2>2, <2>6 DEF HostGroups
  <2>10. Did(i)'
    BY <1>0, <2>1, <2>2, <2>4, <2>5 DEF Did, Writing, Ours
  <2>11. agreed.runs > 0 => DidAgain(i)'
    BY <1>0, <2>1, <2>2, <2>3, <2>6, <2>8 DEF DidAgain, Writing
  <2>12. \A h \in Groups : groups'[h] = "us" => groups[h] = "us" \/ h \in server.groups
    BY <2>6, <2>7
  <2> QED BY <1>0, <1>2, <2>2, <2>3, <2>4, <2>5, <2>9, <2>10, <2>11, <2>12, GroupReduces
          DEF Writing
<1> QED BY <1>1, <1>2

LEMMA AddGroupStep ==
    ASSUME ConvergedInv, Trusted, [Next]_vars,
           NEW i \in Instances, NEW g \in Groups, AddGroup(i, g)
    PROVE  Converges'
<1>0. /\ stage[i] = "inside" /\ phase[i] = "createGroups"
      /\ UNCHANGED <<account, lockVars, server, phase, agreed, expected, toUpdate>>
  BY DEF AddGroup
<1>1. CASE ~Steady
  BY <1>0, <1>1, Unsteady DEF Steady
<1>2. CASE Steady
  <2>1. /\ LocalTypeOK /\ HostTypeOK /\ OnPlan(i) /\ Did(i)
        /\ agreed.runs > 0 => DidAgain(i)
    BY <1>0, <1>2, InsideFacts
  <2>2. g \in server.groups /\ server.groups \subseteq Groups
    BY <1>0, <2>1 DEF AddGroup, OnPlan, LocalTypeOK, Answers
  <2>3. todo'[i] = todo[i] \ {g} /\ \A j \in Instances : mine'[j].users = mine[j].users
    BY <2>1 DEF AddGroup, LocalTypeOK
  <2>4. \A v \in Users : (Right(v) => Right(v)') /\ (Ours(v)' => Ours(v))
    BY <1>0, AccountKept
  <2>5. \A h \in Groups \ {g} : groups'[h] = groups[h]
    BY <2>1 DEF AddGroup, HostTypeOK
  <2>6. groups'[g] # "nobody"
    BY <2>1 DEF AddGroup, HostTypeOK, HostGroups
  <2>7. HostGroups \subseteq HostGroups' /\ g \in HostGroups'
    BY <2>5, <2>6 DEF HostGroups
  <2>8. Did(i)'
    BY <1>0, <2>1, <2>2, <2>3, <2>4, <2>7 DEF Did, Writing
  <2>9. agreed.runs > 0 => DidAgain(i)'
    BY <1>0, <2>1, <2>2, <2>5 DEF DidAgain, Writing
  <2>10. \A h \in Groups : groups'[h] = "us" => groups[h] = "us" \/ h \in server.groups
    BY <2>2, <2>5
  <2> QED BY <1>0, <1>2, <2>3, <2>4, <2>7, <2>8, <2>9, <2>10, GroupReduces DEF Writing
<1> QED BY <1>1, <1>2

LEMMA WriteStep ==
    ASSUME ConvergedInv, Trusted, [Next]_vars,
           NEW i \in Instances, WriteUsers(i) \/ WriteGroups(i)
    PROVE  Converges'
<1>0. stage[i] = "inside" /\ UNCHANGED <<host, server, agreed>> /\ phase[i] \in Writing
  BY DEF WriteUsers, WriteGroups, Writing
<1>1. /\ LocalTypeOK /\ LockTypeOK
      /\ Steady => Did(i)
      /\ agreed.runs > 0 => Steady /\ DidAgain(i)
  BY <1>0, InsideFacts, TypeParts DEF ConvergedInv, KnownInv
<1>2. phase'[i] = "writeGroups" /\ \A j \in Instances \ {i} : stage'[j] = stage[j]
  BY <1>1 DEF WriteUsers, WriteGroups, Leave, Move, LocalTypeOK, LockTypeOK
<1>3. /\ Steady => Settled'
      /\ agreed.runs > 0 => Agrees'
  BY <1>0, <1>1, HostKept DEF Did, DidAgain
<1>4. \A j \in Instances : ~HasUsers(j)'
  BY <1>0, <1>2, InsideFacts DEF HasUsers, Holding
<1>5. UsersThere'
  BY <1>4 DEF UsersThere
<1>6. Steady => OnPlan(i)' /\ Did(i)'
  BY <1>2, <1>3 DEF OnPlan, AfterDeletion, Did, Writing
<1>7. agreed.runs > 0 => DidAgain(i)'
  BY <1>2, <1>3 DEF DidAgain, Writing
<1> QED BY <1>0, <1>1, <1>2, <1>3, <1>5, <1>6, <1>7, GroupsThereStep, InsideReduces
        DEF Steady, Agrees

\* Who comes inside has done nothing yet.
LEMMA IdleReduces ==
    ASSUME ConvergedInv, Trusted, [Next]_vars, UNCHANGED <<host, server, local, agreed>>,
           \A j \in Instances : Holding(j)' =>
              stage'[j] = stage[j] \/ (phase[j] = "read" /\ stage'[j] = "inside")
    PROVE  Converges'
<1>1. Converges
  BY DEF ConvergedInv
<1>2. ASSUME NEW j \in Instances, Holding(j)', phase[j] = "read", stage'[j] = "inside"
      PROVE  OnPlan(j)' /\ Did(j)' /\ DidAgain(j)'
  BY <1>2 DEF OnPlan, AfterDeletion, Did, DidAgain, Writing
<1>3. ASSUME NEW j \in Instances, Holding(j)', stage'[j] = stage[j]
      PROVE  /\ Holding(j)
             /\ OnPlan(j) => OnPlan(j)'
             /\ Did(j) => Did(j)'
             /\ DidAgain(j) => DidAgain(j)'
  <2>1. Holding(j)
    BY <1>3 DEF Holding
  <2>2. OnPlan(j) => OnPlan(j)'
    BY <1>3 DEF OnPlan, AfterDeletion
  <2>3. Did(j) => Did(j)'
    BY HostKept DEF Did
  <2>4. DidAgain(j) => DidAgain(j)'
    BY HostKept DEF DidAgain
  <2> QED BY <2>1, <2>2, <2>3, <2>4
<1>4. Steady' => \A j \in Instances : Holding(j)' => OnPlan(j)' /\ Did(j)'
  BY <1>1, <1>2, <1>3 DEF Converges, Steady
<1>5. agreed'.runs > 0 => \A j \in Instances : Holding(j)' => DidAgain(j)'
  BY <1>1, <1>2, <1>3 DEF Converges
<1>6. \A j \in Instances : HasUsers(j)' => HasUsers(j)
  BY DEF HasUsers, Holding
<1>7. agreed'.runs > 0 => UsersThere' /\ Settled'
  BY <1>1, <1>6, UsersThereKept, HostKept DEF Converges
<1>8. agreed'.runs = 2 => Agrees'
  BY <1>1, HostKept DEF Converges
<1> QED BY <1>4, <1>5, <1>7, <1>8, GroupsThereStep DEF Converges

\* A run that nothing has disturbed counts when it is over.
LEMMA FinishStep ==
    ASSUME ConvergedInv, Trusted, [Next]_vars, NEW i \in Instances, Finish(i)
    PROVE  Converges'
<1>0. /\ LocalTypeOK /\ LockTypeOK /\ Converges /\ KnownInv /\ ~raced
      /\ stage[i] = "unlink" /\ Holding(i) /\ UNCHANGED <<host, server>>
  BY TypeParts DEF ConvergedInv, Trusted, KnownInv, Finish, Unlink, Holding
<1>1. \A j \in Instances : ~Holding(j)'
  <2>1. \A j \in Instances \ {i} : ~Holding(j)
    BY <1>0, OneInside
  <2> QED BY <1>0, <2>1 DEF Finish, Unlink, Move, Holding, LockTypeOK
<1>2. UsersThere'
  BY <1>1 DEF UsersThere, HasUsers, Holding
<1>3. agreed.still => Settled /\ (agreed.runs > 0 => Agrees)
  <2> SUFFICES ASSUME agreed.still PROVE Settled /\ (agreed.runs > 0 => Agrees)
    OBVIOUS
  <2>1. OnPlan(i) /\ Did(i) /\ (agreed.runs > 0 => DidAgain(i))
    BY <1>0 DEF Converges, Steady
  <2>2. phase[i] \in Writing
    BY <1>0, <2>1 DEF OnPlan, Writing
  <2> QED BY <2>1, <2>2 DEF Did, DidAgain
<1>4. /\ agreed'.runs > 0 => agreed.still
      /\ agreed'.runs = 2 => agreed.still /\ agreed.runs > 0
  <2>1. \/ agreed' = [runs |-> 0, still |-> FALSE]
        \/ agreed.still /\ agreed.runs = 0 /\ agreed' = [runs |-> 1, still |-> FALSE]
        \/ agreed.still /\ agreed.runs # 0 /\ agreed' = [runs |-> 2, still |-> FALSE]
    BY Zenon DEF Finish
  <2>2. agreed.runs \in 0 .. 2
    BY <1>0 DEF LocalTypeOK, Agreements
  <2> QED BY <2>1, <2>2
<1> QED BY <1>0, <1>1, <1>2, <1>3, <1>4, HostKept, GroupsThereStep DEF Converges

\* Every step keeps what two runs are to come to.
LEMMA ConvergesStep == ASSUME ConvergedInv, Trusted, [Next]_vars PROVE Converges'
<1>0. LocalTypeOK /\ LockTypeOK /\ Idle
  BY TypeParts DEF ConvergedInv, KnownInv, Known
<1>1. ASSUME NEW i \in Instances, Begin(i) PROVE Converges'
  <2>1. \A j \in Instances : Holding(j)' => stage'[j] = stage[j]
    BY <1>0, <1>1 DEF Begin, Launch, Move, Holding, LockTypeOK
  <2> QED BY <1>1, <2>1, IdleReduces DEF Begin
<1>2. ASSUME NEW i \in Instances, TakeLock(i) PROVE Converges'
  <2>1. phase[i] = "read" /\ \A j \in Instances \ {i} : stage'[j] = stage[j]
    BY <1>0, <1>2 DEF TakeLock, Acquire, TestFile, Refuse, OpenFile, WritePid, LosePid, OpenFails,
                      Move, Idle, Holding, LockTypeOK
  <2>2. Holding(i)' => stage'[i] = "inside"
    BY <1>0, <1>2 DEF TakeLock, Acquire, TestFile, Refuse, OpenFile, WritePid, LosePid, OpenFails,
                      Move, Holding, LockTypeOK
  <2>3. UNCHANGED <<host, server, local, agreed>>
    BY <1>2 DEF TakeLock
  <2> QED BY <2>1, <2>2, <2>3, IdleReduces
<1>3. ASSUME NEW i \in Instances, Finish(i) PROVE Converges'
  BY <1>3, FinishStep
<1>4. ASSUME NEW i \in Instances, Kill(i) \/ ReadFails(i) \/ RenameFails(i) PROVE Converges'
  BY <1>4, DisturbStep DEF Kill, ReadFails, RenameFails
<1>5. ASSUME NEW i \in Instances, Synchronize(i), ~Kill(i), ~ReadFails(i), ~RenameFails(i)
      PROVE  Converges'
  BY <1>5, SynchronizeCases, PlansStep, ReadListsStep, RemoveUserStep, AddUserStep,
     UpdateUserStep, RemoveGroupStep, AddGroupStep, WriteStep
<1>6. CASE ServerChanges \/ AdminActs
  BY <1>6, DisturbStep DEF ServerChanges, AdminActs, AdminChanges, AdminChangesGroup
<1>7. CASE UNCHANGED vars
  BY <1>7, IdleReduces
<1> QED BY <1>1, <1>2, <1>3, <1>4, <1>5, <1>6, <1>7 DEF Next, AdminActs

LEMMA ConvergedInit == Init => ConvergedInv
<1> SUFFICES ASSUME Init PROVE ConvergedInv
  OBVIOUS
<1>1. Shape
  BY DEF Init, Shape, NoAccount, OthersAccount
<1>2. Converges
  BY DEF Init, LockInit, Converges, GroupsThere, HasGroups, Steady
<1> QED BY <1>1, <1>2, KnownInit, ForeignInit DEF ConvergedInv

\* After two undisturbed runs the host is as the server says (sync_users.cpp,
\* main), whatever the runs before have done to it: for any sets of users and
\* groups, unless two processes have run at once or one was killed with a
\* list it had not written.
THEOREM TwoRunsConverge == Spec => []Converged
<1>1. ConvergedInv /\ [Next]_vars => ConvergedInv'
  <2> SUFFICES ASSUME ConvergedInv, [Next]_vars PROVE ConvergedInv'
    OBVIOUS
  <2>1. KnownInv'
    BY KnownInvStep DEF ConvergedInv
  <2>2. ForeignInv'
    BY NotClaimedStep, TargetsStep, TypeStep DEF ConvergedInv, ForeignInv
  <2>3. Shape'
    BY ShapeStep DEF ConvergedInv, KnownInv
  <2>4. Trusted' => Converges'
    BY TrustKept, ConvergesStep DEF ConvergedInv, KnownInv
  <2> QED BY <2>1, <2>2, <2>3, <2>4 DEF ConvergedInv
<1>2. ConvergedInv => Converged
  <2> SUFFICES ASSUME ConvergedInv, ~raced, agreed.runs = 2, untracked = {}
               PROVE  /\ \A u \in Users \ ServiceAccounts : account[u].by # "other" =>
                            account[u] = IF u \in server.users
                                         THEN [by |-> "us", first |-> Lowest(server.in[u]),
                                               in |-> server.in[u]]
                                         ELSE NoAccount
                      /\ \A g \in Groups :
                            groups[g] # "other" => (groups[g] = "us" <=> g \in server.groups)
    BY SMT DEF Converged
  <2>1. HostTypeOK /\ Shape /\ Agrees /\ Settled
    BY TypeParts DEF ConvergedInv, KnownInv, Trusted, Converges, Agrees
  <2>2. ASSUME NEW u \in Users \ ServiceAccounts, account[u].by # "other", u \in server.users
        PROVE  account[u] = [by |-> "us", first |-> Lowest(server.in[u]), in |-> server.in[u]]
    <3>1. account[u].by = "us" /\ account[u].first # 0
      BY <2>1, <2>2, ProvisionerAssumption DEF HostTypeOK, Account, Makers, Agrees
    <3> QED BY <2>1, <3>1 DEF Settled, Ours, Right
  <2>3. ASSUME NEW u \in Users, account[u].by # "other", u \notin server.users
        PROVE  account[u] = NoAccount
    <3>1. account[u].by # "us"
      BY <2>1, <2>3, ProvisionerAssumption DEF HostTypeOK, Settled, Ours, Right
    <3> QED BY <2>1, <2>3, <3>1 DEF HostTypeOK, Account, Makers, Shape
  <2>4. ASSUME NEW g \in Groups, groups[g] # "other"
        PROVE  groups[g] = "us" <=> g \in server.groups
    BY <2>1, <2>4 DEF HostTypeOK, Makers, Agrees, Settled, HostGroups
  <2> QED BY <2>2, <2>3, <2>4
<1> QED BY ConvergedInit, <1>1, <1>2, PTL DEF Spec
=============================================================================
