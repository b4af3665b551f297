--------------------------- MODULE MembershipStore ---------------------------
(***************************************************************************)
(* Group membership records and the three caches in front of them          *)
(* (src/src/PersistentStore.cpp: setUserStatusInGroup, removeUserFromGroup,*)
(* userStatusInGroup, getUserGroupMemberships, getMembersOfGroup, and the  *)
(* concurrent_multimap they use).  Server threads run these functions      *)
(* concurrently; every cache operation is atomic, the functions are not.   *)
(***************************************************************************)
EXTENDS Naturals, FiniteSets

CONSTANTS
    Threads,       \* server threads
    Users, Groups,
    MemberStates,  \* states a membership record can have in the database
    Lagging,       \* TRUE: database reads may be stale
    Failing,       \* TRUE: database writes may fail
    MaxWrites      \* bound: number of set and remove calls in a behaviour

ASSUME MembershipAssumption ==
    /\ MemberStates # {} /\ "NonMember" \notin MemberStates
    /\ "none" \notin MemberStates
    /\ Lagging \in BOOLEAN /\ Failing \in BOOLEAN
    /\ MaxWrites \in Nat

VARIABLES
    db,        \* db[k]: the state in the users table; NonMember: no item
    replica,   \* what a stale read, or the ByGroup index, returns
    single,    \* groupMembershipCache
    byUser,    \* groupMembershipByUserCache
    byGroup,   \* groupMembershipByGroupCache
    pc,        \* control point of each thread
    op,        \* the function it runs
    key,       \* its arguments: [user, group]
    work,      \* membership records it has yet to write to the caches
    writes,    \* number of set and remove calls so far
    failed     \* history: keys whose last removal failed in the database

store == <<db, replica>>
caches == <<single, byUser, byGroup>>
vars == <<db, replica, single, byUser, byGroup, pc, op, key, work, writes, failed>>

Keys == [user : Users, group : Groups]
States == MemberStates \cup {"NonMember"}
Memberships == [key : Keys, state : States]
Ops == {"set", "remove", "status", "listUser", "listGroup"}

\* A cached record, and whether it has not yet expired.  A category of a
\* multimap has one expiration time; the records in it are not looked at.
Entry == [state : States \cup {"none"}, live : BOOLEAN]
UserCategory == [records : [Groups -> States \cup {"none"}], live : BOOLEAN]
GroupCategory == [records : [Users -> States \cup {"none"}], live : BOOLEAN]

Goto(t, label) == pc' = [pc EXCEPT ![t] = label]

ReadsOf(k) == IF Lagging THEN {db[k], replica[k]} ELSE {db[k]}
-----------------------------------------------------------------------------
Init ==
    /\ db \in [Keys -> States]
    /\ replica = db
    /\ single = [k \in Keys |-> [state |-> "none", live |-> FALSE]]
    /\ byUser = [u \in Users |->
                   [records |-> [g \in Groups |-> "none"], live |-> FALSE]]
    /\ byGroup = [g \in Groups |->
                   [records |-> [u \in Users |-> "none"], live |-> FALSE]]
    /\ pc = [t \in Threads |-> "idle"]
    /\ op = [t \in Threads |-> "status"]
    /\ key \in [Threads -> Keys]
    /\ work = [t \in Threads |-> {}]
    /\ writes = 0
    /\ failed = {}

Call(t, f, k, label) ==
    /\ pc[t] = "idle"
    /\ op' = [op EXCEPT ![t] = f]
    /\ key' = [key EXCEPT ![t] = k]
    /\ Goto(t, label)
    /\ UNCHANGED <<store, caches, failed>>

\* setUserStatusInGroup writes the database first, then the caches.
BeginSet(t, k, s) ==
    /\ writes < MaxWrites
    /\ writes' = writes + 1
    /\ work' = [work EXCEPT ![t] = {[key |-> k, state |-> s]}]
    /\ Call(t, "set", k, "put")

PutItem(t) ==
    /\ pc[t] = "put"
    /\ \/ /\ \E m \in work[t] : db' = [db EXCEPT ![m.key] = m.state]
          /\ Goto(t, "cacheSingle")
          /\ failed' = failed \ {key[t]}
          /\ UNCHANGED work
       \/ /\ Failing
          /\ Goto(t, "idle")
          /\ work' = [work EXCEPT ![t] = {}]
          /\ UNCHANGED <<db, failed>>
    /\ UNCHANGED <<replica, caches, op, key, writes>>

\* removeUserFromGroup writes the caches first, then the database.
BeginRemove(t, k) ==
    /\ writes < MaxWrites
    /\ writes' = writes + 1
    /\ work' = [work EXCEPT ![t] = {[key |-> k, state |-> "NonMember"]}]
    /\ Call(t, "remove", k, "cacheSingle")

DeleteItem(t) ==
    /\ pc[t] = "delete"
    /\ Goto(t, "idle")
    /\ \/ /\ db' = [db EXCEPT ![key[t]] = "NonMember"]
          /\ failed' = failed \ {key[t]}
       \/ /\ Failing
          /\ failed' = failed \cup {key[t]}
          /\ UNCHANGED db
    /\ UNCHANGED <<replica, caches, op, key, work, writes>>

\* The read functions: a live cache answers at once and changes nothing, so
\* only the calls that find it expired or empty are steps here.
BeginStatus(t, k) ==
    /\ ~single[k].live
    /\ Call(t, "status", k, "read")
    /\ UNCHANGED <<work, writes>>

BeginListUser(t, k) ==
    /\ ~byUser[k.user].live
    /\ Call(t, "listUser", k, "read")
    /\ UNCHANGED <<work, writes>>

BeginListGroup(t, k) ==
    /\ ~byGroup[k.group].live
    /\ Call(t, "listGroup", k, "read")
    /\ UNCHANGED <<work, writes>>

\* The keys a read function asks the database for, and what it makes of the
\* answer: a lookup of one key makes a record for a non-member as well.
Asked(t) ==
    CASE op[t] = "status" -> {key[t]}
      [] op[t] = "listUser" -> {k \in Keys : k.user = key[t].user}
      [] op[t] = "listGroup" -> {k \in Keys : k.group = key[t].group}

\* GetItem or Query.
Read(t) ==
    /\ pc[t] = "read"
    /\ \E answer \in [Asked(t) -> States] :
          /\ \A k \in Asked(t) : answer[k] \in ReadsOf(k)
          /\ LET found == {k \in Asked(t) : answer[k] # "NonMember" \/ op[t] = "status"}
             IN  /\ work' = [work EXCEPT ![t] =
                               {[key |-> k, state |-> answer[k]] : k \in found}]
                 /\ Goto(t, IF found = {} THEN "extend" ELSE "cacheSingle")
    /\ UNCHANGED <<store, caches, op, key, writes, failed>>

\* Mutant of ReadFails: the default-constructed membership, whose state has
\* no value, is cached.
ReadFailsCached(t) ==
    /\ Failing
    /\ pc[t] = "read"
    /\ work' = [work EXCEPT ![t] = {[key |-> key[t], state |-> "invalid"]}]
    /\ Goto(t, "cacheSingle")
    /\ UNCHANGED <<store, caches, op, key, writes, failed>>

\* The query fails: nothing is cached.
ReadFails(t) ==
    /\ Failing
    /\ pc[t] = "read"
    /\ Goto(t, "idle")
    /\ UNCHANGED <<store, caches, op, key, work, writes, failed>>

\* replaceCacheRecord(groupMembershipCache, ...): a new expiration time.
CacheSingle(t) ==
    /\ pc[t] = "cacheSingle"
    /\ \E m \in work[t] :
          /\ single' = [single EXCEPT ![m.key] = [state |-> m.state, live |-> TRUE]]
          /\ key' = [key EXCEPT ![t] = m.key]
    /\ Goto(t, "cacheByUser")
    /\ UNCHANGED <<store, byUser, byGroup, op, work, writes, failed>>

\* Mutant of CacheByUser: a new category is born valid, as a record is.
CacheByUserLive(t) ==
    /\ pc[t] = "cacheByUser"
    /\ \E m \in work[t] :
          /\ m.key = key[t]
          /\ byUser' = [byUser EXCEPT ![m.key.user] =
                [records |-> [@.records EXCEPT ![m.key.group] = m.state], live |-> TRUE]]
    /\ Goto(t, "cacheByGroup")
    /\ UNCHANGED <<store, single, byGroup, op, key, work, writes, failed>>

\* insert_or_assign of concurrent_multimap: the category keeps the expiration
\* time it has, and a new category is born expired.
CacheByUser(t) ==
    /\ pc[t] = "cacheByUser"
    /\ \E m \in work[t] :
          /\ m.key = key[t]
          /\ byUser' = [byUser EXCEPT ![m.key.user].records[m.key.group] = m.state]
    /\ Goto(t, "cacheByGroup")
    /\ UNCHANGED <<store, single, byGroup, op, key, work, writes, failed>>

AfterRecord(f, rest) ==
    CASE rest # {}                        -> "cacheSingle"
      [] rest = {} /\ f \in {"set", "status"} -> "idle"
      [] rest = {} /\ f = "remove"        -> "delete"
      [] OTHER                            -> "extend"

CacheByGroup(t) ==
    /\ pc[t] = "cacheByGroup"
    /\ \E m \in work[t] :
          /\ m.key = key[t]
          /\ byGroup' = [byGroup EXCEPT ![m.key.group].records[m.key.user] = m.state]
          /\ work' = [work EXCEPT ![t] = @ \ {m}]
          /\ Goto(t, AfterRecord(op[t], work[t] \ {m}))
    /\ UNCHANGED <<store, single, byUser, op, key, writes, failed>>

\* update_expiration: a category that exists is good for another period,
\* with the records that this query found and with those it did not.
Extend(t) ==
    /\ pc[t] = "extend"
    /\ LET u == key[t].user
           g == key[t].group
       IN \/ /\ op[t] = "listUser"
             /\ byUser' = [byUser EXCEPT ![u].live =
                             \E h \in Groups : byUser[u].records[h] # "none"]
             /\ UNCHANGED byGroup
          \/ /\ op[t] = "listGroup"
             /\ byGroup' = [byGroup EXCEPT ![g].live =
                              \E v \in Users : byGroup[g].records[v] # "none"]
             /\ UNCHANGED byUser
    /\ Goto(t, "idle")
    /\ UNCHANGED <<store, single, op, key, work, writes, failed>>

\* Mutant of ExpireSingle: the expiration time of a record is not looked at.
ExpireSingleIgnored(k) == FALSE /\ UNCHANGED vars

\* Time passes: an entry or a category reaches its expiration time.
ExpireSingle(k) ==
    /\ single[k].live
    /\ single' = [single EXCEPT ![k].live = FALSE]
    /\ UNCHANGED <<store, byUser, byGroup, pc, op, key, work, writes, failed>>

ExpireByUser(u) ==
    /\ byUser[u].live
    /\ byUser' = [byUser EXCEPT ![u].live = FALSE]
    /\ UNCHANGED <<store, single, byGroup, pc, op, key, work, writes, failed>>

ExpireByGroup(g) ==
    /\ byGroup[g].live
    /\ byGroup' = [byGroup EXCEPT ![g].live = FALSE]
    /\ UNCHANGED <<store, single, byUser, pc, op, key, work, writes, failed>>

\* DynamoDB propagates a write to the index and to the lagging replicas.
Propagate(k) ==
    /\ Lagging
    /\ replica[k] # db[k]
    /\ replica' = [replica EXCEPT ![k] = db[k]]
    /\ UNCHANGED <<db, caches, pc, op, key, work, writes, failed>>

Begin(t) ==
    \E k \in Keys :
       \/ \E s \in MemberStates : BeginSet(t, k, s)
       \/ BeginRemove(t, k)
       \/ BeginStatus(t, k)
       \/ BeginListUser(t, k)
       \/ BeginListGroup(t, k)

Proceed(t) ==
    \/ PutItem(t)
    \/ DeleteItem(t)
    \/ Read(t)
    \/ ReadFails(t)
    \/ CacheSingle(t)
    \/ CacheByUser(t)
    \/ CacheByGroup(t)
    \/ Extend(t)

Expire ==
    \/ \E k \in Keys : ExpireSingle(k)
    \/ \E u \in Users : ExpireByUser(u)
    \/ \E g \in Groups : ExpireByGroup(g)

Next ==
    \/ \E t \in Threads : Begin(t) \/ Proceed(t)
    \/ Expire
    \/ \E k \in Keys : Propagate(k)

Spec == Init /\ [][Next]_vars

\* Threads keep running, time passes and the database propagates its writes;
\* nothing obliges anyone to call.
Fairness ==
    /\ \A t \in Threads : WF_vars(Proceed(t))
    /\ \A k \in Keys : WF_vars(ExpireSingle(k)) /\ WF_vars(Propagate(k))
    /\ \A u \in Users : WF_vars(ExpireByUser(u))
    /\ \A g \in Groups : WF_vars(ExpireByGroup(g))

FairSpec == Spec /\ Fairness
-----------------------------------------------------------------------------
\* Types, and that a thread which is writing records to the caches has the
\* record its key names in hand.
TypeOK ==
    /\ db \in [Keys -> States] /\ replica \in [Keys -> States]
    /\ single \in [Keys -> Entry]
    /\ byUser \in [Users -> UserCategory]
    /\ byGroup \in [Groups -> GroupCategory]
    /\ pc \in [Threads -> {"idle", "put", "delete", "read", "cacheSingle",
                           "cacheByUser", "cacheByGroup", "extend"}]
    /\ op \in [Threads -> Ops]
    /\ key \in [Threads -> Keys]
    /\ work \in [Threads -> SUBSET Memberships]
    /\ writes \in 0 .. MaxWrites
    /\ failed \subseteq Keys

\* What a cache says of a key; a list leaves out those it has no record of.
Says(record) == IF record = "none" THEN "NonMember" ELSE record

SingleAgrees(k) == single[k].live => single[k].state = db[k]
ByUserAgrees(k) == byUser[k.user].live => Says(byUser[k.user].records[k.group]) = db[k]
ByGroupAgrees(k) == byGroup[k.group].live => Says(byGroup[k.group].records[k.user]) = db[k]

\* With one thread and fresh reads, all three caches agree with the database
\* between calls, except on keys whose removal failed half-way
\* (PersistentStore.cpp:1141-1174 changes the caches before the database).
CachesAgree ==
    (\A t \in Threads : pc[t] = "idle") =>
       \A k \in Keys \ failed :
          SingleAgrees(k) /\ ByUserAgrees(k) /\ ByGroupAgrees(k)

\* Whatever races filled groupMembershipCache with, once memberships stop
\* changing userStatusInGroup ends up answering what the database says
\* (the expiration test in PersistentStore.cpp:1180-1184).
StatusHeals == <>[](\A k \in Keys : SingleAgrees(k))
=============================================================================
