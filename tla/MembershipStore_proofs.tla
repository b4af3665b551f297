------------------------ MODULE MembershipStore_proofs ------------------------
(***************************************************************************)
(* Theorems about MembershipStore: the types for any number of threads,    *)
(* and the agreement of the three caches with the database for one thread  *)
(* that reads no stale answer, with every set of users and groups.         *)
(***************************************************************************)
EXTENDS MembershipStore, TLAPS

USE DEF vars, store, caches, Goto

Reads == {"status", "listUser", "listGroup"}

\* A thread that is about to read runs one of the functions that read.
ReadsAreReads == \A t \in Threads : pc[t] = "read" => op[t] \in Reads

(***************************************************************************)
(* The inductive invariant.  A call that writes is in progress on a key    *)
(* from its first cache operation on (for a removal, to DeleteItem).       *)
(***************************************************************************)
Caching == {"cacheSingle", "cacheByUser", "cacheByGroup"}
Writing(t) == op[t] \in {"set", "remove"} /\ pc[t] \in Caching \cup {"delete"}
Settled(k) == k \notin failed /\ \A t \in Threads : Writing(t) => key[t] # k

\* The record a list has of a key, whether or not the list has expired.
UserRecord(k) == byUser[k.user].records[k.group]
GroupRecord(k) == byGroup[k.group].records[k.user]

\* The caches agree with the database on the keys nobody is writing; expired
\* lists may lack a record, but have none that is wrong.
SettledAgree ==
    \A k \in Keys : Settled(k) =>
       /\ SingleAgrees(k) /\ ByUserAgrees(k) /\ ByGroupAgrees(k)
       /\ UserRecord(k) \in {"none", db[k]} /\ GroupRecord(k) \in {"none", db[k]}

\* What a thread has in hand: a writer the one record it writes, a reader
\* records that are what the database says, of keys it has asked for.
WorkOfWriter ==
    \A t \in Threads : op[t] \in {"set", "remove"} /\ pc[t] \in Caching \cup {"put"} =>
       /\ \A m \in work[t] : m.key = key[t]
       /\ \A m, o \in work[t] : m = o
       /\ op[t] = "remove" => \A m \in work[t] : m.state = "NonMember"
       /\ op[t] = "set" /\ pc[t] # "put" => \A m \in work[t] : m.state = db[key[t]]

WorkOfReader ==
    \A t \in Threads : op[t] \in Reads /\ pc[t] \in Caching =>
       \A m \in work[t] :
          /\ m.state = db[m.key]
          /\ op[t] = "listUser" => m.key.user = key[t].user
          /\ op[t] = "listGroup" => m.key.group = key[t].group

\* Which function a control point belongs to, and that nothing is left to do
\* before a list is extended or an item deleted.
Places ==
    \A t \in Threads :
       /\ pc[t] = "put" => op[t] = "set"
       /\ pc[t] = "delete" => op[t] = "remove"
       /\ pc[t] = "extend" => work[t] = {}

\* What a writer has written to the caches so far.
Target(t) == IF op[t] = "remove" THEN "NonMember" ELSE db[key[t]]

Written ==
    \A t \in Threads : Writing(t) =>
       /\ pc[t] # "cacheSingle" => single[key[t]].state = Target(t)
       /\ pc[t] \in {"cacheByGroup", "delete"} => UserRecord(key[t]) = Target(t)
       /\ pc[t] = "delete" => GroupRecord(key[t]) = Target(t)

\* What a list that is being refreshed says of the keys that were asked for:
\* the truth, or the truth is still in hand.
InHand(t, k) == \E m \in work[t] : m.key = k

Refreshed ==
    \A t \in Threads : pc[t] \in Caching \cup {"extend"} =>
       /\ op[t] = "listUser" =>
             /\ pc[t] = "cacheByGroup" => UserRecord(key[t]) = db[key[t]]
             /\ \A k \in Keys : k.user = key[t].user =>
                   k \in failed \/ InHand(t, k) \/ Says(UserRecord(k)) = db[k]
       /\ op[t] = "listGroup" =>
             \A k \in Keys : k.group = key[t].group =>
                k \in failed \/ InHand(t, k) \/ Says(GroupRecord(k)) = db[k]

Coherent ==
    /\ SettledAgree
    /\ WorkOfWriter
    /\ WorkOfReader
    /\ Places
    /\ Written
    /\ Refreshed

IInv == TypeOK /\ ReadsAreReads /\ Coherent

\* What the comment on CachesAgree assumes: one thread, and fresh reads.
Sequential == (\A s, t \in Threads : s = t) /\ ~Lagging
-----------------------------------------------------------------------------
\* A call starts at one of three places.
LEMMA BeginForm ==
    ASSUME NEW t \in Threads, Begin(t)
    PROVE  \E k \in Keys, f \in Ops, label \in {"put", "cacheSingle", "read"} :
              /\ Call(t, f, k, label)
              /\ label = "put" => f = "set" /\ \E s \in MemberStates :
                                     work' = [work EXCEPT ![t] = {[key |-> k, state |-> s]}]
              /\ label = "cacheSingle" =>
                    /\ f = "remove"
                    /\ work' = [work EXCEPT ![t] = {[key |-> k, state |-> "NonMember"]}]
              /\ label = "read" => f \in Reads /\ UNCHANGED work
              /\ (writes < MaxWrites /\ writes' = writes + 1) \/ UNCHANGED writes
<1> USE DEF Ops, Reads
<1> PICK k \in Keys :
       \/ \E s \in MemberStates : BeginSet(t, k, s)
       \/ BeginRemove(t, k)
       \/ BeginStatus(t, k)
       \/ BeginListUser(t, k)
       \/ BeginListGroup(t, k)
  BY DEF Begin
<1>1. CASE \E s \in MemberStates : BeginSet(t, k, s)
  BY <1>1 DEF BeginSet
<1>2. CASE BeginRemove(t, k)
  BY <1>2 DEF BeginRemove
<1>3. CASE BeginStatus(t, k) \/ BeginListUser(t, k) \/ BeginListGroup(t, k)
  BY <1>3 DEF BeginStatus, BeginListUser, BeginListGroup
<1> QED BY <1>1, <1>2, <1>3

\* What a reader asks for are keys, and those its function is about.
LEMMA AskedKeys ==
    ASSUME TypeOK, NEW t \in Threads, op[t] \in Reads
    PROVE  /\ Asked(t) \subseteq Keys
           /\ op[t] = "status" => Asked(t) = {key[t]}
           /\ op[t] = "listUser" => Asked(t) = {k \in Keys : k.user = key[t].user}
           /\ op[t] = "listGroup" => Asked(t) = {k \in Keys : k.group = key[t].group}
BY DEF Asked, Reads, TypeOK

\* What a read leaves to be cached.
LEMMA ReadForm ==
    ASSUME TypeOK, NEW t \in Threads, op[t] \in Reads, Read(t)
    PROVE  \E answer \in [Asked(t) -> States] :
              /\ \A k \in Asked(t) : answer[k] \in ReadsOf(k)
              /\ \E found \in SUBSET Asked(t) :
                    /\ \A k \in Asked(t) : k \in found \/ answer[k] = "NonMember"
                    /\ work' = [work EXCEPT ![t] =
                                  {[key |-> k, state |-> answer[k]] : k \in found}]
                    /\ pc' = [pc EXCEPT ![t] = IF found = {} THEN "extend" ELSE "cacheSingle"]
BY DEF Read

-----------------------------------------------------------------------------
Labels == {"idle", "put", "delete", "read", "cacheSingle", "cacheByUser", "cacheByGroup",
           "extend"}

LEMMA TypeInit == Init => TypeOK /\ ReadsAreReads
<1> SUFFICES ASSUME Init PROVE TypeOK /\ ReadsAreReads
  OBVIOUS
<1> USE MembershipAssumption DEF Init
<1>1. single \in [Keys -> Entry]
  BY DEF Entry
<1>2. byUser \in [Users -> UserCategory]
  <2>1. [records |-> [g \in Groups |-> "none"], live |-> FALSE] \in UserCategory
    BY DEF UserCategory
  <2> QED BY <2>1
<1>3. byGroup \in [Groups -> GroupCategory]
  <2>1. [records |-> [u \in Users |-> "none"], live |-> FALSE] \in GroupCategory
    BY DEF GroupCategory
  <2> QED BY <2>1
<1>4. db \in [Keys -> States] /\ key \in [Threads -> Keys] /\ writes \in 0 .. MaxWrites
  OBVIOUS
<1>5. work \in [Threads -> SUBSET Memberships] /\ op \in [Threads -> Ops]
  BY DEF Ops
<1>6. ReadsAreReads
  BY DEF ReadsAreReads
<1> QED BY <1>1, <1>2, <1>3, <1>4, <1>5, <1>6 DEF TypeOK

\* Writing one record to a cache keeps the cache's type.
LEMMA CachedTypes ==
    ASSUME TypeOK, NEW m \in Memberships
    PROVE  /\ m.key \in Keys /\ m.state \in States
           /\ [state |-> m.state, live |-> TRUE] \in Entry
           /\ [byUser EXCEPT ![m.key.user].records[m.key.group] = m.state]
                 \in [Users -> UserCategory]
           /\ [byGroup EXCEPT ![m.key.group].records[m.key.user] = m.state]
                 \in [Groups -> GroupCategory]
<1>1. m.key \in Keys /\ m.state \in States /\ m.key.user \in Users /\ m.key.group \in Groups
  BY DEF Memberships, Keys
<1>2. [state |-> m.state, live |-> TRUE] \in Entry
  BY <1>1 DEF Entry
<1>3. byUser[m.key.user] \in UserCategory /\ byGroup[m.key.group] \in GroupCategory
  BY <1>1 DEF TypeOK
<1>4. [byUser[m.key.user] EXCEPT !.records[m.key.group] = m.state] \in UserCategory
  BY <1>1, <1>3 DEF UserCategory
<1>5. [byGroup[m.key.group] EXCEPT !.records[m.key.user] = m.state] \in GroupCategory
  BY <1>1, <1>3 DEF GroupCategory
<1> QED BY <1>1, <1>2, <1>3, <1>4, <1>5 DEF TypeOK

\* So does setting whether an entry is still good.
LEMMA LiveTypes ==
    ASSUME TypeOK, NEW b \in BOOLEAN
    PROVE  /\ \A k \in Keys : [single EXCEPT ![k].live = b] \in [Keys -> Entry]
           /\ \A u \in Users : [byUser EXCEPT ![u].live = b] \in [Users -> UserCategory]
           /\ \A g \in Groups : [byGroup EXCEPT ![g].live = b] \in [Groups -> GroupCategory]
<1>1. \A k \in Keys : [single[k] EXCEPT !.live = b] \in Entry
  BY DEF TypeOK, Entry
<1>2. \A u \in Users : [byUser[u] EXCEPT !.live = b] \in UserCategory
  BY DEF TypeOK, UserCategory
<1>3. \A g \in Groups : [byGroup[g] EXCEPT !.live = b] \in GroupCategory
  BY DEF TypeOK, GroupCategory
<1> QED BY <1>1, <1>2, <1>3 DEF TypeOK

\* Every step preserves the types, with any number of threads.
LEMMA TypeStep ==
    ASSUME TypeOK, ReadsAreReads, [Next]_vars
    PROVE  TypeOK' /\ ReadsAreReads'
<1> USE DEF ReadsAreReads
<1>0. pc \in [Threads -> Labels]
  BY DEF TypeOK, Labels
<1>1. ASSUME NEW t \in Threads, Begin(t) PROVE TypeOK' /\ ReadsAreReads'
  <2>1. PICK k \in Keys, f \in Ops, label \in {"put", "cacheSingle", "read"} :
              /\ Call(t, f, k, label)
              /\ label = "put" => f = "set" /\ \E s \in MemberStates :
                                     work' = [work EXCEPT ![t] = {[key |-> k, state |-> s]}]
              /\ label = "cacheSingle" =>
                    /\ f = "remove"
                    /\ work' = [work EXCEPT ![t] = {[key |-> k, state |-> "NonMember"]}]
              /\ label = "read" => f \in Reads /\ UNCHANGED work
              /\ (writes < MaxWrites /\ writes' = writes + 1) \/ UNCHANGED writes
    BY <1>1, BeginForm
  <2>2. work' \in [Threads -> SUBSET Memberships]
    <3>1. \A s \in States : {[key |-> k, state |-> s]} \in SUBSET Memberships
      BY DEF Memberships
    <3> QED BY <2>1, <3>1 DEF TypeOK, States
  <2>3. writes' \in 0 .. MaxWrites
    BY <2>1, MembershipAssumption DEF TypeOK
  <2>4. /\ op' \in [Threads -> Ops] /\ key' \in [Threads -> Keys]
        /\ pc' \in [Threads -> Labels]
    BY <1>0, <2>1 DEF TypeOK, Call, Labels
  <2>5. UNCHANGED <<db, replica, single, byUser, byGroup, failed>>
    BY <2>1 DEF Call
  <2>6. ReadsAreReads'
    BY <2>1 DEF TypeOK, Call
  <2> QED BY <2>2, <2>3, <2>4, <2>5, <2>6 DEF TypeOK, Labels
<1>2. ASSUME NEW t \in Threads, PutItem(t) PROVE TypeOK' /\ ReadsAreReads'
  <2>1. work' \in [Threads -> SUBSET Memberships] /\ pc' \in [Threads -> Labels]
    BY <1>0, <1>2 DEF PutItem, TypeOK, Labels
  <2>2. db' \in [Keys -> States]
    BY <1>2, CachedTypes DEF PutItem, TypeOK
  <2>3. failed' \subseteq Keys
    BY <1>2 DEF PutItem, TypeOK
  <2>4. ReadsAreReads'
    BY <1>2 DEF PutItem, TypeOK
  <2>5. UNCHANGED <<replica, single, byUser, byGroup, op, key, writes>>
    BY <1>2 DEF PutItem
  <2> QED BY <2>1, <2>2, <2>3, <2>4, <2>5 DEF TypeOK, Labels
<1>3. ASSUME NEW t \in Threads, DeleteItem(t) PROVE TypeOK' /\ ReadsAreReads'
  BY <1>3 DEF DeleteItem, TypeOK, States
<1>4. ASSUME NEW t \in Threads, Read(t) PROVE TypeOK' /\ ReadsAreReads'
  <2>1. op[t] \in Reads
    BY <1>4 DEF Read
  <2>2. PICK answer \in [Asked(t) -> States], found \in SUBSET Asked(t) :
           /\ work' = [work EXCEPT ![t] = {[key |-> k, state |-> answer[k]] : k \in found}]
           /\ pc' = [pc EXCEPT ![t] = IF found = {} THEN "extend" ELSE "cacheSingle"]
    BY <1>4, <2>1, ReadForm
  <2>3. {[key |-> k, state |-> answer[k]] : k \in found} \in SUBSET Memberships
    BY <2>1, AskedKeys DEF Memberships
  <2>4. work' \in [Threads -> SUBSET Memberships]
    BY <2>2, <2>3 DEF TypeOK
  <2>5. pc' \in [Threads -> Labels] /\ \A s \in Threads : pc'[s] = "read" => pc[s] = "read"
    BY <1>0, <2>2 DEF Labels
  <2> QED BY <1>4, <2>4, <2>5 DEF Read, TypeOK, Labels
<1>5. ASSUME NEW t \in Threads, ReadFails(t) PROVE TypeOK' /\ ReadsAreReads'
  BY <1>5 DEF ReadFails, TypeOK
<1>6. ASSUME NEW t \in Threads, CacheSingle(t) PROVE TypeOK' /\ ReadsAreReads'
  <2>1. PICK m \in work[t] :
           /\ single' = [single EXCEPT ![m.key] = [state |-> m.state, live |-> TRUE]]
           /\ key' = [key EXCEPT ![t] = m.key]
    BY <1>6 DEF CacheSingle
  <2>2. m \in Memberships
    BY DEF TypeOK
  <2>3. single' \in [Keys -> Entry] /\ key' \in [Threads -> Keys]
    BY <2>1, <2>2, CachedTypes DEF TypeOK
  <2> QED BY <1>6, <2>3 DEF CacheSingle, TypeOK
<1>7. ASSUME NEW t \in Threads, CacheByUser(t) PROVE TypeOK' /\ ReadsAreReads'
  <2>1. PICK m \in work[t] :
           byUser' = [byUser EXCEPT ![m.key.user].records[m.key.group] = m.state]
    BY <1>7 DEF CacheByUser
  <2>2. m \in Memberships
    BY DEF TypeOK
  <2>3. byUser' \in [Users -> UserCategory]
    BY <2>1, <2>2, CachedTypes
  <2> QED BY <1>7, <2>3 DEF CacheByUser, TypeOK
<1>8. ASSUME NEW t \in Threads, CacheByGroup(t) PROVE TypeOK' /\ ReadsAreReads'
  <2>1. PICK m \in work[t] :
           /\ byGroup' = [byGroup EXCEPT ![m.key.group].records[m.key.user] = m.state]
           /\ work' = [work EXCEPT ![t] = @ \ {m}]
           /\ Goto(t, AfterRecord(op[t], work[t] \ {m}))
    BY <1>8 DEF CacheByGroup
  <2>2. m \in Memberships
    BY DEF TypeOK
  <2>3. byGroup' \in [Groups -> GroupCategory]
    BY <2>1, <2>2, CachedTypes
  <2>4. AfterRecord(op[t], work[t] \ {m}) \in Labels \ {"read"}
    BY DEF AfterRecord, Labels
  <2>5. pc' \in [Threads -> Labels] /\ \A s \in Threads : pc'[s] = "read" => pc[s] = "read"
    BY <1>0, <2>1, <2>4
  <2>6. work' \in [Threads -> SUBSET Memberships]
    BY <2>1 DEF TypeOK
  <2> QED BY <1>8, <2>3, <2>5, <2>6 DEF CacheByGroup, TypeOK, Labels
<1>9. ASSUME NEW t \in Threads, Extend(t) PROVE TypeOK' /\ ReadsAreReads'
  <2>1. key[t].user \in Users /\ key[t].group \in Groups
    BY DEF TypeOK, Keys
  <2>2. /\ byUser' = byUser
           \/ \E b \in BOOLEAN : byUser' = [byUser EXCEPT ![key[t].user].live = b]
        /\ byGroup' = byGroup
           \/ \E b \in BOOLEAN : byGroup' = [byGroup EXCEPT ![key[t].group].live = b]
    BY <1>9 DEF Extend
  <2>3. byUser' \in [Users -> UserCategory]
    <3>1. \A b \in BOOLEAN : [byUser EXCEPT ![key[t].user].live = b] \in [Users -> UserCategory]
      BY <2>1, LiveTypes
    <3> QED BY <2>2, <3>1 DEF TypeOK
  <2>4. byGroup' \in [Groups -> GroupCategory]
    <3>1. \A b \in BOOLEAN : [byGroup EXCEPT ![key[t].group].live = b] \in [Groups -> GroupCategory]
      BY <2>1, LiveTypes
    <3> QED BY <2>2, <3>1 DEF TypeOK
  <2> QED BY <1>9, <2>3, <2>4 DEF Extend, TypeOK
<1>10. CASE Expire
  <2>1. \/ \E k \in Keys : single' = [single EXCEPT ![k].live = FALSE]
        \/ UNCHANGED single
    BY <1>10 DEF Expire, ExpireSingle, ExpireByUser, ExpireByGroup
  <2>2. \/ \E u \in Users : byUser' = [byUser EXCEPT ![u].live = FALSE]
        \/ UNCHANGED byUser
    BY <1>10 DEF Expire, ExpireSingle, ExpireByUser, ExpireByGroup
  <2>3. \/ \E g \in Groups : byGroup' = [byGroup EXCEPT ![g].live = FALSE]
        \/ UNCHANGED byGroup
    BY <1>10 DEF Expire, ExpireSingle, ExpireByUser, ExpireByGroup
  <2>4. UNCHANGED <<db, replica, pc, op, key, work, writes, failed>>
    BY <1>10 DEF Expire, ExpireSingle, ExpireByUser, ExpireByGroup
  <2>5. /\ \A k \in Keys : [single EXCEPT ![k].live = FALSE] \in [Keys -> Entry]
        /\ \A u \in Users : [byUser EXCEPT ![u].live = FALSE] \in [Users -> UserCategory]
        /\ \A g \in Groups : [byGroup EXCEPT ![g].live = FALSE] \in [Groups -> GroupCategory]
    BY LiveTypes
  <2>6. single' \in [Keys -> Entry]
    BY <2>1, <2>5 DEF TypeOK
  <2>7. byUser' \in [Users -> UserCategory]
    BY <2>2, <2>5 DEF TypeOK
  <2>8. byGroup' \in [Groups -> GroupCategory]
    BY <2>3, <2>5 DEF TypeOK
  <2> QED BY <2>4, <2>6, <2>7, <2>8 DEF TypeOK
<1>11. ASSUME NEW k \in Keys, Propagate(k) PROVE TypeOK' /\ ReadsAreReads'
  BY <1>11 DEF Propagate, TypeOK
<1>12. CASE UNCHANGED vars
  BY <1>12 DEF TypeOK
<1> QED BY <1>1, <1>2, <1>3, <1>4, <1>5, <1>6, <1>7, <1>8, <1>9, <1>10, <1>11, <1>12
        DEF Next, Proceed

\* Every variable has its type, whatever the threads, the lagging reads and
\* the failing writes do to one another (setUserStatusInGroup,
\* removeUserFromGroup and the functions that read memberships).
THEOREM TypeCorrect == Spec => []TypeOK
<1>1. Spec => [](TypeOK /\ ReadsAreReads)
  BY TypeInit, TypeStep, PTL DEF Spec
<1> QED BY <1>1, PTL

-----------------------------------------------------------------------------
\* What writing a record to a list changes of what the list says.
LEMMA KeyIsPair == \A k, l \in Keys : k.user = l.user /\ k.group = l.group => k = l
BY DEF Keys

LEMMA UserWrite ==
    ASSUME TypeOK, NEW m \in Memberships,
           byUser' = [byUser EXCEPT ![m.key.user].records[m.key.group] = m.state]
    PROVE  \A k \in Keys :
              /\ UserRecord(k)' = IF k = m.key THEN m.state ELSE UserRecord(k)
              /\ byUser'[k.user].live = byUser[k.user].live
<1>1. m.key \in Keys /\ m.key.user \in Users /\ m.key.group \in Groups
  BY DEF Memberships, Keys
<1> SUFFICES ASSUME NEW k \in Keys
             PROVE  /\ UserRecord(k)' = IF k = m.key THEN m.state ELSE UserRecord(k)
                    /\ byUser'[k.user].live = byUser[k.user].live
  OBVIOUS
<1>2. k.user \in Users /\ k.group \in Groups /\ byUser[k.user] \in UserCategory
  BY DEF TypeOK, Keys
<1>3. CASE k.user = m.key.user
  <2>1. byUser'[k.user] = [byUser[k.user] EXCEPT !.records[m.key.group] = m.state]
    BY <1>1, <1>3 DEF TypeOK
  <2>2. /\ byUser'[k.user].records =
             [byUser[k.user].records EXCEPT ![m.key.group] = m.state]
        /\ byUser'[k.user].live = byUser[k.user].live
        /\ byUser[k.user].records \in [Groups -> States \cup {"none"}]
    BY <1>2, <2>1 DEF UserCategory
  <2>3. k = m.key <=> k.group = m.key.group
    BY <1>1, <1>3, KeyIsPair
  <2> QED BY <1>2, <2>2, <2>3 DEF UserRecord
<1>4. CASE k.user # m.key.user
  BY <1>1, <1>2, <1>4 DEF UserRecord, TypeOK
<1> QED BY <1>3, <1>4

LEMMA GroupWrite ==
    ASSUME TypeOK, NEW m \in Memberships,
           byGroup' = [byGroup EXCEPT ![m.key.group].records[m.key.user] = m.state]
    PROVE  \A k \in Keys :
              /\ GroupRecord(k)' = IF k = m.key THEN m.state ELSE GroupRecord(k)
              /\ byGroup'[k.group].live = byGroup[k.group].live
<1>1. m.key \in Keys /\ m.key.user \in Users /\ m.key.group \in Groups
  BY DEF Memberships, Keys
<1> SUFFICES ASSUME NEW k \in Keys
             PROVE  /\ GroupRecord(k)' = IF k = m.key THEN m.state ELSE GroupRecord(k)
                    /\ byGroup'[k.group].live = byGroup[k.group].live
  OBVIOUS
<1>2. k.user \in Users /\ k.group \in Groups /\ byGroup[k.group] \in GroupCategory
  BY DEF TypeOK, Keys
<1>3. CASE k.group = m.key.group
  <2>1. byGroup'[k.group] = [byGroup[k.group] EXCEPT !.records[m.key.user] = m.state]
    BY <1>1, <1>3 DEF TypeOK
  <2>2. /\ byGroup'[k.group].records =
             [byGroup[k.group].records EXCEPT ![m.key.user] = m.state]
        /\ byGroup'[k.group].live = byGroup[k.group].live
        /\ byGroup[k.group].records \in [Users -> States \cup {"none"}]
    BY <1>2, <2>1 DEF GroupCategory
  <2>3. k = m.key <=> k.user = m.key.user
    BY <1>1, <1>3, KeyIsPair
  <2> QED BY <1>2, <2>2, <2>3 DEF GroupRecord
<1>4. CASE k.group # m.key.group
  BY <1>1, <1>2, <1>4 DEF GroupRecord, TypeOK
<1> QED BY <1>3, <1>4

\* An entry that expires, or a list that is refreshed, keeps its records.
LEMMA UserLive ==
    ASSUME TypeOK, NEW u \in Users, NEW b, byUser' = [byUser EXCEPT ![u].live = b]
    PROVE  \A k \in Keys :
              /\ UserRecord(k)' = UserRecord(k)
              /\ byUser'[k.user].live = IF k.user = u THEN b ELSE byUser[k.user].live
<1> SUFFICES ASSUME NEW k \in Keys
             PROVE  /\ UserRecord(k)' = UserRecord(k)
                    /\ byUser'[k.user].live = IF k.user = u THEN b ELSE byUser[k.user].live
  OBVIOUS
<1>1. k.user \in Users /\ byUser[k.user] \in UserCategory
  BY DEF TypeOK, Keys
<1>2. CASE k.user = u
  <2>1. byUser'[k.user] = [byUser[k.user] EXCEPT !.live = b]
    BY <1>1, <1>2 DEF TypeOK
  <2> QED BY <1>1, <1>2, <2>1 DEF UserRecord, UserCategory
<1>3. CASE k.user # u
  BY <1>1, <1>3 DEF UserRecord, TypeOK
<1> QED BY <1>2, <1>3

LEMMA GroupLive ==
    ASSUME TypeOK, NEW g \in Groups, NEW b, byGroup' = [byGroup EXCEPT ![g].live = b]
    PROVE  \A k \in Keys :
              /\ GroupRecord(k)' = GroupRecord(k)
              /\ byGroup'[k.group].live = IF k.group = g THEN b ELSE byGroup[k.group].live
<1> SUFFICES ASSUME NEW k \in Keys
             PROVE  /\ GroupRecord(k)' = GroupRecord(k)
                    /\ byGroup'[k.group].live =
                          IF k.group = g THEN b ELSE byGroup[k.group].live
  OBVIOUS
<1>1. k.group \in Groups /\ byGroup[k.group] \in GroupCategory
  BY DEF TypeOK, Keys
<1>2. CASE k.group = g
  <2>1. byGroup'[k.group] = [byGroup[k.group] EXCEPT !.live = b]
    BY <1>1, <1>2 DEF TypeOK
  <2> QED BY <1>1, <1>2, <2>1 DEF GroupRecord, GroupCategory
<1>3. CASE k.group # g
  BY <1>1, <1>3 DEF GroupRecord, TypeOK
<1> QED BY <1>2, <1>3

-----------------------------------------------------------------------------
\* With one thread, every step preserves the agreement.  First the steps of
\* the calls, in the order of the code.
LEMMA BeginStep == ASSUME Sequential, IInv, NEW t \in Threads, Begin(t) PROVE Coherent'
<1> USE DEF Sequential, IInv, Coherent, Caching, Writing, UserRecord, GroupRecord
<1>1. PICK k \in Keys, f \in Ops, label \in {"put", "cacheSingle", "read"} :
              /\ Call(t, f, k, label)
              /\ label = "put" => f = "set" /\ \E s \in MemberStates :
                                     work' = [work EXCEPT ![t] = {[key |-> k, state |-> s]}]
              /\ label = "cacheSingle" =>
                    /\ f = "remove"
                    /\ work' = [work EXCEPT ![t] = {[key |-> k, state |-> "NonMember"]}]
              /\ label = "read" => f \in Reads /\ UNCHANGED work
  BY BeginForm
<1>2. /\ pc[t] = "idle" /\ pc'[t] = label /\ op'[t] = f /\ key'[t] = k
      /\ UNCHANGED <<db, single, byUser, byGroup, failed>>
  BY <1>1 DEF Call, TypeOK
<1>3. /\ label = "put" => \E s \in MemberStates : work'[t] = {[key |-> k, state |-> s]}
      /\ label = "cacheSingle" => work'[t] = {[key |-> k, state |-> "NonMember"]}
  BY <1>1 DEF TypeOK
<1>4. \A l \in Keys : Settled(l)' => Settled(l)
  BY <1>2 DEF Settled
<1>5. SettledAgree'
  BY <1>2, <1>4 DEF SettledAgree, SingleAgrees, ByUserAgrees, ByGroupAgrees
<1>6. WorkOfWriter'
  BY <1>1, <1>2, <1>3 DEF WorkOfWriter
<1>7. WorkOfReader' /\ Places' /\ Written' /\ Refreshed'
  BY <1>1, <1>2 DEF WorkOfReader, Places, Written, Refreshed, Reads
<1> QED BY <1>5, <1>6, <1>7

LEMMA PutStep == ASSUME Sequential, IInv, NEW t \in Threads, PutItem(t) PROVE Coherent'
<1> USE DEF Sequential, IInv, Coherent, Caching, Writing, UserRecord, GroupRecord
<1>1. pc[t] = "put" /\ op[t] = "set" /\ UNCHANGED <<single, byUser, byGroup, op, key>>
  BY DEF PutItem, Places
<1>2. CASE pc'[t] = "idle"
  <2>1. UNCHANGED <<db, failed>>
    BY <1>2 DEF PutItem, TypeOK
  <2>2. \A l \in Keys : Settled(l)' => Settled(l)
    BY <1>1, <2>1 DEF Settled
  <2>3. SettledAgree'
    BY <1>1, <2>1, <2>2 DEF SettledAgree, SingleAgrees, ByUserAgrees, ByGroupAgrees
  <2> QED BY <1>2, <2>3 DEF WorkOfWriter, WorkOfReader, Places, Written, Refreshed
<1>3. CASE pc'[t] # "idle"
  <2>1. /\ pc'[t] = "cacheSingle" /\ UNCHANGED work
        /\ failed' = failed \ {key[t]}
        /\ \E m \in work[t] : db' = [db EXCEPT ![m.key] = m.state]
    BY <1>3 DEF PutItem, TypeOK
  <2>2. PICK m \in work[t] : db' = [db EXCEPT ![m.key] = m.state]
    BY <2>1
  <2>3. m.key = key[t] /\ (\A o \in work[t] : o = m) /\ key[t] \in Keys
    BY <1>1 DEF WorkOfWriter, TypeOK
  <2>4. db'[key[t]] = m.state /\ \A l \in Keys : l # key[t] => db'[l] = db[l]
    BY <2>2, <2>3 DEF TypeOK
  <2>5. \A l \in Keys : Settled(l)' => l # key[t] /\ Settled(l)
    BY <1>1, <2>1 DEF Settled
  <2>6. SettledAgree'
    BY <1>1, <2>4, <2>5 DEF SettledAgree, SingleAgrees, ByUserAgrees, ByGroupAgrees
  <2>7. WorkOfWriter'
    BY <1>1, <2>1, <2>3, <2>4 DEF WorkOfWriter
  <2> QED BY <1>1, <2>1, <2>6, <2>7 DEF WorkOfReader, Places, Written, Refreshed, Reads
<1> QED BY <1>2, <1>3

LEMMA ReadStep ==
    ASSUME Sequential, IInv, NEW t \in Threads, Read(t) \/ ReadFails(t) PROVE Coherent'
<1> USE DEF Sequential, IInv, Coherent, Caching, Writing, UserRecord, GroupRecord
<1>1. /\ pc[t] = "read" /\ op[t] \in Reads
      /\ UNCHANGED <<db, single, byUser, byGroup, op, key, failed>>
  BY DEF Read, ReadFails, ReadsAreReads
<1>2. \A l \in Keys : Settled(l) <=> l \notin failed
  BY <1>1 DEF Settled, Reads
<1>3. \A l \in Keys : Settled(l)' => l \notin failed
  BY <1>1 DEF Settled
<1>4. SettledAgree'
  BY <1>1, <1>2, <1>3 DEF SettledAgree, SingleAgrees, ByUserAgrees, ByGroupAgrees
<1>5. CASE ReadFails(t)
  <2>1. pc'[t] = "idle"
    BY <1>5 DEF ReadFails, TypeOK
  <2> QED BY <2>1, <1>4 DEF WorkOfWriter, WorkOfReader, Places, Written, Refreshed
<1>6. CASE Read(t)
  <2>1. PICK answer \in [Asked(t) -> States], found \in SUBSET Asked(t) :
           /\ \A k \in Asked(t) : answer[k] \in ReadsOf(k)
           /\ \A k \in Asked(t) : k \in found \/ answer[k] = "NonMember"
           /\ work' = [work EXCEPT ![t] = {[key |-> k, state |-> answer[k]] : k \in found}]
           /\ pc' = [pc EXCEPT ![t] = IF found = {} THEN "extend" ELSE "cacheSingle"]
    BY <1>1, <1>6, ReadForm
  <2>2. /\ work'[t] = {[key |-> k, state |-> answer[k]] : k \in found}
        /\ pc'[t] = IF found = {} THEN "extend" ELSE "cacheSingle"
    BY <2>1 DEF TypeOK
  <2>3. \A k \in Asked(t) : answer[k] = db[k]
    BY <2>1 DEF ReadsOf
  <2>4. WorkOfReader'
    <3>1. \A m \in work'[t] : m.key \in Asked(t) /\ m.state = db[m.key]
      BY <2>2, <2>3
    <3> QED BY <1>1, <3>1, AskedKeys DEF WorkOfReader
  <2>5. WorkOfWriter' /\ Written'
    BY <1>1 DEF WorkOfWriter, Written, Reads
  <2>6. Places'
    BY <2>2 DEF Places
  <2>7. \A k \in Asked(t) : InHand(t, k)' \/ db[k] = "NonMember"
    <3> SUFFICES ASSUME NEW k \in Asked(t), k \in found PROVE InHand(t, k)'
      BY <2>1, <2>3
    <3>1. [key |-> k, state |-> answer[k]] \in work'[t]
      BY <2>2
    <3> QED BY <3>1 DEF InHand
  <2>8. \A k \in Keys : k \notin failed /\ db[k] = "NonMember" =>
           Says(UserRecord(k)) = db[k] /\ Says(GroupRecord(k)) = db[k]
    BY <1>2 DEF SettledAgree, Says
  <2>9. Refreshed'
    BY <1>1, <2>2, <2>7, <2>8, AskedKeys DEF Refreshed
  <2> QED BY <1>4, <2>4, <2>5, <2>6, <2>9
<1> QED BY <1>5, <1>6

LEMMA CacheSingleStep ==
    ASSUME Sequential, IInv, NEW t \in Threads, CacheSingle(t) PROVE Coherent'
<1> USE DEF Sequential, IInv, Coherent, Caching, Writing, UserRecord, GroupRecord
<1>1. PICK m \in work[t] :
         /\ single' = [single EXCEPT ![m.key] = [state |-> m.state, live |-> TRUE]]
         /\ key' = [key EXCEPT ![t] = m.key]
  BY DEF CacheSingle
<1>2. /\ pc[t] = "cacheSingle" /\ pc'[t] = "cacheByUser" /\ key'[t] = m.key
      /\ UNCHANGED <<db, byUser, byGroup, op, work, failed>>
  BY <1>1 DEF CacheSingle, TypeOK
<1>3. m.key \in Keys /\ m.key.user \in Users /\ m.key.group \in Groups
  BY DEF TypeOK, Memberships, Keys
<1>4. /\ single'[m.key].state = m.state /\ single'[m.key].live
      /\ \A k \in Keys : k # m.key => single'[k] = single[k]
  BY <1>1, <1>3 DEF TypeOK
<1>5. op[t] \in {"set", "remove"} =>
         m.key = key[t] /\ m.state = IF op[t] = "remove" THEN "NonMember" ELSE db[m.key]
  BY <1>2 DEF WorkOfWriter
<1>6. op[t] \in Reads => m.state = db[m.key]
  BY <1>2 DEF WorkOfReader
<1>7. op[t] \in Reads \cup {"set", "remove"}
  BY DEF TypeOK, Ops, Reads
<1>8. \A k \in Keys : Settled(k)' <=> Settled(k)
  BY <1>2, <1>5 DEF Settled
<1>9. SettledAgree'
  <2> SUFFICES ASSUME NEW k \in Keys, Settled(k), ~SingleAgrees(k)' PROVE FALSE
    BY <1>2, <1>8 DEF SettledAgree, ByUserAgrees, ByGroupAgrees
  <2>1. k = m.key
    BY <1>2, <1>4 DEF SettledAgree, SingleAgrees
  <2>2. op[t] \in Reads
    BY <1>2, <1>5, <1>7, <2>1 DEF Settled
  <2> QED BY <1>2, <1>4, <1>6, <2>1, <2>2 DEF SingleAgrees
<1>10. WorkOfWriter' /\ Places'
  BY <1>2, <1>5 DEF WorkOfWriter, Places
<1>11. WorkOfReader'
  BY <1>2 DEF WorkOfReader
<1>12. Written'
  BY <1>2, <1>4, <1>5 DEF Written, Target
<1>13. Refreshed'
  <2>1. op[t] = "listUser" => m.key.user = key[t].user
    BY <1>2 DEF WorkOfReader, Reads
  <2>2. op[t] = "listGroup" => m.key.group = key[t].group
    BY <1>2 DEF WorkOfReader, Reads
  <2> QED BY <1>2, <2>1, <2>2 DEF Refreshed, InHand
<1> QED BY <1>9, <1>10, <1>11, <1>12, <1>13

LEMMA CacheByUserStep ==
    ASSUME Sequential, IInv, NEW t \in Threads, CacheByUser(t) PROVE Coherent'
<1> USE DEF Sequential, IInv, Coherent, Caching, Writing
<1>1. PICK m \in work[t] :
         /\ m.key = key[t]
         /\ byUser' = [byUser EXCEPT ![m.key.user].records[m.key.group] = m.state]
  BY DEF CacheByUser
<1>2. /\ pc[t] = "cacheByUser" /\ pc'[t] = "cacheByGroup"
      /\ UNCHANGED <<db, single, byGroup, op, key, work, failed>>
  BY <1>1 DEF CacheByUser, TypeOK
<1>3. m \in Memberships /\ key[t] \in Keys
  BY DEF TypeOK
<1>4. \A k \in Keys :
         /\ UserRecord(k)' = IF k = key[t] THEN m.state ELSE UserRecord(k)
         /\ byUser'[k.user].live = byUser[k.user].live
  BY <1>1, <1>3, UserWrite
<1>5. op[t] \in {"set", "remove"} => m.state = Target(t)
  BY <1>2 DEF WorkOfWriter, Target
<1>6. op[t] \in Reads => m.state = db[m.key]
  BY <1>2 DEF WorkOfReader
<1>7. op[t] \in Reads \cup {"set", "remove"}
  BY DEF TypeOK, Ops, Reads
<1>8. \A k \in Keys : Settled(k)' <=> Settled(k)
  BY <1>2 DEF Settled
<1>9. \A k \in Keys : GroupRecord(k)' = GroupRecord(k)
  BY <1>2 DEF GroupRecord
<1>10. m.state # "none"
  BY <1>3, MembershipAssumption DEF Memberships, States
<1>11. SettledAgree'
  <2> SUFFICES ASSUME NEW k \in Keys, Settled(k)
               PROVE  ByUserAgrees(k)' /\ UserRecord(k)' \in {"none", db[k]}
    BY <1>2, <1>8, <1>9 DEF SettledAgree, SingleAgrees, ByGroupAgrees
  <2>1. CASE k = key[t]
    <3>1. op[t] \in Reads
      BY <1>2, <1>7, <2>1 DEF Settled
    <3>2. UserRecord(k)' = db[k]
      BY <1>1, <1>3, <1>4, <1>6, <2>1, <3>1
    <3> QED BY <1>2, <1>10, <3>2, <1>4, <2>1 DEF ByUserAgrees, Says, UserRecord
  <2>2. CASE k # key[t]
    BY <1>2, <1>4, <2>2 DEF SettledAgree, ByUserAgrees, UserRecord
  <2> QED BY <2>1, <2>2
<1>12. WorkOfWriter' /\ WorkOfReader' /\ Places'
  BY <1>2 DEF WorkOfWriter, WorkOfReader, Places
<1>13. Written'
  BY <1>2, <1>3, <1>4, <1>5 DEF Written, Target
<1>14. Refreshed'
  <2>1. \A k \in Keys : UserRecord(k)' = UserRecord(k)
                        \/ (op[t] = "listUser" => UserRecord(k)' = db[k])
    BY <1>1, <1>4, <1>6 DEF Reads
  <2>2. op[t] = "listUser" => UserRecord(key[t])' = db[key[t]]
    BY <1>1, <1>2, <1>3, <1>4, <1>6 DEF Reads
  <2>3. \A k \in Keys : db[k] # "none"
    BY MembershipAssumption DEF TypeOK, States
  <2>4. \A k \in Keys : InHand(t, k)' <=> InHand(t, k)
    BY <1>2 DEF InHand
  <2>5. \A k \in Keys : op[t] = "listUser" /\ Says(UserRecord(k)) = db[k]
                           => Says(UserRecord(k)') = db[k]
    BY <2>1, <2>3 DEF Says
  <2>6. ASSUME op[t] = "listUser", NEW k \in Keys, k.user = key[t].user
        PROVE  k \in failed \/ InHand(t, k) \/ Says(UserRecord(k)') = db[k]
    BY <1>2, <2>5, <2>6 DEF Refreshed
  <2>7. ASSUME op[t] = "listGroup", NEW k \in Keys, k.group = key[t].group
        PROVE  k \in failed \/ InHand(t, k) \/ Says(GroupRecord(k)') = db[k]
    BY <1>2, <1>9, <2>7 DEF Refreshed
  <2> QED BY <1>2, <2>2, <2>4, <2>6, <2>7 DEF Refreshed
<1> QED BY <1>11, <1>12, <1>13, <1>14

LEMMA CacheByGroupStep ==
    ASSUME Sequential, IInv, NEW t \in Threads, CacheByGroup(t) PROVE Coherent'
<1> USE DEF Sequential, IInv, Coherent, Caching, Writing
<1>1. PICK m \in work[t] :
         /\ m.key = key[t]
         /\ byGroup' = [byGroup EXCEPT ![m.key.group].records[m.key.user] = m.state]
         /\ work' = [work EXCEPT ![t] = @ \ {m}]
         /\ Goto(t, AfterRecord(op[t], work[t] \ {m}))
  BY DEF CacheByGroup
<1>2. /\ pc[t] = "cacheByGroup"
      /\ UNCHANGED <<db, single, byUser, op, key, failed>>
      /\ work'[t] = work[t] \ {m}
      /\ pc'[t] = AfterRecord(op[t], work'[t])
  BY <1>1 DEF CacheByGroup, TypeOK
<1>3. m \in Memberships /\ key[t] \in Keys
  BY DEF TypeOK
<1>4. \A k \in Keys :
         /\ GroupRecord(k)' = IF k = key[t] THEN m.state ELSE GroupRecord(k)
         /\ byGroup'[k.group].live = byGroup[k.group].live
  BY <1>1, <1>3, GroupWrite
<1>5. op[t] \in {"set", "remove"} =>
         /\ m.state = Target(t) /\ work'[t] = {}
         /\ pc'[t] = IF op[t] = "remove" THEN "delete" ELSE "idle"
  BY <1>2 DEF WorkOfWriter, Target, AfterRecord
<1>6. op[t] \in Reads =>
         /\ m.state = db[m.key]
         /\ pc'[t] \in {"idle", "cacheSingle", "extend"}
         /\ pc'[t] = "extend" => work'[t] = {}
  BY <1>2 DEF WorkOfReader, AfterRecord, Reads
<1>7. op[t] \in Reads \/ op[t] \in {"set", "remove"}
  BY DEF TypeOK, Ops, Reads
<1>8. m.state # "none"
  BY <1>3, MembershipAssumption DEF Memberships, States
<1>9. \A k \in Keys : UserRecord(k)' = UserRecord(k)
  BY <1>2 DEF UserRecord
<1>10. ASSUME NEW k \in Keys, Settled(k)', k = key[t]
       PROVE  /\ m.state = db[k]
              /\ SingleAgrees(k) /\ ByUserAgrees(k) /\ UserRecord(k) \in {"none", db[k]}
  <2>1. CASE op[t] \in Reads
    <3>1. Settled(k)
      BY <1>2, <1>10, <2>1 DEF Settled, Reads
    <3> QED BY <1>1, <1>6, <1>10, <2>1, <3>1 DEF SettledAgree
  <2>2. CASE op[t] \in {"set", "remove"}
    <3>1. op[t] = "set"
      BY <1>2, <1>5, <1>10, <2>2 DEF Settled
    <3>2. single[k].state = db[k] /\ UserRecord(k) = db[k] /\ m.state = db[k]
      BY <1>2, <1>5, <1>10, <3>1 DEF Written, Target
    <3> QED BY <1>8, <3>2 DEF SingleAgrees, ByUserAgrees, UserRecord, Says
  <2> QED BY <1>7, <2>1, <2>2
<1>11. SettledAgree'
  <2> SUFFICES ASSUME NEW k \in Keys, Settled(k)'
               PROVE  /\ SingleAgrees(k) /\ ByUserAgrees(k) /\ UserRecord(k) \in {"none", db[k]}
                      /\ ByGroupAgrees(k)' /\ GroupRecord(k)' \in {"none", db[k]}
    BY <1>2, <1>9 DEF SettledAgree, SingleAgrees, ByUserAgrees
  <2>1. CASE k = key[t]
    <3>1. GroupRecord(k)' = db[k]
      BY <1>4, <1>10, <2>1
    <3> QED BY <1>2, <1>4, <1>8, <1>10, <2>1, <3>1 DEF ByGroupAgrees, GroupRecord, Says
  <2>2. CASE k # key[t]
    <3>1. Settled(k)
      BY <1>2, <2>2 DEF Settled
    <3> QED BY <1>2, <1>4, <2>2, <3>1 DEF SettledAgree, ByGroupAgrees, GroupRecord
  <2> QED BY <2>1, <2>2
<1>12. WorkOfWriter' /\ WorkOfReader' /\ Places'
  BY <1>2, <1>5, <1>6, <1>7 DEF WorkOfWriter, WorkOfReader, Places
<1>13. Written'
  <2>1. Writing(t)' => op[t] = "remove" /\ pc'[t] = "delete"
    BY <1>2, <1>5, <1>6, <1>7
  <2>2. op[t] = "remove" => GroupRecord(key[t])' = "NonMember"
    BY <1>2, <1>3, <1>4, <1>5 DEF Target
  <2>3. op[t] = "remove" =>
           UserRecord(key[t]) = "NonMember" /\ single[key[t]].state = "NonMember"
    BY <1>2 DEF Written, Target
  <2>4. ASSUME Writing(t)'
        PROVE  /\ single[key[t]].state = "NonMember"
               /\ UserRecord(key[t])' = "NonMember" /\ GroupRecord(key[t])' = "NonMember"
    BY <1>2, <1>3, <1>9, <2>1, <2>2, <2>3, <2>4
  <2> QED BY <1>2, <2>1, <2>4 DEF Written, Target, UserRecord, GroupRecord
<1>14. Refreshed'
  <2>1. \A k \in Keys : k = key[t] \/ InHand(t, k)' \/ ~InHand(t, k)
    BY <1>1, <1>2 DEF InHand
  <2>2. db[key[t]] # "none"
    BY <1>3, MembershipAssumption DEF TypeOK, States
  <2>3. ASSUME op[t] = "listUser", NEW k \in Keys, k.user = key[t].user
        PROVE  k \in failed \/ InHand(t, k)' \/ Says(UserRecord(k)') = db[k]
    <3>1. UserRecord(key[t]) = db[key[t]]
      BY <1>2, <2>3 DEF Refreshed
    <3>2. CASE k = key[t]
      BY <1>9, <2>2, <3>1, <3>2 DEF Says
    <3>3. CASE k # key[t]
      BY <1>2, <1>9, <2>1, <2>3, <3>3 DEF Refreshed
    <3> QED BY <3>2, <3>3
  <2>4. ASSUME op[t] = "listGroup", NEW k \in Keys, k.group = key[t].group
        PROVE  k \in failed \/ InHand(t, k)' \/ Says(GroupRecord(k)') = db[k]
    <3>1. m.state = db[key[t]]
      BY <1>1, <1>6, <2>4 DEF Reads
    <3>2. CASE k = key[t]
      BY <1>4, <2>2, <3>1, <3>2 DEF Says
    <3>3. CASE k # key[t]
      BY <1>2, <1>4, <2>1, <2>4, <3>3 DEF Refreshed
    <3> QED BY <3>2, <3>3
  <2>5. op[t] \in Reads => pc'[t] # "cacheByGroup"
    BY <1>6
  <2> QED BY <1>2, <2>3, <2>4, <2>5 DEF Refreshed, Reads
<1> QED BY <1>11, <1>12, <1>13, <1>14

LEMMA DeleteStep == ASSUME Sequential, IInv, NEW t \in Threads, DeleteItem(t) PROVE Coherent'
<1> USE DEF Sequential, IInv, Coherent, Caching, Writing, UserRecord, GroupRecord
<1>1. /\ pc[t] = "delete" /\ op[t] = "remove" /\ pc'[t] = "idle"
      /\ UNCHANGED <<single, byUser, byGroup, op, key, work>>
  BY DEF DeleteItem, Places, TypeOK
<1>2. key[t] \in Keys
  BY DEF TypeOK
<1>3. \A k \in Keys : k # key[t] => db'[k] = db[k] /\ (Settled(k)' <=> Settled(k))
  BY <1>1, <1>2 DEF DeleteItem, Settled, TypeOK
<1>4. Settled(key[t])' => db'[key[t]] = "NonMember"
  BY <1>2 DEF DeleteItem, Settled, TypeOK
<1>5. /\ single[key[t]].state = "NonMember" /\ UserRecord(key[t]) = "NonMember"
      /\ GroupRecord(key[t]) = "NonMember"
  BY <1>1 DEF Written, Target
<1>6. SettledAgree'
  <2> SUFFICES ASSUME NEW k \in Keys, Settled(k)'
               PROVE  /\ SingleAgrees(k)' /\ ByUserAgrees(k)' /\ ByGroupAgrees(k)'
                      /\ UserRecord(k) \in {"none", db'[k]} /\ GroupRecord(k) \in {"none", db'[k]}
    BY <1>1 DEF SettledAgree
  <2>1. CASE k = key[t]
    BY <1>1, <1>4, <1>5, <2>1 DEF SingleAgrees, ByUserAgrees, ByGroupAgrees, Says
  <2>2. CASE k # key[t]
    BY <1>1, <1>3, <2>2 DEF SettledAgree, SingleAgrees, ByUserAgrees, ByGroupAgrees
  <2> QED BY <2>1, <2>2
<1> QED BY <1>1, <1>6 DEF WorkOfWriter, WorkOfReader, Places, Written, Refreshed

LEMMA ExtendStep == ASSUME Sequential, IInv, NEW t \in Threads, Extend(t) PROVE Coherent'
<1> USE DEF Sequential, IInv, Coherent, Caching, Writing
<1> DEFINE u == key[t].user
           g == key[t].group
<1>1. /\ pc[t] = "extend" /\ pc'[t] = "idle" /\ work[t] = {}
      /\ UNCHANGED <<db, single, op, key, work, failed>>
      /\ u \in Users /\ g \in Groups
  BY DEF Extend, Places, TypeOK, Keys
<1>2. \A k \in Keys : Settled(k)' => Settled(k)
  BY <1>1 DEF Settled
<1>3. \A k \in Keys : ~InHand(t, k)
  BY <1>1 DEF InHand
<1>4. \A k \in Keys : UserRecord(k)' = UserRecord(k) /\ GroupRecord(k)' = GroupRecord(k)
  <2>1. byUser' = byUser \/ \E b \in BOOLEAN : byUser' = [byUser EXCEPT ![u].live = b]
    BY DEF Extend
  <2>2. byGroup' = byGroup \/ \E b \in BOOLEAN : byGroup' = [byGroup EXCEPT ![g].live = b]
    BY DEF Extend
  <2>3. \A k \in Keys : UserRecord(k)' = UserRecord(k)
    BY <1>1, <2>1, UserLive DEF UserRecord
  <2>4. \A k \in Keys : GroupRecord(k)' = GroupRecord(k)
    BY <1>1, <2>2, GroupLive DEF GroupRecord
  <2> QED BY <2>3, <2>4
<1>5. ASSUME NEW k \in Keys, Settled(k)' PROVE ByUserAgrees(k)'
  <2>1. CASE op[t] = "listUser"
    <3>1. PICK b \in BOOLEAN : byUser' = [byUser EXCEPT ![u].live = b]
      BY <2>1 DEF Extend
    <3>2. byUser'[k.user].live => k.user = u \/ byUser[k.user].live
      BY <1>1, <3>1, UserLive
    <3>3. k.user = u => Says(UserRecord(k)) = db[k]
      BY <1>1, <1>3, <1>5, <2>1 DEF Refreshed, Settled
    <3>4. byUser'[k.user].live => Says(UserRecord(k)) = db[k]
      BY <1>2, <1>5, <3>2, <3>3 DEF SettledAgree, ByUserAgrees, UserRecord
    <3> QED BY <1>1, <1>4, <3>4 DEF ByUserAgrees, UserRecord
  <2>2. CASE op[t] # "listUser"
    BY <1>1, <1>2, <1>5, <2>2 DEF Extend, SettledAgree, ByUserAgrees
  <2> QED BY <2>1, <2>2
<1>6. ASSUME NEW k \in Keys, Settled(k)' PROVE ByGroupAgrees(k)'
  <2>1. CASE op[t] = "listGroup"
    <3>1. PICK b \in BOOLEAN : byGroup' = [byGroup EXCEPT ![g].live = b]
      BY <2>1 DEF Extend
    <3>2. byGroup'[k.group].live => k.group = g \/ byGroup[k.group].live
      BY <1>1, <3>1, GroupLive
    <3>3. k.group = g => Says(GroupRecord(k)) = db[k]
      BY <1>1, <1>3, <1>6, <2>1 DEF Refreshed, Settled
    <3>4. byGroup'[k.group].live => Says(GroupRecord(k)) = db[k]
      BY <1>2, <1>6, <3>2, <3>3 DEF SettledAgree, ByGroupAgrees, GroupRecord
    <3> QED BY <1>1, <1>4, <3>4 DEF ByGroupAgrees, GroupRecord
  <2>2. CASE op[t] # "listGroup"
    BY <1>1, <1>2, <1>6, <2>2 DEF Extend, SettledAgree, ByGroupAgrees
  <2> QED BY <2>1, <2>2
<1>7. SettledAgree'
  BY <1>1, <1>2, <1>4, <1>5, <1>6 DEF SettledAgree, SingleAgrees
<1> QED BY <1>1, <1>7 DEF WorkOfWriter, WorkOfReader, Places, Written, Refreshed

\* ... and the passing of time.
LEMMA ExpireStep == ASSUME Sequential, IInv, Expire PROVE Coherent'
<1> USE DEF Sequential, IInv, Coherent
<1>1. UNCHANGED <<db, pc, op, key, work, failed>>
  BY DEF Expire, ExpireSingle, ExpireByUser, ExpireByGroup
<1>2. \A k \in Keys : single'[k].state = single[k].state /\ (single'[k].live => single[k].live)
  <2>1. single' = single \/ \E k \in Keys : single' = [single EXCEPT ![k].live = FALSE]
    BY DEF Expire, ExpireSingle, ExpireByUser, ExpireByGroup
  <2>2. \A k \in Keys : single[k] \in Entry
    BY DEF TypeOK
  <2> QED BY <2>1, <2>2 DEF TypeOK, Entry
<1>3. \A k \in Keys : UserRecord(k)' = UserRecord(k)
                      /\ (byUser'[k.user].live => byUser[k.user].live)
  <2>1. byUser' = byUser \/ \E u \in Users : byUser' = [byUser EXCEPT ![u].live = FALSE]
    BY DEF Expire, ExpireSingle, ExpireByUser, ExpireByGroup
  <2>2. CASE byUser' = byUser
    BY <2>2 DEF UserRecord
  <2>3. ASSUME NEW u \in Users, byUser' = [byUser EXCEPT ![u].live = FALSE]
        PROVE  \A k \in Keys : UserRecord(k)' = UserRecord(k)
                               /\ (byUser'[k.user].live => byUser[k.user].live)
    BY <2>3, UserLive
  <2> QED BY <2>1, <2>2, <2>3
<1>4. \A k \in Keys : GroupRecord(k)' = GroupRecord(k)
                      /\ (byGroup'[k.group].live => byGroup[k.group].live)
  <2>1. byGroup' = byGroup \/ \E g \in Groups : byGroup' = [byGroup EXCEPT ![g].live = FALSE]
    BY DEF Expire, ExpireSingle, ExpireByUser, ExpireByGroup
  <2>2. CASE byGroup' = byGroup
    BY <2>2 DEF GroupRecord
  <2>3. ASSUME NEW g \in Groups, byGroup' = [byGroup EXCEPT ![g].live = FALSE]
        PROVE  \A k \in Keys : GroupRecord(k)' = GroupRecord(k)
                               /\ (byGroup'[k.group].live => byGroup[k.group].live)
    BY <2>3, GroupLive
  <2> QED BY <2>1, <2>2, <2>3
<1>5. \A k \in Keys : Settled(k)' => Settled(k)
  BY <1>1 DEF Settled, Writing
<1>6. SettledAgree'
  <2> SUFFICES ASSUME NEW k \in Keys, Settled(k)
               PROVE  /\ SingleAgrees(k)' /\ ByUserAgrees(k)' /\ ByGroupAgrees(k)'
                      /\ UserRecord(k)' \in {"none", db[k]} /\ GroupRecord(k)' \in {"none", db[k]}
    BY <1>1, <1>5 DEF SettledAgree
  <2>1. SingleAgrees(k)'
    BY <1>1, <1>2 DEF SettledAgree, SingleAgrees
  <2>2. ByUserAgrees(k)'
    BY <1>1, <1>3 DEF SettledAgree, ByUserAgrees, UserRecord
  <2>3. ByGroupAgrees(k)'
    BY <1>1, <1>4 DEF SettledAgree, ByGroupAgrees, GroupRecord
  <2> QED BY <1>3, <1>4, <2>1, <2>2, <2>3 DEF SettledAgree
<1>7. \A t \in Threads : key[t] \in Keys
  BY DEF TypeOK
<1>8. Written'
  <2>1. \A t \in Threads : Writing(t)' = Writing(t) /\ Target(t)' = Target(t)
    BY <1>1 DEF Writing, Target
  <2>2. \A t \in Threads : UserRecord(key[t])' = UserRecord(key[t])
                           /\ GroupRecord(key[t])' = GroupRecord(key[t])
    BY <1>1, <1>3, <1>4, <1>7
  <2> QED BY <1>1, <1>2, <1>7, <2>1, <2>2 DEF Written
<1>9. Refreshed'
  <2>1. \A t \in Threads : UserRecord(key[t])' = UserRecord(key[t])
    BY <1>1, <1>3, <1>7
  <2>2. \A t \in Threads, k \in Keys : InHand(t, k)' = InHand(t, k)
    BY <1>1 DEF InHand
  <2>3. \A k \in Keys : Says(UserRecord(k))' = Says(UserRecord(k))
                        /\ Says(GroupRecord(k))' = Says(GroupRecord(k))
    BY <1>3, <1>4 DEF Says
  <2> QED BY <1>1, <2>1, <2>2, <2>3 DEF Refreshed
<1> QED BY <1>1, <1>6, <1>8, <1>9 DEF WorkOfWriter, WorkOfReader, Places

LEMMA CoherentStep == ASSUME Sequential, IInv, [Next]_vars PROVE Coherent'
<1>1. ASSUME NEW t \in Threads, Begin(t) \/ Proceed(t) PROVE Coherent'
  BY <1>1, BeginStep, PutStep, DeleteStep, ReadStep, CacheSingleStep, CacheByUserStep,
     CacheByGroupStep, ExtendStep DEF Proceed
<1>2. CASE Expire
  BY <1>2, ExpireStep
<1>3. ASSUME NEW k \in Keys, Propagate(k) PROVE Coherent'
  BY <1>3 DEF Propagate, Sequential
<1>4. CASE UNCHANGED vars
  BY <1>4 DEF IInv, Coherent, SettledAgree, WorkOfWriter, WorkOfReader, Places, Written,
     Refreshed, Settled, Writing, Target, InHand, UserRecord, GroupRecord, SingleAgrees,
     ByUserAgrees, ByGroupAgrees
<1> QED BY <1>1, <1>2, <1>3, <1>4 DEF Next

LEMMA CoherentInit == Init => Coherent
<1> SUFFICES ASSUME Init PROVE Coherent
  OBVIOUS
<1>1. \A k \in Keys : /\ ~single[k].live /\ ~byUser[k.user].live /\ ~byGroup[k.group].live
                      /\ UserRecord(k) = "none" /\ GroupRecord(k) = "none"
  BY DEF Init, Keys, UserRecord, GroupRecord
<1>2. SettledAgree
  BY <1>1 DEF SettledAgree, SingleAgrees, ByUserAgrees, ByGroupAgrees
<1> QED BY <1>2 DEF Init, Coherent, WorkOfWriter, WorkOfReader, Places, Written, Refreshed,
           Caching, Writing

LEMMA CoherentCaches == Coherent => CachesAgree
BY DEF Coherent, SettledAgree, CachesAgree, Settled, Writing, Caching

\* With one thread and fresh reads the three caches agree with the database
\* between calls, whatever writes fail, except on keys whose removal failed
\* (setUserStatusInGroup writes the database first, removeUserFromGroup last).
THEOREM CachesCoherent == Sequential => (Spec => []CachesAgree)
<1> SUFFICES ASSUME Sequential PROVE Spec => []CachesAgree
  OBVIOUS
<1>1. Init => IInv
  BY TypeInit, CoherentInit DEF IInv
<1>2. IInv /\ [Next]_vars => IInv'
  BY TypeStep, CoherentStep DEF IInv
<1>3. IInv => CachesAgree
  BY CoherentCaches DEF IInv
<1> QED BY <1>1, <1>2, <1>3, PTL DEF Spec
=============================================================================
