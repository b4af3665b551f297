----------------------------- MODULE GroupRecords -----------------------------
(***************************************************************************)
(* Groups and requests for groups (src/src/GroupCommands.cpp: createGroup, *)
(* updateGroup, updateGroupRequest, deleteGroup, approveSubgroupRequest,   *)
(* denySubgroupRequest, and the functions of src/src/PersistentStore.cpp   *)
(* they call).  Both kinds are items of one table, told apart by their     *)
(* attributes, with a cache each.  Handlers look a name up, in the cache   *)
(* if it is there, and then write unconditionally, one store or cache      *)
(* operation after the other.                                              *)
(***************************************************************************)
EXTENDS Naturals, FiniteSets

CONSTANTS
    Threads,    \* server threads
    Names,      \* names of groups within one enclosing group
    MaxCalls,   \* bound: number of calls in a behaviour
    MaxTroubles \* bound: number of failing requests, outdated reads and restarts

ASSUME GroupRecordsAssumption ==
    "none" \notin Names /\ MaxCalls \in Nat /\ MaxTroubles \in Nat

VARIABLES
    item,         \* attributes of each name's item; {}: there is no item
    member,       \* names of which somebody is a member
    groupCache,   \* "none", or what the cached Group says: "group", "pending"
    requestCache, \* names with a cached GroupRequest
    call,         \* what each thread does
    calls, troubles,
    stale,        \* history: names whose caches a race or an old read may have left wrong
    unclear       \* history: names on which calls that write have met or were misled

caches == <<groupCache, requestCache>>
bounds == <<calls, troubles>>
history == <<stale, unclear>>
vars == <<item, member, groupCache, requestCache, call, calls, troubles, stale, unclear>>

\* "details" are the attributes an update writes; "requester" stands for the
\* secondaryAttributes of a request as well.
Reserved  == {"unixID"}
Requested == {"unixID", "details", "requester"}
Founded   == {"unixID", "details", "creationDate"}
Attributes == Requested \cup Founded

\* getGroup and getGroupRequest throw on any other item.
ReadableAsRequest(i) == Requested \subseteq i
Readable(i) == ReadableAsRequest(i) \/ ("requester" \notin i /\ Founded \subseteq i)

Pending(i) == IF "requester" \in i THEN "pending" ELSE "group"

Ops == {"look", "createGroup", "createRequest", "update", "rename", "approve", "deny", "delete"}

\* name is the subject of the current step, other the name a rename involves.
Idle == [op |-> "none", name |-> "none", other |-> "none", pc |-> "idle", seen |-> "none"]
Active(t) == call[t].pc # "idle"
At(t, label) == call[t].pc = label
Touches(t, n) == Active(t) /\ n \in {call[t].name, call[t].other}
Busy(n) == \E t \in Threads : Touches(t, n)
Changing(n) == \E t \in Threads : Touches(t, n) /\ call[t].op # "look"

\* stale and unclear, less the names for which nothing is left of the race.
StillStale == {n \in stale : groupCache[n] # "none" \/ n \in requestCache \/ Busy(n)}
StillUnclear == {n \in unclear : item[n] # {} \/ n \in member \/ n \in StillStale}

Goto(t, label) ==
    call' = [call EXCEPT ![t] = IF label = "idle" THEN Idle ELSE [@ EXCEPT !.pc = label]]

Init ==
    /\ item \in [Names -> {{}, Requested, Founded}]
    /\ member = {}
    /\ groupCache = [n \in Names |-> "none"]
    /\ requestCache = {}
    /\ call = [t \in Threads |-> Idle]
    /\ calls = 0 /\ troubles = 0
    /\ stale = {} /\ unclear = {}
-----------------------------------------------------------------------------
\* A handler is called; o differs from n if a request is to be renamed.
Begin(t, op, n, o, label) ==
    /\ ~Active(t)
    /\ calls < MaxCalls /\ calls' = calls + 1
    /\ call' = [call EXCEPT ![t] =
                  [op |-> op, name |-> n, other |-> o, pc |-> label, seen |-> "none"]]
    /\ IF op = "look"
       THEN /\ stale' = StillStale \cup {m \in {n, o} : Changing(m)}
            /\ UNCHANGED unclear
       ELSE /\ stale' = StillStale \cup {m \in {n, o} : Busy(m)}
            /\ unclear' = StillUnclear \cup {m \in {n, o} : Changing(m) \/ m \in StillStale}
    /\ UNCHANGED <<item, member, caches, troubles>>

\* The handler first looks up what it was asked about.  (denySubgroupRequest
\* takes a relative name to be within the root group, whatever parent was
\* given: the name it denies is then another one.)
BeginAny(t) ==
    \E n \in Names, op \in Ops :
       \/ op \notin {"rename", "deny"} /\ Begin(t, op, n, n, "getGroup")
       \/ op \in {"look", "deny"} /\ Begin(t, op, n, n, "getRequest")
       \/ op = "rename" /\ \E o \in Names \ {n} : Begin(t, op, n, o, "getGroup")

Trouble == troubles < MaxTroubles /\ troubles' = troubles + 1

\* Mutant of AfterGroup: an update does not test whether there is a group.
AfterGroupUntested(op, kind) ==
    CASE kind = "none" /\ op \in {"createGroup", "createRequest", "move"} -> "reserve"
      [] kind # "none" /\ op = "delete"                                   -> "members"
      [] kind # "pending" /\ op = "update"                                -> "update"
      [] kind = "pending" /\ op \in {"update", "rename", "approve"}       -> "getRequest"
      [] OTHER                                                            -> "idle"

\* What a handler does next once getGroup has returned.
AfterGroup(op, kind) ==
    CASE kind = "none" /\ op \in {"createGroup", "createRequest", "move"} -> "reserve"
      [] kind # "none" /\ op = "delete"                                   -> "members"
      [] kind = "group" /\ op = "update"                                  -> "update"
      [] kind = "pending" /\ op \in {"update", "rename", "approve"}       -> "getRequest"
      [] OTHER                                                            -> "idle"

\* What getGroup does with the item it has been given.
ReadGroup(t, i) ==
    CASE i = {}      -> Goto(t, AfterGroup(call[t].op, "none"))
      [] Readable(i) -> call' = [call EXCEPT ![t].seen = Pending(i), ![t].pc = "fillGroup"]
      [] OTHER       -> Goto(t, "idle")

GetGroup(t) ==
    /\ At(t, "getGroup")
    /\ LET n == call[t].name
       IN  IF groupCache[n] # "none"
           THEN Goto(t, AfterGroup(call[t].op, groupCache[n]))
           ELSE ReadGroup(t, item[n])
    /\ UNCHANGED <<item, member, caches, bounds, history>>

\* getGroup, or listGroups for one record: the cache is filled some time after
\* the read.
FillGroup(t) ==
    /\ At(t, "fillGroup")
    /\ groupCache' = [groupCache EXCEPT ![call[t].name] = call[t].seen]
    /\ Goto(t, AfterGroup(call[t].op, call[t].seen))
    /\ UNCHANGED <<item, member, requestCache, bounds, history>>

\* What a handler does next once getGroupRequest has returned.  The first
\* lookup of an approval is followed by another, in approveGroupRequest, or by
\* a removal if the requester has left the enclosing group.
AfterRequest(t, found) ==
    LET c == call[t]
    IN  \/ found /\ c.op = "update" /\ Goto(t, "updateRequest")
        \/ found /\ c.op = "deny" /\ Goto(t, "members")
        \/ found /\ c.op = "rename"
           /\ call' = [call EXCEPT ![t] = [op |-> "move", name |-> c.other, other |-> c.name,
                                           pc |-> "getGroup", seen |-> "none"]]
        \/ found /\ c.op = "approve"
           /\ \/ Goto(t, "members")
              \/ call' = [call EXCEPT ![t].op = "approving", ![t].pc = "getRequest"]
        \/ found /\ c.op = "approving" /\ Goto(t, "approve")
        \/ ~found /\ c.op = "approving" /\ Goto(t, "admin")
        \/ c.op = "look" /\ Goto(t, "idle")
        \/ ~found /\ c.op # "approving" /\ Goto(t, "idle")

GetRequest(t) ==
    /\ At(t, "getRequest")
    /\ LET n == call[t].name
       IN  \/ n \in requestCache /\ AfterRequest(t, TRUE)
           \/ n \notin requestCache /\ "requester" \notin item[n] /\ AfterRequest(t, FALSE)
           \/ n \notin requestCache /\ ReadableAsRequest(item[n]) /\ Goto(t, "fillRequest")
           \/ /\ n \notin requestCache /\ "requester" \in item[n]
              /\ ~ReadableAsRequest(item[n])
              /\ Goto(t, "idle")
    /\ UNCHANGED <<item, member, caches, bounds, history>>

FillRequest(t) ==
    /\ At(t, "fillRequest")
    /\ requestCache' = requestCache \cup {call[t].name}
    /\ AfterRequest(t, TRUE)
    /\ UNCHANGED <<item, member, groupCache, bounds, history>>
-----------------------------------------------------------------------------
\* addGroup and addGroupRequest: the allocation of an ID writes an item with
\* nothing else, whatever was there; PutItem completes it.
Reserve(t) ==
    /\ At(t, "reserve")
    /\ item' = [item EXCEPT ![call[t].name] = Reserved]
    /\ Goto(t, "put")
    /\ UNCHANGED <<member, caches, bounds, history>>

Put(t) ==
    /\ At(t, "put")
    /\ IF call[t].op = "createGroup"
       THEN item' = [item EXCEPT ![call[t].name] = Founded] /\ Goto(t, "cacheGroup")
       ELSE item' = [item EXCEPT ![call[t].name] = Requested] /\ Goto(t, "cacheRequest")
    /\ UNCHANGED <<member, caches, bounds, history>>

\* updateGroup and updateGroupRequest: UpdateItem adds what is missing, the
\* item itself included.
Update(t) ==
    /\ At(t, "update")
    /\ item' = [item EXCEPT ![call[t].name] = @ \cup {"details"}]
    /\ Goto(t, "cacheGroup")
    /\ UNCHANGED <<member, caches, bounds, history>>

UpdateRequest(t) ==
    /\ At(t, "updateRequest")
    /\ item' = [item EXCEPT ![call[t].name] = @ \cup {"details", "requester"}]
    /\ Goto(t, "cacheRequest")
    /\ UNCHANGED <<member, caches, bounds, history>>

CacheGroup(t) ==
    /\ At(t, "cacheGroup")
    /\ groupCache' = [groupCache EXCEPT ![call[t].name] = "group"]
    /\ Goto(t, IF call[t].op = "createGroup" THEN "admin" ELSE "idle")
    /\ UNCHANGED <<item, member, requestCache, bounds, history>>

\* Mutant of CacheRequest: a GroupRequest without a name is cached.
CacheRequestUnnamed(t) ==
    /\ At(t, "cacheRequest")
    /\ requestCache' = requestCache \cup {"none"}
    /\ Goto(t, "idle")
    /\ UNCHANGED <<item, member, groupCache, bounds, history>>

\* Only updateGroupRequest erases the cached group.  A rename goes on to remove
\* the old item.
CacheRequest(t) ==
    /\ At(t, "cacheRequest")
    /\ LET c == call[t]
       IN  /\ requestCache' = requestCache \cup {c.name}
           /\ groupCache' =
                IF c.op = "update" THEN [groupCache EXCEPT ![c.name] = "none"] ELSE groupCache
           /\ IF c.op = "move"
              THEN call' = [call EXCEPT ![t].name = c.other, ![t].other = c.name,
                                        ![t].pc = "members"]
              ELSE Goto(t, "idle")
    /\ UNCHANGED <<item, member, bounds, history>>
-----------------------------------------------------------------------------
\* approveGroupRequest: UpdateItem, then the caches.
Approve(t) ==
    /\ At(t, "approve")
    /\ item' = [item EXCEPT ![call[t].name] = (@ \ {"requester"}) \cup {"creationDate"}]
    /\ Goto(t, "cacheApproved")
    /\ UNCHANGED <<member, caches, bounds, history>>

CacheApproved(t) ==
    /\ At(t, "cacheApproved")
    /\ requestCache' = requestCache \ {call[t].name}
    /\ groupCache' = [groupCache EXCEPT ![call[t].name] = "group"]
    /\ Goto(t, "admin")
    /\ UNCHANGED <<item, member, bounds, history>>

\* The requester, or the creator, becomes an admin of the group, unless not
\* a member of the enclosing one; done even if the approval has failed.
SetAdmin(t) ==
    /\ At(t, "admin")
    /\ member' \in {member, member \cup {call[t].name}}
    /\ Goto(t, "idle")
    /\ UNCHANGED <<item, caches, bounds, history>>
-----------------------------------------------------------------------------
\* Mutant of RemoveMembers: only the memberships in the list cache, which is
\* empty, are removed.
RemoveNoMembers(t) ==
    /\ At(t, "members")
    /\ Goto(t, "erase")
    /\ UNCHANGED <<item, member, caches, bounds, history>>

\* removeGroup: the memberships, the cache entries, the item.
RemoveMembers(t) ==
    /\ At(t, "members")
    /\ member' = member \ {call[t].name}
    /\ Goto(t, "erase")
    /\ UNCHANGED <<item, caches, bounds, history>>

\* Mutant of EraseCaches: the cached request is kept.
EraseGroupOnly(t) ==
    /\ At(t, "erase")
    /\ groupCache' = [groupCache EXCEPT ![call[t].name] = "none"]
    /\ Goto(t, "deleteItem")
    /\ UNCHANGED <<item, member, requestCache, bounds, history>>

EraseCaches(t) ==
    /\ At(t, "erase")
    /\ groupCache' = [groupCache EXCEPT ![call[t].name] = "none"]
    /\ requestCache' = requestCache \ {call[t].name}
    /\ Goto(t, "deleteItem")
    /\ UNCHANGED <<item, member, bounds, history>>

DeleteItem(t) ==
    /\ At(t, "deleteItem")
    /\ item' = [item EXCEPT ![call[t].name] = {}]
    /\ Goto(t, "idle")
    /\ UNCHANGED <<member, caches, bounds, history>>
-----------------------------------------------------------------------------
\* A read from the database fails, which counts as having found nothing, or the
\* database answers from a copy, or an index, that does not have the item yet:
\* what is there is overwritten by a creation, kept by an approval, and the
\* members of a group that is deleted stay members.
ReadFails(t) ==
    /\ Trouble
    /\ LET c == call[t]
           n == c.name
           lost == \/ c.pc = "getGroup" /\ AfterGroup(c.op, "none") = "reserve" /\ item[n] # {}
                   \/ c.pc = "getRequest" /\ c.op = "approving"
                   \/ c.pc = "members" /\ n \in member
       IN  /\ \/ c.pc = "getGroup" /\ Goto(t, AfterGroup(c.op, "none"))
              \/ c.pc = "getRequest" /\ AfterRequest(t, FALSE)
              \/ c.pc = "members" /\ Goto(t, "erase")
           /\ unclear' = unclear \cup (IF lost THEN {n} ELSE {})
    /\ UNCHANGED <<item, member, caches, calls, stale>>

\* None of the reads asks for consistency, so that a copy of the database may
\* answer with what an item once was; any earlier life of the name will do.  The
\* answer goes into the caches and to the handler, which writes according to it.
ReadsFormer(t) ==
    /\ call[t].pc \in {"getGroup", "getRequest"}
    /\ Trouble
    /\ LET n == call[t].name
       IN  \E i \in {Reserved, Requested, Founded} \ {item[n]} :
             /\ \/ At(t, "getGroup") /\ groupCache[n] = "none" /\ ReadGroup(t, i)
                \/ /\ At(t, "getRequest") /\ n \notin requestCache
                   /\ i = Requested /\ Goto(t, "fillRequest")
             /\ stale' = stale \cup (IF Readable(i) THEN {n} ELSE {})
             /\ unclear' = unclear \cup (IF Readable(i) /\ Changing(n) THEN {n} ELSE {})
    /\ UNCHANGED <<item, member, caches, calls>>

\* A write to the database fails.  Most handlers return 500 at once; the
\* approval still makes the requester an admin.  A failed PutItem leaves the
\* reserved item, on which every later lookup throws.
WriteFails(t) ==
    /\ Trouble
    /\ call[t].pc \in {"reserve", "put", "update", "updateRequest", "approve", "members",
                       "deleteItem"}
    /\ IF At(t, "approve") THEN Goto(t, "admin") ELSE Goto(t, "idle")
    /\ unclear' = unclear \cup (IF call[t].pc \in {"put", "approve"} THEN {call[t].name} ELSE {})
    /\ UNCHANGED <<item, member, caches, calls, stale>>

\* The server ends and is started again.
Restart ==
    /\ Trouble
    /\ call' = [t \in Threads |-> Idle]
    /\ groupCache' = [n \in Names |-> "none"]
    /\ requestCache' = {}
    /\ stale' = {}
    /\ unclear' = unclear \cup {call[t].name : t \in {s \in Threads : At(s, "put")}}
    /\ UNCHANGED <<item, member, calls>>

\* A cache entry is no longer valid: the lookups ignore it from then on.
Expire ==
    /\ \/ \E n \in Names : groupCache[n] # "none"
             /\ groupCache' = [groupCache EXCEPT ![n] = "none"]
             /\ UNCHANGED requestCache
       \/ \E n \in requestCache : requestCache' = requestCache \ {n} /\ UNCHANGED groupCache
    /\ UNCHANGED <<item, member, call, bounds, history>>

Step(t) ==
    \/ GetGroup(t) \/ FillGroup(t) \/ GetRequest(t) \/ FillRequest(t)
    \/ Reserve(t) \/ Put(t) \/ Update(t) \/ UpdateRequest(t) \/ CacheGroup(t) \/ CacheRequest(t)
    \/ Approve(t) \/ CacheApproved(t) \/ SetAdmin(t)
    \/ RemoveMembers(t) \/ EraseCaches(t) \/ DeleteItem(t)

Next ==
    \/ \E t \in Threads : BeginAny(t) \/ Step(t) \/ ReadFails(t) \/ ReadsFormer(t) \/ WriteFails(t)
    \/ Restart \/ Expire

Spec == Init /\ [][Next]_vars
-----------------------------------------------------------------------------
TypeOK ==
    /\ item \in [Names -> SUBSET Attributes]
    /\ member \subseteq Names
    /\ groupCache \in [Names -> {"none", "group", "pending"}]
    /\ requestCache \subseteq Names
    /\ call \in [Threads -> [op : Ops \cup {"none", "move", "approving"},
                             name : Names \cup {"none"}, other : Names \cup {"none"},
                             pc : {"idle", "getGroup", "fillGroup", "getRequest", "fillRequest",
                                   "reserve", "put", "update", "updateRequest", "cacheGroup",
                                   "cacheRequest", "approve", "cacheApproved", "admin", "members",
                                   "erase", "deleteItem"},
                             seen : {"none", "group", "pending"}]]
    /\ calls \in 0 .. MaxCalls /\ troubles \in 0 .. MaxTroubles
    /\ stale \subseteq Names /\ unclear \subseteq Names

\* Every lookup of a name can read what is there, unless calls that change it
\* have met, or one has worked on a stale cache entry or an outdated read, has
\* taken a failed read for an empty answer, or failed between the reservation
\* of an ID and PutItem (PersistentStore.cpp:1424-1443, 1890-1912).
RecordsReadable ==
    \A n \in Names : n \notin unclear /\ ~Changing(n) => item[n] = {} \/ Readable(item[n])

\* Between calls the caches of this server agree with the database, however
\* earlier calls have ended, unless a call has met one that changes the name or
\* an outdated read has been cached: then from the next expiry or restart on
\* (PersistentStore.cpp:1506-1511, 1889-1917, 2008-2018).
CachesAgree ==
    \A n \in Names : n \notin stale \cup unclear /\ ~Changing(n) =>
       /\ groupCache[n] # "none" => item[n] # {} /\ groupCache[n] = Pending(item[n])
       /\ n \in requestCache => "requester" \in item[n]

\* For each name the handlers keep the promise of GroupLifecycle, as long as no
\* two that change it meet and none relies on a read that fails or is outdated.
KindOf(n) ==
    IF n \in unclear THEN "unclear"
    ELSE CASE item[n] \in {{}, Reserved} -> "none"
           [] "requester" \in item[n]    -> "request"
           [] OTHER                      -> "group"

Lifecycle == INSTANCE GroupLifecycle WITH
    kind   <- [n \in Names |-> KindOf(n)],
    member <- [n \in Names |-> n \in member \ unclear]
LifecycleSpec == Lifecycle!Spec
=============================================================================
