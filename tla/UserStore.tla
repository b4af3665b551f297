------------------------------ MODULE UserStore ------------------------------
(***************************************************************************)
(* The record of one account and the three caches in front of it           *)
(* (src/src/PersistentStore.cpp: addUser, getUser, findUserByToken,        *)
(* findUserByGlobusID, updateUser, removeUser, listUsers) under the        *)
(* handlers that use them (src/src/UserCommands.cpp).  Every change reads  *)
(* the whole record, perhaps from a cache, and writes all of it back; each *)
(* cache is changed in a step of its own.                                  *)
(***************************************************************************)
EXTENDS Naturals, FiniteSets

CONSTANTS
    Threads,     \* server threads
    GlobusIDs,   \* Globus identities the account is given
    MaxCalls,    \* bound: number of calls in a behaviour
    MaxTroubles  \* bound: number of failing requests, outdated reads and restarts

ASSUME UserStoreAssumption ==
    "none" \notin GlobusIDs /\ MaxCalls \in Nat /\ MaxTroubles \in Nat

VARIABLES
    db,          \* the item: its state, and its token and Globus ID
    userCache,   \* the record by name, which is "none", "expired" or "live"
    tokenCache,  \* by token: the Globus ID of the cached record, or "none"
    globusCache, \* by Globus ID: the token of the cached record, or 0
    call,        \* what each thread does
    calls, troubles,
    past,        \* the records the item has held: what an outdated read may find
    retired,     \* history: tokens the item has had
    left,        \* history: Globus IDs given up that may still be cached
    stale,       \* history: a race or an outdated read may have left the caches wrong
    unclear      \* history: calls that write have met or were misled

caches == <<userCache, tokenCache, globusCache>>
bounds == <<calls, troubles>>
history == <<past, retired, left, stale, unclear>>
vars == <<db, userCache, tokenCache, globusCache, call, calls, troubles,
          past, retired, left, stale, unclear>>

\* generateUserToken never gives the same token twice: those given out so far
\* are 1 .. calls + 1, one for each call that may need one.
Tokens == 1 .. MaxCalls + 1
Records == [token : Tokens, globus : GlobusIDs]
Nothing == [token |-> 0, globus |-> "none"]

\* "reserved": only the ID; "partial": written by an update, without what only
\* addUser writes.  getUser and listUsers throw on both.
DBStates == {"gone", "reserved", "partial", "whole"}
Indexed == db.state \in {"partial", "whole"}

Ops == {"look", "list", "findToken", "findGlobus", "edit", "replace", "touch",
        "delete", "deleteSelf", "create"}
Readers == {"look", "list", "findToken", "findGlobus"}

\* old is the record as it was read, new as it is to be written or cached.
Idle == [op |-> "none", token |-> 0, globus |-> "none", old |-> Nothing, new |-> Nothing,
         pc |-> "idle", next |-> "idle"]
Active(t) == call[t].pc # "idle"
At(t, label) == call[t].pc = label
Busy == \E t \in Threads : Active(t)
Changing == \E t \in Threads : Active(t) /\ call[t].op \notin Readers

Cached ==
    \/ userCache.held = "live"
    \/ \E k \in Tokens : tokenCache[k] # "none"
    \/ \E g \in GlobusIDs : globusCache[g] # 0
StillStale == stale /\ (Cached \/ Busy)
StillUnclear == unclear /\ (db.state # "gone" \/ StillStale)

Goto(t, label) ==
    call' = [call EXCEPT ![t] = IF label = "idle" THEN Idle ELSE [@ EXCEPT !.pc = label]]

\* The item is written: its record is now a former one.
Overwrite == past' = past \cup ({db.rec} \ {Nothing})

Init ==
    /\ \/ db = [state |-> "gone", rec |-> Nothing]
       \/ \E g \in GlobusIDs : db = [state |-> "whole", rec |-> [token |-> 1, globus |-> g]]
    /\ userCache = [held |-> "none", rec |-> Nothing]
    /\ tokenCache = [k \in Tokens |-> "none"]
    /\ globusCache = [g \in GlobusIDs |-> 0]
    /\ call = [t \in Threads |-> Idle]
    /\ calls = 0 /\ troubles = 0
    /\ past = {} /\ retired = {} /\ left = {} /\ stale = FALSE /\ unclear = FALSE
-----------------------------------------------------------------------------
Begin(t, op, token, globus, label) ==
    /\ ~Active(t)
    /\ calls < MaxCalls /\ calls' = calls + 1
    /\ call' = [call EXCEPT ![t] = [Idle EXCEPT !.op = op, !.token = token, !.globus = globus,
                                                !.pc = label]]
    /\ IF op \in Readers
       THEN stale' = (StillStale \/ Changing) /\ UNCHANGED unclear
       ELSE stale' = (StillStale \/ Busy) /\ unclear' = (StillUnclear \/ Changing \/ StillStale)
    /\ UNCHANGED <<db, caches, troubles, past, retired, left>>

\* A new token is given to creations and replacements; a user who deletes the
\* account has been found by token, anybody else by name.
BeginAny(t) ==
    \/ \E op \in {"look", "touch", "delete"} : Begin(t, op, 0, "none", "getUser")
    \/ Begin(t, "list", 0, "none", "scan")
    \/ \E op \in {"findToken", "deleteSelf"}, k \in 1 .. calls + 1 :
          Begin(t, op, k, "none", "findToken")
    \/ \E g \in GlobusIDs :
          \/ Begin(t, "edit", 0, g, "getUser")
          \/ Begin(t, "findGlobus", 0, g, "findGlobus")
          \/ Begin(t, "create", calls + 2, g, "findGlobus")
    \/ Begin(t, "replace", calls + 2, "none", "getUser")

Trouble == troubles < MaxTroubles /\ troubles' = troubles + 1
-----------------------------------------------------------------------------
\* What follows once the user has been found: the record is copied and changed,
\* or removed; a lookup is over.
Changed(c, r) ==
    [r EXCEPT !.globus = IF c.op = "edit" THEN c.globus ELSE @,
              !.token = IF c.op = "replace" THEN c.token ELSE @]

Found(t, r) ==
    LET c == call[t]
    IN  CASE c.op \in {"edit", "replace", "touch"} ->
               call' = [call EXCEPT ![t].old = r, ![t].new = Changed(c, r), ![t].pc = "update"]
          [] c.op \in {"delete", "deleteSelf"} -> Goto(t, "findCached")
          [] OTHER -> Goto(t, "idle")

\* Mutant of GetUser: the expiration time is not looked at.
GetUserExpired(t) ==
    /\ At(t, "getUser")
    /\ IF userCache.held # "none" THEN Found(t, userCache.rec)
       ELSE IF db.state = "whole"
       THEN call' = [call EXCEPT ![t].old = db.rec, ![t].new = db.rec,
                                 ![t].pc = "cacheUser", ![t].next = "found"]
       ELSE Goto(t, "idle")
    /\ UNCHANGED <<db, caches, bounds, history>>

\* getUser has read a record: it goes to the three caches first.
ReadUser(t, r) ==
    call' = [call EXCEPT ![t].old = r, ![t].new = r, ![t].pc = "cacheUser", ![t].next = "found"]

GetUser(t) ==
    /\ At(t, "getUser")
    /\ IF userCache.held = "live" THEN Found(t, userCache.rec)
       ELSE IF db.state = "whole" THEN ReadUser(t, db.rec)
       ELSE Goto(t, "idle")
    /\ UNCHANGED <<db, caches, bounds, history>>

Proceed(t) ==
    /\ At(t, "found")
    /\ Found(t, call[t].old)
    /\ UNCHANGED <<db, caches, bounds, history>>

\* findUserByToken: the cache, the ByToken index, and then getUser.
FindToken(t) ==
    /\ At(t, "findToken")
    /\ LET k == call[t].token
       IN  IF tokenCache[k] # "none" THEN Found(t, [token |-> k, globus |-> tokenCache[k]])
           ELSE IF Indexed /\ db.rec.token = k THEN Goto(t, "getUser")
           ELSE Goto(t, "idle")
    /\ UNCHANGED <<db, caches, bounds, history>>

\* findUserByGlobusID: the cache, then the ByGlobusID index, whose answer goes
\* to this cache only.  createUser goes on if there is no such user.
ReadGlobus(t, r) ==
    call' = [call EXCEPT ![t].old = r, ![t].new = r, ![t].pc = "cacheGlobus", ![t].next = "idle"]

FindGlobus(t) ==
    /\ At(t, "findGlobus")
    /\ LET g == call[t].globus
       IN  IF globusCache[g] # 0 THEN Goto(t, "idle")
           ELSE IF Indexed /\ db.rec.globus = g THEN ReadGlobus(t, db.rec)
           ELSE Goto(t, IF call[t].op = "create" THEN "nameInUse" ELSE "idle")
    /\ UNCHANGED <<db, caches, bounds, history>>

\* listUsers: the records of a scan go to the cache by name only.
ReadScan(t, r) ==
    call' = [call EXCEPT ![t].new = r, ![t].pc = "cacheUser", ![t].next = "idle"]

Scan(t) ==
    /\ At(t, "scan")
    /\ IF db.state = "whole" THEN ReadScan(t, db.rec) ELSE Goto(t, "idle")
    /\ UNCHANGED <<db, caches, bounds, history>>
-----------------------------------------------------------------------------
\* replaceCacheRecord on the caches, one after the other.
CacheUser(t) ==
    /\ At(t, "cacheUser")
    /\ LET c == call[t]
       IN  /\ userCache' = [held |-> "live", rec |-> c.new]
           /\ Goto(t, IF c.op = "list" THEN "idle"
                      ELSE IF c.old.token \notin {0, c.new.token} THEN "dropToken"
                      ELSE "cacheToken")
    /\ UNCHANGED <<db, tokenCache, globusCache, bounds, history>>

\* Mutant of DropToken: the entry of the old token is left.
DropNoToken(t) ==
    /\ At(t, "dropToken")
    /\ Goto(t, "cacheToken")
    /\ UNCHANGED <<db, caches, bounds, history>>

\* updateUser: the entry of the token the caller has read, if it is not the new
\* one.
DropToken(t) ==
    /\ At(t, "dropToken")
    /\ tokenCache' = [tokenCache EXCEPT ![call[t].old.token] = "none"]
    /\ Goto(t, "cacheToken")
    /\ UNCHANGED <<db, userCache, globusCache, bounds, history>>

CacheToken(t) ==
    /\ At(t, "cacheToken")
    /\ tokenCache' = [tokenCache EXCEPT ![call[t].new.token] = call[t].new.globus]
    /\ Goto(t, "cacheGlobus")
    /\ UNCHANGED <<db, userCache, globusCache, bounds, history>>

\* The entry of a Globus ID the account had before stays.
CacheGlobus(t) ==
    /\ At(t, "cacheGlobus")
    /\ LET c == call[t]
       IN  /\ globusCache' = [globusCache EXCEPT ![c.new.globus] = c.new.token]
           /\ left' = (left \cup ({c.old.globus} \ {"none"})) \ {c.new.globus}
           /\ Goto(t, c.next)
    /\ UNCHANGED <<db, userCache, tokenCache, bounds, past, retired, stale, unclear>>
-----------------------------------------------------------------------------
\* Mutant of Update: PutItem with the same attributes.
UpdatePuts(t) ==
    /\ At(t, "update")
    /\ db' = [state |-> "partial", rec |-> call[t].new]
    /\ retired' = retired \cup ({db.rec.token} \ {0, call[t].new.token})
    /\ call' = [call EXCEPT ![t].pc = "cacheUser", ![t].next = "idle"]
    /\ Overwrite
    /\ UNCHANGED <<caches, bounds, left, stale, unclear>>

\* updateUser: UpdateItem with all attributes but those that addUser alone
\* writes; it makes an item if there is none.
Update(t) ==
    /\ At(t, "update")
    /\ db' = [state |-> IF db.state = "whole" THEN "whole" ELSE "partial", rec |-> call[t].new]
    /\ retired' = retired \cup ({db.rec.token} \ {0, call[t].new.token})
    /\ call' = [call EXCEPT ![t].pc = "cacheUser", ![t].next = "idle"]
    /\ Overwrite
    /\ UNCHANGED <<caches, bounds, left, stale, unclear>>

\* createUser, addUser: the name is not in use; the allocation of an ID puts an
\* item with nothing else; PutItem completes it.
NameInUse(t) ==
    /\ At(t, "nameInUse")
    /\ Goto(t, IF db.state = "gone" THEN "reserve" ELSE "idle")
    /\ UNCHANGED <<db, caches, bounds, history>>

Reserve(t) ==
    /\ At(t, "reserve")
    /\ db' = [state |-> "reserved", rec |-> Nothing]
    /\ Overwrite
    /\ Goto(t, "put")
    /\ UNCHANGED <<caches, bounds, retired, left, stale, unclear>>

\* Mutant of Put: no token has been generated.
PutNoToken(t) ==
    /\ At(t, "put")
    /\ db' = [state |-> "whole", rec |-> [token |-> 0, globus |-> call[t].globus]]
    /\ Goto(t, "idle")
    /\ UNCHANGED <<caches, bounds, history>>

Put(t) ==
    /\ At(t, "put")
    /\ LET r == [token |-> call[t].token, globus |-> call[t].globus]
       IN  /\ db' = [state |-> "whole", rec |-> r]
           /\ call' = [call EXCEPT ![t].new = r, ![t].pc = "cacheUser", ![t].next = "idle"]
    /\ Overwrite
    /\ UNCHANGED <<caches, bounds, retired, left, stale, unclear>>
-----------------------------------------------------------------------------
\* removeUser: the keys of the secondary caches are taken from the cache by
\* name, expired or not; then the item is deleted.
FindCached(t) ==
    /\ At(t, "findCached")
    /\ IF userCache.held = "none" THEN Goto(t, "eraseUser")
       ELSE call' = [call EXCEPT ![t].old = userCache.rec, ![t].pc = "eraseToken"]
    /\ UNCHANGED <<db, caches, bounds, history>>

EraseToken(t) ==
    /\ At(t, "eraseToken")
    /\ tokenCache' = [tokenCache EXCEPT ![call[t].old.token] = "none"]
    /\ Goto(t, "eraseGlobus")
    /\ UNCHANGED <<db, userCache, globusCache, bounds, history>>

EraseGlobus(t) ==
    /\ At(t, "eraseGlobus")
    /\ globusCache' = [globusCache EXCEPT ![call[t].old.globus] = 0]
    /\ Goto(t, "eraseUser")
    /\ UNCHANGED <<db, userCache, tokenCache, bounds, history>>

EraseUser(t) ==
    /\ At(t, "eraseUser")
    /\ userCache' = [held |-> "none", rec |-> Nothing]
    /\ Goto(t, "deleteItem")
    /\ UNCHANGED <<db, tokenCache, globusCache, bounds, history>>

DeleteItem(t) ==
    /\ At(t, "deleteItem")
    /\ db' = [state |-> "gone", rec |-> Nothing]
    /\ retired' = retired \cup ({db.rec.token} \ {0})
    /\ Goto(t, "idle")
    /\ Overwrite
    /\ UNCHANGED <<caches, bounds, left, stale, unclear>>
-----------------------------------------------------------------------------
\* A request to the database fails, or a read does not find what is there: none
\* asks for consistency, and the indexes lag.  A creation takes a failed search
\* by Globus ID for one that has found nobody; everything else ends there.
Fail(t) ==
    /\ Trouble
    /\ call[t].pc \in {"getUser", "scan", "findToken", "findGlobus", "nameInUse", "reserve",
                       "put", "update", "deleteItem"}
    /\ unclear' = (unclear \/ At(t, "put"))
    /\ Goto(t, IF At(t, "findGlobus") /\ call[t].op = "create" THEN "nameInUse" ELSE "idle")
    /\ UNCHANGED <<db, caches, calls, past, retired, left, stale>>

\* A read finds what was there before: a former record goes into the caches and
\* may be written back, a token that was replaced leads to the account, a name
\* that has come into use is taken for free.
ReadsFormer(t) ==
    /\ call[t].pc \in {"getUser", "scan", "findToken", "findGlobus", "nameInUse"}
    /\ Trouble
    /\ \/ /\ \E r \in past \ {db.rec} :
             \/ At(t, "getUser") /\ userCache.held # "live" /\ ReadUser(t, r)
             \/ At(t, "scan") /\ ReadScan(t, r)
             \/ /\ At(t, "findGlobus") /\ r.globus = call[t].globus
                /\ globusCache[r.globus] = 0 /\ ReadGlobus(t, r)
          /\ stale' = TRUE /\ unclear' = (unclear \/ Changing)
       \/ /\ At(t, "findToken") /\ \E r \in past : r.token = call[t].token
          /\ tokenCache[call[t].token] = "none" /\ Goto(t, "getUser")
          /\ UNCHANGED <<stale, unclear>>
       \/ /\ At(t, "nameInUse") /\ Goto(t, "reserve")
          /\ stale' = (stale \/ db.state # "gone") /\ unclear' = (unclear \/ db.state # "gone")
    /\ UNCHANGED <<db, caches, calls, past, retired, left>>

\* The server ends and is started again.
Restart ==
    /\ Trouble
    /\ unclear' = (unclear \/ \E t \in Threads : At(t, "put"))
    /\ call' = [t \in Threads |-> Idle]
    /\ userCache' = [held |-> "none", rec |-> Nothing]
    /\ tokenCache' = [k \in Tokens |-> "none"]
    /\ globusCache' = [g \in GlobusIDs |-> 0]
    /\ left' = {} /\ stale' = FALSE
    /\ UNCHANGED <<db, calls, past, retired>>

\* An entry reaches its expiration time.  The lookups ignore it from then on;
\* removeUser does not.
Expire ==
    /\ \/ /\ userCache.held = "live"
          /\ userCache' = [userCache EXCEPT !.held = "expired"]
          /\ UNCHANGED <<tokenCache, globusCache, left>>
       \/ \E k \in Tokens :
             /\ tokenCache[k] # "none"
             /\ tokenCache' = [tokenCache EXCEPT ![k] = "none"]
             /\ UNCHANGED <<userCache, globusCache, left>>
       \/ \E g \in GlobusIDs :
             /\ globusCache[g] # 0
             /\ globusCache' = [globusCache EXCEPT ![g] = 0]
             /\ left' = left \ {g}
             /\ UNCHANGED <<userCache, tokenCache>>
    /\ UNCHANGED <<db, call, bounds, past, retired, stale, unclear>>

Step(t) ==
    \/ GetUser(t) \/ Proceed(t) \/ FindToken(t) \/ FindGlobus(t) \/ Scan(t)
    \/ CacheUser(t) \/ DropToken(t) \/ CacheToken(t) \/ CacheGlobus(t)
    \/ Update(t) \/ NameInUse(t) \/ Reserve(t) \/ Put(t)
    \/ FindCached(t) \/ EraseToken(t) \/ EraseGlobus(t) \/ EraseUser(t) \/ DeleteItem(t)

Next ==
    \/ \E t \in Threads : BeginAny(t) \/ Step(t) \/ Fail(t) \/ ReadsFormer(t)
    \/ Restart \/ Expire

Spec == Init /\ [][Next]_vars
-----------------------------------------------------------------------------
TypeOK ==
    /\ db \in [state : DBStates, rec : Records \cup {Nothing}]
    /\ userCache \in [held : {"none", "expired", "live"}, rec : Records \cup {Nothing}]
    /\ tokenCache \in [Tokens -> GlobusIDs \cup {"none"}]
    /\ globusCache \in [GlobusIDs -> Tokens \cup {0}]
    /\ \A t \in Threads :
          /\ call[t].op \in Ops \cup {"none"}
          /\ call[t].token \in Tokens \cup {0} /\ call[t].globus \in GlobusIDs \cup {"none"}
          /\ call[t].old \in Records \cup {Nothing} /\ call[t].new \in Records \cup {Nothing}
    /\ calls \in 0 .. MaxCalls /\ troubles \in 0 .. MaxTroubles
    /\ past \subseteq Records /\ retired \subseteq Tokens /\ left \subseteq GlobusIDs
    /\ stale \in BOOLEAN /\ unclear \in BOOLEAN

\* Between calls there is no item on which getUser and listUsers throw, unless
\* calls that change the account have met, or one has acted on a stale cache
\* entry or an outdated read, or an addUser has stopped half-way
\* (PersistentStore.cpp:714-749, 906-928).
RecordsWhole == ~unclear /\ ~Changing => db.state \in {"gone", "whole"}

\* Between calls the caches of this server agree with the database, except for
\* Globus IDs the account has given up: no entry accepts a token that was
\* replaced, or whose account is deleted.  It holds unless a call has met one
\* that changes the account or an outdated read has been cached; then again
\* from the next expiry or restart on.  (The index may still lead from such a
\* token to the account.)  (PersistentStore.cpp:932-941, 946-966).
CachesAgree ==
    ~stale /\ ~unclear /\ ~Changing =>
       /\ userCache.held = "live" => db.state = "whole" /\ userCache.rec = db.rec
       /\ \A k \in Tokens : tokenCache[k] # "none" =>
             db.state = "whole" /\ db.rec = [token |-> k, globus |-> tokenCache[k]]
       /\ \A g \in GlobusIDs \ left : globusCache[g] # 0 =>
             db.state = "whole" /\ db.rec = [token |-> globusCache[g], globus |-> g]

\* The handlers keep the promise of Account: no update is lost and no replaced
\* token comes back, unless calls that change the account meet or one acts on
\* a stale cache entry or an outdated read (UserCommands.cpp:591, 1234-1236,
\* 1270-1273).
Promise == INSTANCE Account WITH
    state <- IF unclear THEN "unclear"
             ELSE IF db.state \in {"gone", "reserved"} THEN "none" ELSE "account",
    rec   <- db.rec
AccountSpec == Promise!Spec
=============================================================================
