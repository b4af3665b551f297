-------------------------- MODULE UnixIDAllocation --------------------------
(***************************************************************************)
(* Assignment of numeric unix IDs to user and group records                *)
(* (src/src/PersistentStore.cpp: getNextIDHint, checkIDAvailability,       *)
(* reserveUnixID, allocateUnixID, allocateSpecificUnixID, addUser,         *)
(* addGroup, addGroupRequest).  The same code serves the users table and   *)
(* the groups table; this module is the users table, with createUser's     *)
(* test of the name.  Several request handlers (threads of one server, or  *)
(* several servers) run it at once against DynamoDB, whose reads and       *)
(* secondary indices may return stale data.                                *)
(***************************************************************************)
EXTENDS Naturals, FiniteSets

CONSTANTS
    Workers,      \* concurrent addUser/addGroup calls
    Names,        \* unixName / group name: the hash key of the table
    Targets,      \* unix_id of a request: 0 when the caller gives none
    MinID, MaxID, \* half-open range of the IDs allocateUnixID hands out
    Lagging,      \* TRUE: database reads may be stale
    Refusing,     \* TRUE: the database may refuse a transaction for load
    MaxRequests   \* bound: number of calls issued in a behaviour

ASSUME RangeAssumption ==
    /\ MinID \in Nat \ {0}
    /\ MaxID \in Nat
    /\ MinID < MaxID

ASSUME RequestAssumption ==
    /\ Targets \subseteq Nat
    /\ Lagging \in BOOLEAN
    /\ Refusing \in BOOLEAN
    /\ MaxRequests \in Nat

VARIABLES
    pc,           \* control point of each call
    name, target, \* its arguments
    initial, try, \* its locals initialID and tryID
    table,        \* the table's records: see Record
    replica,      \* the ByUnixID index, and the image stale reads return
    hint,         \* next_unixID of the !_NextUnixID record
    hintReplica,  \* the value a stale read of that record returns
    lapped,       \* history: an allocation has wrapped the hint around
    requests      \* number of calls issued so far

locals == <<name, target, initial, try>>
vars == <<pc, name, target, initial, try, table, replica, hint, hintReplica,
          lapped, requests>>

IDRange == MinID .. (MaxID - 1)
AnyID == IDRange \cup Targets \cup {0}

\* A record is absent, reserved (only the key and unixID are written yet) or
\* full.  chosen is history: the ID came with the request (metadata.unix_id).
Record == [id : AnyID, full : BOOLEAN, chosen : BOOLEAN]
Absent == [id |-> 0, full |-> FALSE, chosen |-> FALSE]

Resting == {"idle", "created", "rejected", "exhausted", "failed", "crashed"}
Working == {"name", "hint", "check", "reserve", "reread", "put"}

Goto(w, label) == pc' = [pc EXCEPT ![w] = label]

\* What a read of the hint record, or of one name, may return.
HintReads == IF Lagging THEN {hint, hintReplica} ELSE {hint}
NameReads(n) == IF Lagging THEN {table[n].id, replica[n]} ELSE {table[n].id}

\* Mutant of Available: the query of the ByUnixID index is left out.
AlwaysAvailable(id) == TRUE

\* checkIDAvailability: the ByUnixID index holds no record with this ID.
Available(id) ==
    \A n \in Names : id # IF Lagging THEN replica[n] ELSE table[n].id

\* Mutants of NextID: no wrap, and a wrap before the last ID.
NextIDNoWrap(id) == id + 1
NextIDWrapEarly(id) == IF id + 2 >= MaxID THEN MinID ELSE id + 1

\* The candidate after id.
NextID(id) == IF id + 1 = MaxID THEN MinID ELSE id + 1

\* The arguments of the call's reserveUnixID: a specific allocation leaves
\* the hint as it read it.
Wanted(w) == IF target[w] # 0 THEN target[w] ELSE try[w]
NewHint(w) == IF target[w] # 0 THEN initial[w] ELSE NextID(try[w])
-----------------------------------------------------------------------------
Init ==
    /\ pc = [w \in Workers |-> "idle"]
    /\ name \in [Workers -> Names]
    /\ target = [w \in Workers |-> 0]
    /\ initial = [w \in Workers |-> MinID]
    /\ try = [w \in Workers |-> MinID]
    /\ table = [n \in Names |-> Absent]
    /\ replica = [n \in Names |-> 0]
    /\ hint = MinID
    /\ hintReplica = MinID
    /\ lapped = FALSE
    /\ requests = 0

\* A creation request arrives at a server.
Begin(w, n, t) ==
    /\ pc[w] \in Resting
    /\ requests < MaxRequests
    /\ requests' = requests + 1
    /\ name' = [name EXCEPT ![w] = n]
    /\ target' = [target EXCEPT ![w] = t]
    /\ Goto(w, "name")
    /\ UNCHANGED <<initial, try, table, replica, hint, hintReplica, lapped>>

\* createUser's test that the name is free: unixNameInUse, a call that fails
\* ends there.  (createGroup's getGroup is another matter: when it fails the
\* handler goes on as if the name were free, see GroupRecords.)
CheckName(w) ==
    /\ pc[w] = "name"
    /\ \E seen \in NameReads(name[w]) :
          Goto(w, IF seen = 0 THEN "hint" ELSE "rejected")
    /\ UNCHANGED <<locals, table, replica, hint, hintReplica, lapped, requests>>

\* First readNext() of either allocation function.
ReadHint(w) ==
    /\ pc[w] = "hint"
    /\ \E seen \in HintReads :
          /\ initial' = [initial EXCEPT ![w] = seen]
          /\ try' = [try EXCEPT ![w] = seen]
    /\ Goto(w, "check")
    /\ UNCHANGED <<name, target, table, replica, hint, hintReplica, lapped,
                   requests>>

\* An unavailable ID ends a specific allocation (addUser then throws); an
\* ordinary one goes on to the next candidate.
CheckAvailability(w) ==
    /\ pc[w] = "check"
    /\ \/ Available(Wanted(w)) /\ Goto(w, "reserve")
       \/ ~Available(Wanted(w)) /\ target[w] # 0 /\ Goto(w, "rejected")
       \/ ~Available(Wanted(w)) /\ target[w] = 0 /\ Goto(w, "reread")
    /\ UNCHANGED <<locals, table, replica, hint, hintReplica, lapped, requests>>

\* Mutant of Reserve: the hint is overwritten without comparing it.
ReserveNoCondition(w) ==
    /\ pc[w] = "reserve"
    /\ hint' = NewHint(w)
    /\ table' = [table EXCEPT ![name[w]] =
                   [id |-> Wanted(w), full |-> FALSE, chosen |-> target[w] # 0]]
    /\ lapped' = (lapped \/ (target[w] = 0 /\ NewHint(w) <= initial[w]))
    /\ Goto(w, "put")
    /\ UNCHANGED <<locals, replica, hintReplica, requests>>

\* reserveUnixID, one transaction: compare-and-set of the hint, and an
\* unconditional Put of a record with nothing but its key and its ID.
Reserve(w) ==
    /\ pc[w] = "reserve"
    /\ IF hint = initial[w]
       THEN /\ hint' = NewHint(w)
            /\ table' = [table EXCEPT ![name[w]] =
                           [id |-> Wanted(w), full |-> FALSE,
                            chosen |-> target[w] # 0]]
            /\ lapped' = (lapped \/ (target[w] = 0 /\ NewHint(w) <= initial[w]))
            /\ Goto(w, "put")
       ELSE /\ Goto(w, "reread")
            /\ UNCHANGED <<table, hint, lapped>>
    /\ UNCHANGED <<locals, replica, hintReplica, requests>>

\* The transaction is refused for another reason (conflict, throttling).
ReserveRefused(w) ==
    /\ Refusing
    /\ pc[w] = "reserve"
    /\ Goto(w, "reread")
    /\ UNCHANGED <<locals, table, replica, hint, hintReplica, lapped, requests>>

\* Line 710 declares a second initialID: the value just read is dropped and
\* a specific allocation retries with the value it read first.
RereadSpecific(w) ==
    /\ pc[w] = "reread"
    /\ target[w] # 0
    /\ Goto(w, "check")
    /\ UNCHANGED <<locals, table, replica, hint, hintReplica, lapped, requests>>

\* Mutant of RereadOrdinary: it drops what it read, as line 710 does.
RereadShadowed(w) ==
    /\ pc[w] = "reread"
    /\ target[w] = 0
    /\ Goto(w, "check")
    /\ UNCHANGED <<locals, table, replica, hint, hintReplica, lapped, requests>>

\* An ordinary allocation steps to the next candidate, unless the hint moved:
\* then it starts again there.  Back at its first candidate it gives up.
RereadOrdinary(w) ==
    /\ pc[w] = "reread"
    /\ target[w] = 0
    /\ \E recommendedNext \in HintReads :
          \/ /\ recommendedNext = initial[w]
             /\ NextID(try[w]) = initial[w]
             /\ Goto(w, "exhausted")
             /\ UNCHANGED <<initial, try>>
          \/ /\ recommendedNext = initial[w]
             /\ NextID(try[w]) # initial[w]
             /\ Goto(w, "check")
             /\ try' = [try EXCEPT ![w] = NextID(try[w])]
             /\ UNCHANGED initial
          \/ /\ recommendedNext # initial[w]
             /\ Goto(w, "check")
             /\ try' = [try EXCEPT ![w] = recommendedNext]
             /\ initial' = [initial EXCEPT ![w] = recommendedNext]
    /\ UNCHANGED <<name, target, table, replica, hint, hintReplica, lapped,
                   requests>>

\* The PutItem of addUser/addGroup/addGroupRequest: the whole record.
PutRecord(w) ==
    /\ pc[w] = "put"
    /\ table' = [table EXCEPT ![name[w]] =
                   [id |-> Wanted(w), full |-> TRUE, chosen |-> target[w] # 0]]
    /\ Goto(w, "created")
    /\ UNCHANGED <<locals, replica, hint, hintReplica, lapped, requests>>

\* Any other database call fails: log_fatal throws, or addUser returns false.
CallFails(w) ==
    /\ pc[w] \in {"name", "hint", "check", "reread", "put"}
    /\ Goto(w, "failed")
    /\ UNCHANGED <<locals, table, replica, hint, hintReplica, lapped, requests>>

\* The server process ends; its calls end where they are.
Crash ==
    /\ \E w \in Workers : pc[w] \in Working
    /\ pc' = [w \in Workers |-> IF pc[w] \in Working THEN "crashed" ELSE pc[w]]
    /\ UNCHANGED <<locals, table, replica, hint, hintReplica, lapped, requests>>

\* removeUser/removeGroup of an existing record.
Remove(n) ==
    /\ table[n].id # 0
    /\ table' = [table EXCEPT ![n] = Absent]
    /\ UNCHANGED <<pc, locals, replica, hint, hintReplica, lapped, requests>>

\* DynamoDB propagates a write to the index and to the lagging replicas.
PropagateRecord(n) ==
    /\ Lagging
    /\ replica[n] # table[n].id
    /\ replica' = [replica EXCEPT ![n] = table[n].id]
    /\ UNCHANGED <<pc, locals, table, hint, hintReplica, lapped, requests>>

PropagateHint ==
    /\ Lagging
    /\ hintReplica # hint
    /\ hintReplica' = hint
    /\ UNCHANGED <<pc, locals, table, replica, hint, lapped, requests>>

Proceed(w) ==
    \/ CheckName(w)
    \/ ReadHint(w)
    \/ CheckAvailability(w)
    \/ Reserve(w)
    \/ RereadSpecific(w)
    \/ RereadOrdinary(w)
    \/ PutRecord(w)

Next ==
    \/ \E w \in Workers : \E n \in Names, t \in Targets : Begin(w, n, t)
    \/ \E w \in Workers : Proceed(w)
    \/ \E w \in Workers : ReserveRefused(w)
    \/ \E w \in Workers : CallFails(w)
    \/ Crash
    \/ \E n \in Names : Remove(n)
    \/ \E n \in Names : PropagateRecord(n)
    \/ PropagateHint

Spec == Init /\ [][Next]_vars

\* A handler's thread keeps running, and the database answers and propagates;
\* nothing obliges clients to send requests or calls to fail.
Fairness ==
    /\ \A w \in Workers : WF_vars(Proceed(w))
    /\ \A n \in Names : WF_vars(PropagateRecord(n))
    /\ WF_vars(PropagateHint)

FairSpec == Spec /\ Fairness
-----------------------------------------------------------------------------
\* Types.  The hint always stays inside the half-open range, because NextID
\* wraps (PersistentStore.cpp:676-678) and a specific allocation writes back
\* the value it read.
TypeOK ==
    /\ pc \in [Workers -> Resting \cup Working]
    /\ name \in [Workers -> Names]
    /\ target \in [Workers -> Targets \cup {0}]
    /\ initial \in [Workers -> IDRange]
    /\ try \in [Workers -> IDRange]
    /\ table \in [Names -> Record]
    /\ replica \in [Names -> AnyID]
    /\ hint \in IDRange
    /\ hintReplica \in IDRange
    /\ lapped \in BOOLEAN
    /\ requests \in 0 .. MaxRequests

SameID(m, n) == m # n /\ table[m].id # 0 /\ table[m].id = table[n].id

\* Until the hint has gone all the way round, two records never share an ID
\* that allocateUnixID chose for both, whatever other calls, stale reads,
\* failures, crashes and deletions happen between the steps of the calls
\* (reserveUnixID's compare-and-set, PersistentStore.cpp:630-648).
OrdinaryIDsUnique ==
    ~lapped => \A m, n \in Names :
        SameID(m, n) => table[m].chosen \/ table[n].chosen

\* With one call at a time and fresh reads, IDs are unique without exception:
\* wrapping, requested IDs, deletions and half-written records included
\* (the test in checkIDAvailability, PersistentStore.cpp:599-621).
IDsUnique == \A m, n \in Names : ~SameID(m, n)

\* A call for an ID of the store's choice ends: it returns or throws, also
\* when it keeps losing the race for the hint (PersistentStore.cpp:675-696).
OrdinaryCallsEnd ==
    \A w \in Workers :
        (pc[w] \in Working /\ target[w] = 0) ~> (pc[w] \in Resting)

\* A call for an ID of the client's choice ends as well (addUser is
\* documented to return whether the record was added).
SpecificCallsEnd ==
    \A w \in Workers :
        (pc[w] \in Working /\ target[w] # 0) ~> (pc[w] \in Resting)
=============================================================================
