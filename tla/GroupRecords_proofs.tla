-------------------------- MODULE GroupRecords_proofs --------------------------
(***************************************************************************)
(* Theorems about GroupRecords for every set of threads and names: lookups *)
(* read what is there, caches agree with the database, and the handlers    *)
(* keep the promise of GroupLifecycle.                                     *)
(***************************************************************************)
EXTENDS GroupRecords, TLAPS

USE DEF vars, caches, bounds, history, At, Active

(***************************************************************************)
(* The inductive invariant, name by name.                                  *)
(***************************************************************************)
Changer(t) == Active(t) /\ call[t].op # "look"
Lookups == {"getGroup", "fillGroup", "getRequest", "fillRequest"}

\* A call is about one name, or two in a rename; a lookup stays one.
CallsNamed ==
    \A t \in Threads : Active(t) =>
       /\ call[t].name \in Names /\ call[t].other \in Names
       /\ call[t].name # call[t].other <=> call[t].op \in {"rename", "move"}
       /\ call[t].op = "look" => call[t].pc \in Lookups

\* The history variables know of every meeting of two calls of which at least
\* one writes.
MeetingsKnown ==
    \A n \in Names : \A t, u \in Threads :
       t # u /\ Touches(t, n) /\ Touches(u, n) /\ Changer(t) =>
          n \in stale /\ (Changer(u) => n \in unclear)

\* The items of names nothing has gone wrong with.
Shaped(n) ==
    /\ item[n] \in {{}, Reserved, Requested, Founded}
    /\ item[n] = Reserved => \E t \in Threads : At(t, "put") /\ call[t].name = n
    /\ n \in member => item[n] = Founded

ItemsShaped == \A n \in Names \ unclear : Shaped(n)

\* What a handler that has come to a step knows of its item.
Knows(c, i, hasMember) ==
    /\ c.pc = "reserve" => i = {}
    /\ c.pc = "put" => i = Reserved
    /\ c.pc \in {"update", "cacheGroup", "cacheApproved", "admin"} => i = Founded
    /\ c.pc \in {"updateRequest", "cacheRequest", "approve"} => i = Requested
    /\ c.op = "approving" /\ c.pc \in {"getRequest", "fillRequest"} => i = Requested
    /\ c.pc \in {"erase", "deleteItem"} => ~hasMember

ItemsKnown ==
    \A t \in Threads : Changer(t) /\ call[t].name \notin unclear =>
       Knows(call[t], item[call[t].name], call[t].name \in member)

\* A handler has not written the item of this name yet.
Removals == {"members", "erase", "deleteItem"}
Unwritten(t, n) ==
    /\ Changer(t)
    /\ \/ /\ n = call[t].name
          /\ call[t].pc \in Lookups \cup Removals
                            \cup {"reserve", "update", "updateRequest", "approve"}
       \/ /\ n = call[t].other /\ n # call[t].name
          /\ call[t].op = "rename" \/ call[t].pc \notin Removals

\* Names whose caches are to be trusted: no call that writes has met another
\* one, or the only one that writes has not written yet.
Trusted(n) ==
    /\ n \in Names \ unclear
    /\ n \notin stale \/ \E t \in Threads : Unwritten(t, n)

CacheRight(n) ==
    /\ groupCache[n] # "none" => Readable(item[n]) /\ groupCache[n] = Pending(item[n])
    /\ n \in requestCache => "requester" \in item[n]
Approving(n) == \E t \in Threads : At(t, "cacheApproved") /\ call[t].name = n

TrustedCaches == \A n \in Names : Trusted(n) /\ ~Approving(n) => CacheRight(n)

\* What a thread is about to put into the caches is right, too.
FillRight(c, i) ==
    /\ c.pc = "fillGroup" => Readable(i) /\ c.seen = Pending(i)
    /\ c.pc = "fillRequest" => "requester" \in i

TrustedFills ==
    \A t \in Threads : Active(t) /\ Trusted(call[t].name) =>
       FillRight(call[t], item[call[t].name])

\* Whatever has happened before, a name whose item is gone has left nothing in
\* the caches, nor has a thread anything to put there.
Uncached(n) == groupCache[n] = "none" /\ n \notin requestCache

ItemThere == {"fillGroup", "fillRequest", "put", "update", "updateRequest", "cacheGroup",
              "cacheRequest", "approve", "cacheApproved", "admin"}
RestsOnItem(c) == c.pc \in ItemThere \/ (c.op = "approving" /\ c.pc # "idle")

GoneUncached ==
    \A n \in Names \ stale :
       /\ item[n] = {} => Uncached(n)
       /\ \A t \in Threads : call[t].name = n =>
             /\ item[n] = {} => ~RestsOnItem(call[t])
             /\ At(t, "deleteItem") => Uncached(n)

IInv ==
    /\ TypeOK
    /\ CallsNamed
    /\ MeetingsKnown
    /\ ItemsShaped
    /\ ItemsKnown
    /\ TrustedCaches
    /\ TrustedFills
    /\ GoneUncached

-----------------------------------------------------------------------------
\* The kinds of items that handlers leave, told apart.
LEMMA ItemFacts ==
    /\ Reserved \subseteq Attributes /\ Requested \subseteq Attributes
    /\ Founded \subseteq Attributes
    /\ {} # Reserved /\ {} # Requested /\ {} # Founded
    /\ Reserved # Requested /\ Reserved # Founded /\ Requested # Founded
    /\ ~ReadableAsRequest({}) /\ ~Readable({}) /\ ~Readable(Reserved)
    /\ ReadableAsRequest(Requested) /\ Readable(Requested) /\ Readable(Founded)
    /\ "requester" \in Requested /\ "requester" \notin Founded
    /\ "requester" \notin Reserved /\ "requester" \notin {}
    /\ Pending(Requested) = "pending" /\ Pending(Founded) = "group"
    /\ Founded \cup {"details"} = Founded
    /\ Requested \cup {"details", "requester"} = Requested
    /\ (Requested \ {"requester"}) \cup {"creationDate"} = Founded
<1> USE DEF Reserved, Requested, Founded, Attributes, Readable, ReadableAsRequest, Pending
<1>1. "unixID" \in Requested /\ "unixID" \in Founded /\ "unixID" \in Reserved
  OBVIOUS
<1>2. "details" \in Requested /\ "details" \in Founded /\ "details" \notin Reserved
  OBVIOUS
<1>3. "requester" \in Requested /\ "requester" \notin Founded /\ "requester" \notin Reserved
  OBVIOUS
<1>4. "creationDate" \notin Requested /\ "creationDate" \in Founded
  OBVIOUS
<1>5. Founded \cup {"details"} = Founded /\ Requested \cup {"details", "requester"} = Requested
      /\ (Requested \ {"requester"}) \cup {"creationDate"} = Founded
  OBVIOUS
<1> QED BY <1>1, <1>2, <1>3, <1>4, <1>5

Labels == {"idle", "getGroup", "fillGroup", "getRequest", "fillRequest", "reserve", "put",
           "update", "updateRequest", "cacheGroup", "cacheRequest", "approve",
           "cacheApproved", "admin", "members", "erase", "deleteItem"}
Calls == [op : Ops \cup {"none", "move", "approving"}, name : Names \cup {"none"},
          other : Names \cup {"none"}, pc : Labels, seen : {"none", "group", "pending"}]
Moved(c, label) == IF label = "idle" THEN Idle ELSE [c EXCEPT !.pc = label]

LEMMA CallType == TypeOK => call \in [Threads -> Calls]
BY DEF TypeOK, Calls, Labels

LEMMA IdleFacts ==
    Idle \in Calls /\ Idle.pc = "idle" /\ Idle.op = "none" /\ Idle.name = "none"
BY DEF Idle, Calls, Labels

LEMMA MovedFacts ==
    ASSUME NEW c \in Calls, NEW label \in Labels
    PROVE  /\ Moved(c, label) \in Calls /\ Moved(c, label).pc = label
           /\ label = "idle" => Moved(c, label) = Idle
           /\ label # "idle" =>
                 /\ Moved(c, label).op = c.op /\ Moved(c, label).seen = c.seen
                 /\ Moved(c, label).name = c.name /\ Moved(c, label).other = c.other
BY IdleFacts DEF Moved, Calls

LEMMA GotoMoves ==
    ASSUME NEW t \in Threads, NEW label, Goto(t, label)
    PROVE  call' = [call EXCEPT ![t] = Moved(call[t], label)]
BY DEF Goto, Moved

\* How one step changes what a thread does.
Early == Lookups \cup {"reserve", "update", "updateRequest", "approve"} \cup Removals
SameNames(c, d) == d.name = c.name /\ d.other = c.other
Swapped(c, d) == d.name = c.other /\ d.other = c.name

Advance(c, d) ==
    \/ d = Idle
    \/ /\ d.op = c.op /\ SameNames(c, d) /\ d.pc # "idle"
       /\ c.op = "look" => d.pc \in Lookups
       /\ d.pc \in Early => c.pc \in Early
       /\ c.pc \in Removals => d.pc \in Removals
    \/ /\ c.op = "approve" /\ c.pc \in Lookups
       /\ d.op = "approving" /\ SameNames(c, d) /\ d.pc = "getRequest"
    \/ /\ c.op = "rename" /\ c.pc \in Lookups
       /\ d.op = "move" /\ Swapped(c, d) /\ d.pc = "getGroup"
    \/ /\ c.op = "move" /\ c.pc = "cacheRequest"
       /\ d.op = "move" /\ Swapped(c, d) /\ d.pc = "members"

\* What follows a lookup.
LEMMA AfterGroupForm ==
    ASSUME NEW op, NEW kind \in {"none", "group", "pending"}
    PROVE  /\ AfterGroup(op, kind) \in {"reserve", "members", "update", "getRequest", "idle"}
           /\ AfterGroup(op, kind) = "reserve" =>
                 kind = "none" /\ op \in {"createGroup", "createRequest", "move"}
           /\ AfterGroup(op, kind) = "members" => op = "delete"
           /\ AfterGroup(op, kind) = "update" => kind = "group" /\ op = "update"
           /\ AfterGroup(op, kind) = "getRequest" => op \in {"update", "rename", "approve"}
BY DEF AfterGroup

LEMMA AfterRequestForm ==
    ASSUME TypeOK, CallsNamed, NEW t \in Threads, NEW found \in BOOLEAN,
           call[t].pc \in {"getRequest", "fillRequest"}, AfterRequest(t, found)
    PROVE  \E d \in Calls :
              /\ call' = [call EXCEPT ![t] = d] /\ Advance(call[t], d)
              /\ d.pc \in {"updateRequest", "members", "getGroup", "getRequest", "approve",
                           "admin", "idle"}
              /\ d.pc \in {"updateRequest", "approve"} => found /\ SameNames(call[t], d)
              /\ d.pc \in {"updateRequest", "members"} => d.op # "approving"
              /\ d.pc = "getRequest" => found /\ d.op = "approving" /\ SameNames(call[t], d)
              /\ d.pc = "admin" => ~found /\ call[t].op = "approving" /\ SameNames(call[t], d)
<1> DEFINE c == call[t]
<1>0. c \in Calls
  BY CallType
<1> USE DEF Advance, SameNames, Swapped, Lookups, Removals, Early
<1>1. ASSUME NEW label \in {"updateRequest", "members", "approve", "admin", "idle"},
             Goto(t, label), c.op # "look" \/ label = "idle"
      PROVE  /\ Moved(c, label) \in Calls /\ call' = [call EXCEPT ![t] = Moved(c, label)]
             /\ Advance(c, Moved(c, label)) /\ Moved(c, label).pc = label
             /\ label # "idle" => SameNames(c, Moved(c, label)) /\ Moved(c, label).op = c.op
  BY <1>0, <1>1, GotoMoves, MovedFacts DEF Labels
<1>2. CASE found /\ c.op = "update" /\ Goto(t, "updateRequest")
  BY <1>1, <1>2
<1>3. CASE found /\ c.op \in {"deny", "approve"} /\ Goto(t, "members")
  BY <1>1, <1>3
<1>4. CASE /\ found /\ c.op = "rename"
           /\ call' = [call EXCEPT ![t] = [op |-> "move", name |-> c.other, other |-> c.name,
                                           pc |-> "getGroup", seen |-> "none"]]
  <2> DEFINE d == [op |-> "move", name |-> c.other, other |-> c.name, pc |-> "getGroup",
                   seen |-> "none"]
  <2>1. d \in Calls
    BY <1>0 DEF Calls, Labels
  <2>2. Advance(c, d)
    BY <1>4
  <2> QED BY <1>4, <2>1, <2>2
<1>5. CASE /\ found /\ c.op = "approve"
           /\ call' = [call EXCEPT ![t].op = "approving", ![t].pc = "getRequest"]
  <2> DEFINE d == [c EXCEPT !.op = "approving", !.pc = "getRequest"]
  <2>1. d \in Calls /\ d.op = "approving" /\ d.pc = "getRequest" /\ SameNames(c, d)
    BY <1>0 DEF Calls, Labels
  <2>2. call' = [call EXCEPT ![t] = d]
    BY <1>5, CallType
  <2> QED BY <1>5, <2>1, <2>2
<1>6. CASE found /\ c.op = "approving" /\ Goto(t, "approve")
  BY <1>1, <1>6
<1>7. CASE ~found /\ c.op = "approving" /\ Goto(t, "admin")
  BY <1>1, <1>7
<1>8. CASE Goto(t, "idle")
  BY <1>1, <1>8
<1> QED BY <1>2, <1>3, <1>4, <1>5, <1>6, <1>7, <1>8 DEF AfterRequest

-----------------------------------------------------------------------------
\* What the step of a call may change, beside what the action says of the name
\* it is about.
SameName(m) ==
    /\ item'[m] = item[m] /\ groupCache'[m] = groupCache[m]
    /\ m \in member' <=> m \in member
    /\ m \in requestCache' <=> m \in requestCache
    /\ m \in unclear' <=> m \in unclear
    /\ m \in stale' <=> m \in stale

StepOf(t, d) ==
    /\ Active(t) /\ call' = [call EXCEPT ![t] = d] /\ d \in Calls /\ Advance(call[t], d)
    /\ stale \subseteq stale' /\ unclear \subseteq unclear'
    /\ \A m \in Names : m # call[t].name => SameName(m)

LEMMA OthersStay ==
    ASSUME TypeOK, NEW t \in Threads, NEW d, StepOf(t, d)
    PROVE  call'[t] = d /\ \A u \in Threads : u # t => call'[u] = call[u]
BY CallType DEF StepOf

\* A call touches no new names, and a lookup stays one.
LEMMA TouchesLess ==
    ASSUME TypeOK, NEW t \in Threads, NEW d, StepOf(t, d)
    PROVE  \A u \in Threads :
              /\ Changer(u)' => Changer(u)
              /\ \A n \in Names : Touches(u, n)' => Touches(u, n)
<1>1. call'[t] = d /\ \A u \in Threads : u # t => call'[u] = call[u]
  BY OthersStay
<1>2. Changer(t)' => Changer(t)
  BY <1>1, IdleFacts DEF StepOf, Advance, Changer
<1>3. \A n \in Names : Touches(t, n)' => Touches(t, n)
  BY <1>1, IdleFacts DEF StepOf, Advance, Touches, SameNames, Swapped
<1> QED BY <1>1, <1>2, <1>3 DEF Changer, Touches

LEMMA NamedStep ==
    ASSUME TypeOK, CallsNamed, NEW t \in Threads, NEW d, StepOf(t, d) PROVE CallsNamed'
<1>1. call'[t] = d /\ \A u \in Threads : u # t => call'[u] = call[u]
  BY OthersStay
<1>2. Active(t)' =>
       /\ call'[t].name \in Names /\ call'[t].other \in Names
       /\ call'[t].name # call'[t].other <=> call'[t].op \in {"rename", "move"}
       /\ call'[t].op = "look" => call'[t].pc \in Lookups
  BY <1>1, IdleFacts DEF StepOf, Advance, CallsNamed, SameNames, Swapped
<1> QED BY <1>1, <1>2 DEF CallsNamed

\* A call that writes is alone with a name that is not stale, and the only
\* one that writes with a name that is not unclear.
LEMMA Alone ==
    ASSUME MeetingsKnown, NEW t \in Threads, NEW n \in Names, Changer(t), Touches(t, n)
    PROVE  \A u \in Threads : u # t /\ Touches(u, n) =>
              n \in stale /\ (Changer(u) => n \in unclear)
BY DEF MeetingsKnown

\* Nobody's names become more trustworthy.
LEMMA TrustLess ==
    ASSUME TypeOK, CallsNamed, NEW t \in Threads, NEW d, StepOf(t, d), NEW n \in Names, Trusted(n)'
    PROVE  Trusted(n)
<1>1. call'[t] = d /\ \A u \in Threads : u # t => call'[u] = call[u]
  BY OthersStay
<1>2. \A u \in Threads : u # t => (Unwritten(u, n)' => Unwritten(u, n))
  BY <1>1 DEF Unwritten, Changer
<1>3. Unwritten(t, n)' => Unwritten(t, n)
  <2> SUFFICES ASSUME Unwritten(t, n)' PROVE Unwritten(t, n)
    OBVIOUS
  <2>1. Changer(t) /\ d # Idle
    BY <1>1, IdleFacts, TouchesLess DEF Unwritten, Changer
  <2>2. /\ call[t].name # call[t].other <=> call[t].op \in {"rename", "move"}
    BY <2>1 DEF CallsNamed, Changer
  <2> QED BY <1>1, <2>1, <2>2 DEF Unwritten, StepOf, Advance, SameNames, Swapped, Early, Lookups,
             Removals
<1> QED BY <1>2, <1>3 DEF Trusted, StepOf

\* To preserve the invariant, a step has to care for the name it is about.
CaresFor(t, n, d) ==
    /\ n \notin unclear' => Shaped(n)'
    /\ d.name = n /\ d.op # "look" /\ n \notin unclear' => Knows(d, item'[n], n \in member')
    /\ \/ item'[n] = item[n] /\ (n \in member' => n \in member)
       \/ Changer(t) /\ ~Unwritten(t, n)'
    /\ Trusted(n)' /\ ~Approving(n)' => CacheRight(n)'
    /\ d.name = n /\ Trusted(n)' => FillRight(d, item'[n])
    /\ n \notin stale' =>
          /\ item'[n] = {} => Uncached(n)'
          /\ d.name = n =>
                /\ item'[n] = {} => ~RestsOnItem(d)
                /\ d.pc = "deleteItem" => Uncached(n)'

LEMMA StepPreserves ==
    ASSUME IInv, TypeOK', NEW t \in Threads, NEW n \in Names, call[t].name = n,
           NEW d, StepOf(t, d), CaresFor(t, n, d)
    PROVE  IInv'
<1> USE DEF IInv
<1>1. call'[t] = d /\ \A u \in Threads : u # t => call'[u] = call[u]
  BY OthersStay
<1>2. CallsNamed'
  BY NamedStep
<1>3. MeetingsKnown'
  BY TouchesLess DEF MeetingsKnown, StepOf
<1>4. n \in Names /\ Touches(t, n)
  BY DEF StepOf, CallsNamed, Touches
<1>5. \A m \in Names : Trusted(m)' => Trusted(m)
  BY TrustLess
<1>6. \A m \in Names : m # n =>
         /\ SameName(m)
         /\ d.name = m => d.op = "move" /\ d.pc \in {"getGroup", "members"}
  <2>1. d.name \in Names => d.name = n \/ (d.op = "move" /\ d.pc \in {"getGroup", "members"})
    BY IdleFacts, GroupRecordsAssumption DEF StepOf, Advance, SameNames, Swapped
  <2> QED BY <2>1 DEF StepOf
\* If the step has written, nobody else is at the name, or nothing is claimed.
<1>7. ASSUME NEW u \in Threads, u # t, call[u].name = n, Active(u),
             ~(item'[n] = item[n] /\ (n \in member' => n \in member))
      PROVE  n \in stale /\ (Changer(u) => n \in unclear) /\ ~Trusted(n)'
  <2>1. Changer(t) /\ ~Unwritten(t, n)' /\ Touches(u, n)
    BY <1>7 DEF CaresFor, Touches
  <2>2. n \in stale /\ (Changer(u) => n \in unclear)
    BY <1>4, <1>7, <2>1, Alone
  <2>3. \A v \in Threads : v # t /\ Unwritten(v, n) => n \in unclear
    <3>1. \A v \in Threads : Unwritten(v, n) => Changer(v) /\ Touches(v, n)
      BY DEF Unwritten, Changer, Touches
    <3> QED BY <1>4, <2>1, <3>1, Alone
  <2>4. \A v \in Threads : v # t => Unwritten(v, n)' = Unwritten(v, n)
    BY <1>1 DEF Unwritten, Changer
  <2> QED BY <2>1, <2>2, <2>3, <2>4 DEF Trusted, StepOf
<1>8. ItemsShaped'
  <2> SUFFICES ASSUME NEW m \in Names, m \notin unclear' PROVE Shaped(m)'
    BY DEF ItemsShaped
  <2>1. CASE m = n
    BY <2>1 DEF CaresFor
  <2>2. CASE m # n
    <3>1. Shaped(m) /\ SameName(m)
      BY <1>6, <2>2 DEF ItemsShaped, SameName
    <3>2. \A u \in Threads : At(u, "put") /\ call[u].name = m
             => call'[u].pc = "put" /\ call'[u].name = m
      BY <1>1, <2>2
    <3> QED BY <3>1, <3>2 DEF Shaped, SameName
  <2> QED BY <2>1, <2>2
<1>9. ItemsKnown'
  <2> SUFFICES ASSUME NEW u \in Threads, Changer(u)', call'[u].name \notin unclear'
               PROVE  Knows(call'[u], item'[call'[u].name], call'[u].name \in member')
    BY DEF ItemsKnown
  <2>0. call'[u].name \in Names
    BY <1>2 DEF CallsNamed, Changer
  <2>1. CASE u = t
    <3>1. CASE d.name = n
      BY <1>1, <2>1, <3>1 DEF CaresFor, Changer
    <3>2. CASE d.name # n
      BY <1>1, <1>6, <2>0, <2>1, <3>2 DEF Knows
    <3> QED BY <3>1, <3>2
  <2>2. CASE u # t
    <3>1. Changer(u) /\ call'[u] = call[u] /\ call[u].name \notin unclear
      BY <1>1, <2>2 DEF Changer, StepOf
    <3>2. Knows(call[u], item[call[u].name], call[u].name \in member)
      BY <3>1 DEF ItemsKnown
    <3>3. /\ item'[call[u].name] = item[call[u].name]
          /\ call[u].name \in member' => call[u].name \in member
      BY <1>6, <1>7, <2>0, <2>2, <3>1 DEF SameName, Changer
    <3> QED BY <3>1, <3>2, <3>3 DEF Knows
  <2> QED BY <2>1, <2>2
<1>10. TrustedCaches'
  <2> SUFFICES ASSUME NEW m \in Names, Trusted(m)', ~Approving(m)' PROVE CacheRight(m)'
    BY DEF TrustedCaches
  <2>1. CASE m = n
    BY <2>1 DEF CaresFor
  <2>2. CASE m # n
    <3>1. ~Approving(m)
      BY <1>1, <2>2 DEF Approving
    <3>2. CacheRight(m)
      BY <1>5, <3>1 DEF TrustedCaches
    <3> QED BY <1>6, <2>2, <3>2 DEF SameName, CacheRight
  <2> QED BY <2>1, <2>2
<1>11. TrustedFills'
  <2> SUFFICES ASSUME NEW u \in Threads, NEW m \in Names, Active(u)', call'[u].name = m, Trusted(m)'
               PROVE  FillRight(call'[u], item'[m])
    BY <1>2 DEF TrustedFills, CallsNamed
  <2>1. CASE u = t
    BY <1>1, <1>6, <2>1 DEF CaresFor, FillRight
  <2>2. CASE u # t
    <3>1. call'[u] = call[u] /\ Active(u) /\ call[u].name = m
      BY <1>1, <2>2
    <3>2. FillRight(call[u], item[m])
      BY <1>5, <3>1 DEF TrustedFills
    <3>3. item'[m] = item[m]
      BY <1>6, <1>7, <2>2, <3>1 DEF SameName
    <3> QED BY <3>1, <3>2, <3>3
  <2> QED BY <2>1, <2>2
<1>12. GoneUncached'
  <2> SUFFICES ASSUME NEW m \in Names, m \notin stale'
               PROVE  /\ item'[m] = {} => Uncached(m)'
                      /\ \A u \in Threads : call'[u].name = m =>
                            /\ item'[m] = {} => ~RestsOnItem(call'[u])
                            /\ call'[u].pc = "deleteItem" => Uncached(m)'
    BY DEF GoneUncached
  <2>0. m \notin stale
    BY DEF StepOf
  <2>1. CASE m = n
    <3>1. ASSUME NEW u \in Threads, u # t, call[u].name = n
          PROVE  /\ item'[n] = {} => ~RestsOnItem(call[u])
                 /\ call[u].pc # "deleteItem"
      <4>1. CASE ~Active(u)
        BY <4>1 DEF RestsOnItem, ItemThere
      <4>2. CASE Active(u)
        <5>1. item'[n] = item[n]
          BY <1>7, <2>0, <2>1, <3>1, <4>2
        <5>2. call[u].pc = "deleteItem" => Changer(u) /\ Touches(u, n)
          BY <3>1, <4>2 DEF CallsNamed, Changer, Touches, Lookups
        <5>3. call[u].pc # "deleteItem"
          BY <1>4, <2>0, <2>1, <3>1, <5>2, Alone
        <5> QED BY <2>0, <2>1, <3>1, <5>1, <5>3 DEF GoneUncached
      <4> QED BY <4>1, <4>2
    <3>2. /\ item'[n] = {} => Uncached(n)'
          /\ d.name = n => /\ item'[n] = {} => ~RestsOnItem(d)
                           /\ d.pc = "deleteItem" => Uncached(n)'
      BY <2>1 DEF CaresFor
    <3> QED BY <1>1, <2>1, <3>1, <3>2
  <2>2. CASE m # n
    <3>1. SameName(m) /\ (Uncached(m)' <=> Uncached(m))
      BY <1>6, <2>2 DEF SameName, Uncached
    <3>2. d.name = m => ~RestsOnItem(d) /\ d.pc # "deleteItem"
      BY <1>6, <2>2 DEF RestsOnItem, ItemThere
    <3> QED BY <1>1, <2>0, <2>2, <3>1, <3>2 DEF GoneUncached, SameName
  <2> QED BY <2>1, <2>2
<1> QED BY <1>2, <1>3, <1>8, <1>9, <1>10, <1>11, <1>12

-----------------------------------------------------------------------------
\* What the thread at a name may rely on.
LEMMA MovedAdvances ==
    ASSUME TypeOK, NEW t \in Threads, NEW label \in Labels, Goto(t, label),
           call[t].op = "look" => label \in Lookups \cup {"idle"},
           label \in Early => call[t].pc \in Early,
           call[t].pc \in Removals => label \in Removals \cup {"idle"}
    PROVE  /\ call' = [call EXCEPT ![t] = Moved(call[t], label)]
           /\ Moved(call[t], label) \in Calls /\ Advance(call[t], Moved(call[t], label))
BY CallType, GotoMoves, MovedFacts DEF Advance, SameNames

LEMMA CacheReliable ==
    ASSUME IInv, NEW t \in Threads, NEW n \in Names, Active(t), call[t].name = n,
           ~At(t, "cacheApproved"), Trusted(n)
    PROVE  CacheRight(n)
<1> USE DEF IInv
<1> SUFFICES ASSUME NEW u \in Threads, At(u, "cacheApproved"), call[u].name = n
             PROVE  FALSE
  BY DEF TrustedCaches, Approving
<1>1. u # t /\ Changer(u) /\ Touches(u, n) /\ Touches(t, n)
  BY DEF CallsNamed, Changer, Touches, Lookups
<1>2. n \in stale
  BY <1>1, Alone
<1>3. PICK v \in Threads : Unwritten(v, n)
  BY <1>2 DEF Trusted
<1>4. v # u /\ Changer(v) /\ Touches(v, n)
  BY <1>3 DEF Unwritten, Changer, Touches, Lookups, Removals
<1>5. n \in unclear
  BY <1>1, <1>4, Alone
<1> QED BY <1>5 DEF Trusted

LEMMA ItemReliable ==
    ASSUME IInv, NEW t \in Threads, NEW n \in Names, Changer(t), call[t].name = n,
           n \notin unclear, ~At(t, "put")
    PROVE  item[n] \in {{}, Requested, Founded}
<1>1. item[n] # Reserved
  <2> SUFFICES ASSUME NEW u \in Threads, At(u, "put"), call[u].name = n PROVE FALSE
    BY DEF IInv, ItemsShaped, Shaped
  <2>1. u # t /\ Changer(u) /\ Touches(u, n) /\ Touches(t, n)
    BY DEF IInv, CallsNamed, Changer, Touches, Lookups
  <2> QED BY <2>1, Alone DEF IInv
<1> QED BY <1>1 DEF IInv, ItemsShaped, Shaped

LEMMA WriterTrusts ==
    ASSUME NEW t \in Threads, NEW n \in Names, Changer(t), call[t].name = n, n \notin unclear,
           call[t].pc \in Early
    PROVE  Trusted(n)
BY DEF Trusted, Unwritten, Early

\* A handler that does not rest on the item does so only once it has found it.
LEMMA RestKept ==
    ASSUME IInv, NEW t \in Threads, NEW n \in Names, call[t].name = n, n \notin stale,
           item[n] = {}, Active(t), NEW d, Advance(call[t], d), d.pc \notin ItemThere,
           call[t].pc \notin Lookups
    PROVE  ~RestsOnItem(d)
BY IdleFacts DEF IInv, GoneUncached, RestsOnItem, Advance

\* What a thread that comes to a new step has to know and to have in hand.
Arrives(t, n, d) ==
    /\ call' = [call EXCEPT ![t] = d] /\ d \in Calls /\ Advance(call[t], d)
    /\ d.name = n =>
          /\ d.op # "look" /\ n \notin unclear' => Knows(d, item[n], n \in member)
          /\ Trusted(n) => FillRight(d, item[n])
          /\ n \notin stale /\ item[n] = {} => ~RestsOnItem(d)

Comes(t, n, d) ==
    /\ Arrives(t, n, d)
    /\ d.name = n /\ d.pc = "deleteItem" /\ n \notin stale => Uncached(n)

\* A step that changes nothing else, except that the name may become unclear.
LEMMA ReadingCares ==
    ASSUME IInv, NEW t \in Threads, NEW n \in Names, call[t].name = n,
           NEW d, StepOf(t, d), call[t].pc \notin {"put", "cacheApproved"},
           UNCHANGED <<item, member, groupCache, requestCache>>, Comes(t, n, d)
    PROVE  CaresFor(t, n, d)
<1>1. call'[t] = d /\ \A u \in Threads : u # t => call'[u] = call[u]
  BY OthersStay DEF IInv
<1>2. Trusted(n)' => Trusted(n)
  BY TrustLess DEF IInv
<1>3. n \notin unclear' => Shaped(n)'
  <2>1. n \notin unclear' => Shaped(n)
    BY DEF IInv, ItemsShaped, StepOf
  <2>2. \A u \in Threads : At(u, "put") /\ call[u].name = n
             => call'[u].pc = "put" /\ call'[u].name = n
    BY <1>1
  <2> QED BY <2>1, <2>2 DEF Shaped
<1>4. Trusted(n)' => CacheRight(n)'
  <2>1. Trusted(n) => CacheRight(n)
    BY CacheReliable DEF StepOf
  <2> QED BY <1>2, <2>1 DEF CacheRight
<1>5. n \notin stale /\ item'[n] = {} => Uncached(n)'
  BY DEF IInv, GoneUncached, Uncached
<1>6. Uncached(n)' = Uncached(n)
  BY DEF Uncached
<1>7. n \notin stale' => n \notin stale
  BY DEF StepOf
<1> QED BY <1>2, <1>3, <1>4, <1>5, <1>6, <1>7 DEF CaresFor, Comes, Arrives

\* Such a step preserves the invariant, the types included.
LEMMA ReadingPreserves ==
    ASSUME IInv, NEW t \in Threads, NEW n \in Names, Active(t), call[t].name = n,
           call[t].pc \notin {"put", "cacheApproved"}, NEW d, Comes(t, n, d),
           UNCHANGED <<item, member, groupCache, requestCache, calls, stale>>,
           troubles' \in 0 .. MaxTroubles,
           unclear' = unclear \/ unclear' = unclear \cup {n}
    PROVE  TypeOK' /\ IInv'
<1>1. StepOf(t, d)
  BY DEF StepOf, SameName, Comes, Arrives
<1>2. call' \in [Threads -> Calls]
  BY CallType DEF Comes, Arrives, IInv
<1>3. TypeOK'
  BY <1>2 DEF IInv, TypeOK, Calls, Labels
<1>4. CaresFor(t, n, d)
  BY <1>1, ReadingCares
<1> QED BY <1>1, <1>3, <1>4, StepPreserves

-----------------------------------------------------------------------------
\* The lookups.
LEMMA GroupAnswered ==
    ASSUME IInv, NEW t \in Threads, NEW n \in Names, Active(t), call[t].name = n,
           call[t].pc \in {"getGroup", "fillGroup"}, NEW kind \in {"none", "group", "pending"},
           Goto(t, AfterGroup(call[t].op, kind)), unclear \subseteq unclear',
           Changer(t) /\ n \notin unclear' =>
              /\ kind = "none" /\ AfterGroup(call[t].op, kind) = "reserve" => item[n] = {}
              /\ kind = "group" => item[n] = Founded,
           n \notin stale /\ item[n] = {} => kind = "none"
    PROVE  Comes(t, n, Moved(call[t], AfterGroup(call[t].op, kind)))
<1> DEFINE c == call[t]
           l == AfterGroup(c.op, kind)
           d == Moved(c, l)
<1>1. /\ l \in {"reserve", "members", "update", "getRequest", "idle"}
      /\ l = "reserve" => kind = "none" /\ c.op \in {"createGroup", "createRequest", "move"}
      /\ l = "members" => c.op = "delete"
      /\ l = "update" => kind = "group" /\ c.op = "update"
      /\ l = "getRequest" => c.op \in {"update", "rename", "approve"}
  BY AfterGroupForm
<1>2. c \in Calls /\ d \in Calls /\ d.pc = l /\ (d = Idle \/ d.op = c.op)
  BY <1>1, CallType, MovedFacts DEF Labels, IInv
<1>3. call' = [call EXCEPT ![t] = d] /\ Advance(c, d)
  BY <1>1, MovedAdvances DEF Labels, Lookups, Early, Removals, IInv
<1>4. ASSUME d.name = n, d.op # "look", n \notin unclear' PROVE Knows(d, item[n], n \in member)
  <2>1. Changer(t) /\ d.op = c.op
    BY <1>2, <1>4, IdleFacts, GroupRecordsAssumption DEF Changer
  <2> QED BY <1>1, <1>2, <1>4, <2>1 DEF Knows
<1>5. FillRight(d, item[n]) /\ d.pc # "deleteItem"
  BY <1>1, <1>2 DEF FillRight
<1>6. n \notin stale /\ item[n] = {} => ~RestsOnItem(d)
  BY <1>1, <1>2, IdleFacts DEF RestsOnItem, ItemThere, IInv, GoneUncached
<1>7. d \in Calls
  BY <1>2
<1> QED BY <1>3, <1>4, <1>5, <1>6, <1>7 DEF Comes, Arrives

LEMMA GetGroupStep == ASSUME IInv, NEW t \in Threads, GetGroup(t) PROVE TypeOK' /\ IInv'
<1> DEFINE c == call[t]
<1> USE DEF IInv
<1>1. PICK n : n = c.name
  OBVIOUS
<1>2. /\ At(t, "getGroup") /\ n \in Names /\ c \in Calls
      /\ UNCHANGED <<item, member, groupCache, requestCache, calls, troubles, stale, unclear>>
  BY <1>1, CallType DEF GetGroup, CallsNamed
<1>3. Changer(t) /\ n \notin unclear => Trusted(n) /\ item[n] \in {{}, Requested, Founded}
  BY <1>1, <1>2, WriterTrusts, ItemReliable DEF Early, Lookups, Changer
<1>4. Trusted(n) => CacheRight(n)
  BY <1>1, <1>2, CacheReliable
<1>5. groupCache[n] \in {"none", "group", "pending"} /\ Pending(item[n]) \in {"group", "pending"}
  BY <1>2 DEF TypeOK, Pending
<1>6. n \notin stale /\ item[n] = {} => groupCache[n] = "none"
  BY <1>2 DEF GoneUncached, Uncached
<1>7. \E d : Comes(t, n, d)
  <2>1. ASSUME NEW kind \in {"none", "group", "pending"}, Goto(t, AfterGroup(c.op, kind)),
               kind = "none" => item[n] = {}, kind # "none" => groupCache[n] = kind
        PROVE  \E d : Comes(t, n, d)
    <3>1. Changer(t) /\ n \notin unclear /\ kind = "group" => item[n] = Founded
      BY <1>3, <1>4, <2>1, ItemFacts DEF CacheRight
    <3>2. Comes(t, n, Moved(c, AfterGroup(c.op, kind)))
      BY <1>1, <1>2, <1>6, <2>1, <3>1, GroupAnswered
    <3> QED BY <3>2
  <2>2. CASE groupCache[n] # "none"
    <3>1. Goto(t, AfterGroup(c.op, groupCache[n]))
      BY <1>1, <2>2 DEF GetGroup
    <3> QED BY <1>5, <2>1, <2>2, <3>1
  <2>3. CASE groupCache[n] = "none" /\ item[n] = {}
    <3>1. Goto(t, AfterGroup(c.op, "none"))
      BY <1>1, <2>3, ItemFacts DEF GetGroup, ReadGroup
    <3> QED BY <2>1, <2>3, <3>1
  <2>4. CASE groupCache[n] = "none" /\ item[n] # {} /\ Readable(item[n])
    <3> DEFINE d == [c EXCEPT !.seen = Pending(item[n]), !.pc = "fillGroup"]
    <3>1. call' = [call EXCEPT ![t].seen = Pending(item[n]), ![t].pc = "fillGroup"]
      BY <1>1, <2>4 DEF GetGroup, ReadGroup
    <3>2. call' = [call EXCEPT ![t] = d]
      BY <3>1, CallType
    <3>3. d \in Calls
      BY <1>2, <1>5 DEF Calls, Labels
    <3>4. d.pc = "fillGroup" /\ d.op = c.op /\ d.seen = Pending(item[n]) /\ SameNames(c, d)
      BY <1>2 DEF Calls, SameNames
    <3>5. Advance(c, d)
      BY <1>2, <3>4 DEF Advance, Lookups, Early, Removals
    <3>6. d.op # "look" /\ n \notin unclear => Knows(d, item[n], n \in member)
      BY <1>2, <3>4 DEF Knows, ItemsKnown, Changer
    <3> HIDE DEF d
    <3> QED BY <1>2, <2>4, <3>2, <3>3, <3>4, <3>5, <3>6 DEF FillRight, Comes, Arrives
  <2>5. CASE groupCache[n] = "none" /\ item[n] # {} /\ ~Readable(item[n])
    <3>1. Goto(t, "idle")
      BY <1>1, <2>5 DEF GetGroup, ReadGroup
    <3>2. call' = [call EXCEPT ![t] = Idle] /\ Advance(c, Idle)
      BY <1>2, <3>1, MovedAdvances, MovedFacts DEF Labels, Lookups, Early, Removals
    <3> QED BY <1>2, <3>2, IdleFacts, GroupRecordsAssumption DEF Comes, Arrives
  <2> QED BY <2>2, <2>3, <2>4, <2>5
<1> QED BY <1>1, <1>2, <1>7, ReadingPreserves DEF TypeOK

LEMMA FillGroupStep == ASSUME IInv, NEW t \in Threads, FillGroup(t) PROVE TypeOK' /\ IInv'
<1> DEFINE c == call[t]
<1> USE DEF IInv
<1>1. PICK n : n = c.name
  OBVIOUS
<1>2. /\ At(t, "fillGroup") /\ n \in Names /\ c \in Calls
      /\ groupCache' = [groupCache EXCEPT ![n] = c.seen]
      /\ Goto(t, AfterGroup(c.op, c.seen))
      /\ UNCHANGED <<item, member, requestCache, calls, troubles, stale, unclear>>
  BY <1>1, CallType DEF FillGroup, CallsNamed
<1>3. c.seen \in {"none", "group", "pending"} /\ groupCache'[n] = c.seen
      /\ \A m \in Names : m # n => groupCache'[m] = groupCache[m]
  BY <1>2 DEF Calls, TypeOK
<1>4. Changer(t) /\ n \notin unclear => Trusted(n) /\ item[n] \in {{}, Requested, Founded}
  BY <1>1, <1>2, WriterTrusts, ItemReliable DEF Early, Lookups, Changer
<1>5. Trusted(n) => Readable(item[n]) /\ c.seen = Pending(item[n])
  BY <1>1, <1>2 DEF TrustedFills, FillRight
<1>6. n \notin stale => item[n] # {}
  BY <1>1, <1>2 DEF GoneUncached, RestsOnItem, ItemThere
<1>7. Changer(t) /\ n \notin unclear =>
         c.seen # "none" /\ (c.seen = "group" => item[n] = Founded)
  BY <1>4, <1>5, ItemFacts DEF Pending
<1> DEFINE d == Moved(c, AfterGroup(c.op, c.seen))
<1>8. Comes(t, n, d)
  BY <1>1, <1>2, <1>3, <1>6, <1>7, GroupAnswered
<1> HIDE DEF d
<1>9. StepOf(t, d)
  BY <1>1, <1>2, <1>3, <1>8 DEF StepOf, SameName, Comes, Arrives
<1>10. call'[t] = d /\ \A u \in Threads : u # t => call'[u] = call[u]
  BY <1>9, OthersStay
<1>11. TypeOK'
  <2>1. call' \in [Threads -> Calls] /\ groupCache' \in [Names -> {"none", "group", "pending"}]
    BY <1>2, <1>3, <1>8, CallType DEF Comes, Arrives, TypeOK
  <2> QED BY <1>2, <2>1 DEF TypeOK, Calls, Labels
<1>12. n \notin unclear' => Shaped(n)'
  <2>1. n \notin unclear' => Shaped(n)
    BY <1>2 DEF ItemsShaped
  <2>2. \A u \in Threads : At(u, "put") => u # t
    BY <1>2
  <2> QED BY <1>2, <1>10, <2>1, <2>2 DEF Shaped
<1>13. Trusted(n)' => CacheRight(n)'
  <2>1. Trusted(n)' => Trusted(n)
    BY <1>2, <1>9, TrustLess
  <2>2. Trusted(n) => CacheRight(n)
    BY <1>1, <1>2, CacheReliable
  <2> QED BY <1>2, <1>3, <1>5, <2>1, <2>2 DEF CacheRight
<1>14. CaresFor(t, n, d)
  <2>1. Trusted(n)' => Trusted(n)
    BY <1>2, <1>9, TrustLess
  <2>2. d.pc = "deleteItem" /\ d.name = n => n \in stale
    <3>1. AfterGroup(c.op, c.seen) \in {"reserve", "members", "update", "getRequest", "idle"}
      BY <1>3, AfterGroupForm
    <3>2. d.pc # "deleteItem"
      BY <1>2, <3>1, MovedFacts DEF d, Labels
    <3> QED BY <3>2
  <2> QED BY <1>2, <1>6, <1>8, <1>12, <1>13, <2>1, <2>2 DEF CaresFor, Comes, Arrives
<1> QED BY <1>1, <1>2, <1>9, <1>11, <1>14, StepPreserves

LEMMA RequestAnswered ==
    ASSUME IInv, NEW t \in Threads, NEW n \in Names, Active(t), call[t].name = n,
           call[t].pc \in {"getRequest", "fillRequest"}, NEW found \in BOOLEAN,
           AfterRequest(t, found), unclear \subseteq unclear',
           Changer(t) /\ n \notin unclear' /\ found => item[n] = Requested,
           ~found /\ call[t].op = "approving" => n \in unclear',
           n \notin stale /\ found => item[n] # {}
    PROVE  \E d : Comes(t, n, d) /\ d.pc # "deleteItem"
<1> DEFINE c == call[t]
<1>1. PICK d \in Calls :
         /\ call' = [call EXCEPT ![t] = d] /\ Advance(c, d)
         /\ d.pc \in {"updateRequest", "members", "getGroup", "getRequest", "approve",
                      "admin", "idle"}
         /\ d.pc \in {"updateRequest", "approve"} => found /\ SameNames(c, d)
         /\ d.pc \in {"updateRequest", "members"} => d.op # "approving"
         /\ d.pc = "getRequest" => found /\ d.op = "approving" /\ SameNames(c, d)
         /\ d.pc = "admin" => ~found /\ c.op = "approving" /\ SameNames(c, d)
  BY AfterRequestForm DEF IInv
<1>2. ASSUME d.op # "look", d.name = n PROVE Changer(t)
  BY <1>1, <1>2, IdleFacts, GroupRecordsAssumption DEF Advance, Changer
<1>3. d.name = n /\ d.op # "look" /\ n \notin unclear' => Knows(d, item[n], n \in member)
  BY <1>1, <1>2 DEF Knows
<1>4. FillRight(d, item[n])
  BY <1>1 DEF FillRight
<1>5. n \notin stale /\ item[n] = {} => ~RestsOnItem(d)
  <2>1. n \notin stale /\ item[n] = {} => ~found /\ c.op # "approving"
    BY DEF RestsOnItem, IInv, GoneUncached
  <2> QED BY <1>1, <2>1, IdleFacts DEF RestsOnItem, ItemThere, Advance
<1> QED BY <1>1, <1>3, <1>4, <1>5 DEF Comes, Arrives

\* A cached request, or one read from the item, is there.
LEMMA GetRequestStep == ASSUME IInv, NEW t \in Threads, GetRequest(t) PROVE TypeOK' /\ IInv'
<1> DEFINE c == call[t]
<1> USE DEF IInv
<1>1. PICK n : n = c.name
  OBVIOUS
<1>2. /\ At(t, "getRequest") /\ n \in Names /\ c \in Calls
      /\ UNCHANGED <<item, member, groupCache, requestCache, calls, troubles, stale, unclear>>
  BY <1>1, CallType DEF GetRequest, CallsNamed
<1>3. Changer(t) /\ n \notin unclear => Trusted(n) /\ item[n] \in {{}, Requested, Founded}
  BY <1>1, <1>2, WriterTrusts, ItemReliable DEF Early, Lookups, Changer
<1>4. Trusted(n) => CacheRight(n)
  BY <1>1, <1>2, CacheReliable
<1>5. c.op = "approving" => Changer(t)
  BY <1>2 DEF Changer
<1>6. c.op = "approving" /\ n \notin unclear => item[n] = Requested
  BY <1>1, <1>2, <1>5 DEF ItemsKnown, Knows
<1>7. n \notin stale /\ item[n] = {} => n \notin requestCache
  BY <1>2 DEF GoneUncached, Uncached
<1>8. \E d : Comes(t, n, d)
  <2>1. CASE n \in requestCache
    <3>1. AfterRequest(t, TRUE)
      BY <1>1, <2>1 DEF GetRequest
    <3>2. Changer(t) /\ n \notin unclear => item[n] = Requested
      BY <1>3, <1>4, <2>1, ItemFacts DEF CacheRight
    <3> QED BY <1>1, <1>2, <1>7, <2>1, <3>1, <3>2, RequestAnswered
  <2>2. CASE n \notin requestCache /\ "requester" \notin item[n] /\ AfterRequest(t, FALSE)
    BY <1>1, <1>2, <1>6, <2>2, ItemFacts, RequestAnswered
  <2>3. CASE n \notin requestCache /\ ReadableAsRequest(item[n]) /\ Goto(t, "fillRequest")
    <3> DEFINE d == Moved(c, "fillRequest")
    <3>1. call' = [call EXCEPT ![t] = d] /\ d \in Calls /\ Advance(c, d)
      BY <1>2, <2>3, MovedAdvances DEF Labels, Lookups, Early, Removals
    <3>2. d.pc = "fillRequest" /\ d.op = c.op /\ d.name = n
      BY <1>1, <1>2, MovedFacts DEF Labels
    <3>3. "requester" \in item[n] /\ item[n] # {}
      BY <2>3 DEF ReadableAsRequest, Requested
    <3>4. d.op # "look" /\ n \notin unclear => Knows(d, item[n], n \in member)
      BY <1>6, <3>2 DEF Knows
    <3> QED BY <1>2, <3>1, <3>2, <3>3, <3>4 DEF Comes, Arrives, FillRight
  <2>4. CASE Goto(t, "idle")
    <3>1. call' = [call EXCEPT ![t] = Idle] /\ Advance(c, Idle)
      BY <1>2, <2>4, MovedAdvances, MovedFacts DEF Labels, Lookups, Early, Removals
    <3> QED BY <1>2, <3>1, IdleFacts, GroupRecordsAssumption DEF Comes, Arrives
  <2> QED BY <1>1, <2>1, <2>2, <2>3, <2>4 DEF GetRequest
<1> QED BY <1>1, <1>2, <1>8, ReadingPreserves DEF TypeOK

LEMMA FillRequestStep == ASSUME IInv, NEW t \in Threads, FillRequest(t) PROVE TypeOK' /\ IInv'
<1> DEFINE c == call[t]
<1> USE DEF IInv
<1>1. PICK n : n = c.name
  OBVIOUS
<1>2. /\ At(t, "fillRequest") /\ n \in Names /\ c \in Calls
      /\ requestCache' = requestCache \cup {n}
      /\ AfterRequest(t, TRUE)
      /\ UNCHANGED <<item, member, groupCache, calls, troubles, stale, unclear>>
  BY <1>1, CallType DEF FillRequest, CallsNamed
<1>3. Changer(t) /\ n \notin unclear => Trusted(n) /\ item[n] \in {{}, Requested, Founded}
  BY <1>1, <1>2, WriterTrusts, ItemReliable DEF Early, Lookups, Changer
<1>4. Trusted(n) => "requester" \in item[n]
  BY <1>1, <1>2 DEF TrustedFills, FillRight
<1>5. n \notin stale => item[n] # {}
  BY <1>1, <1>2 DEF GoneUncached, RestsOnItem, ItemThere
<1>6. Changer(t) /\ n \notin unclear => item[n] = Requested
  BY <1>3, <1>4, ItemFacts
<1>7. PICK d : Comes(t, n, d) /\ d.pc # "deleteItem"
  BY <1>1, <1>2, <1>5, <1>6, RequestAnswered
<1>8. StepOf(t, d)
  BY <1>1, <1>2, <1>7 DEF StepOf, SameName, Comes, Arrives
<1>9. call'[t] = d /\ \A u \in Threads : u # t => call'[u] = call[u]
  BY <1>8, OthersStay
<1>10. TypeOK'
  <2>1. call' \in [Threads -> Calls] /\ requestCache' \subseteq Names
    BY <1>2, <1>7, CallType DEF Comes, Arrives, TypeOK
  <2> QED BY <1>2, <2>1 DEF TypeOK, Calls, Labels
<1>11. n \notin unclear' => Shaped(n)'
  <2>1. n \notin unclear' => Shaped(n)
    BY <1>2 DEF ItemsShaped
  <2>2. \A u \in Threads : At(u, "put") => u # t
    BY <1>2
  <2> QED BY <1>2, <1>9, <2>1, <2>2 DEF Shaped
<1>12. Trusted(n)' => Trusted(n)
  BY <1>2, <1>8, TrustLess
<1>13. Trusted(n)' => CacheRight(n)'
  <2>1. Trusted(n) => CacheRight(n)
    BY <1>1, <1>2, CacheReliable
  <2> QED BY <1>2, <1>4, <1>12, <2>1 DEF CacheRight
<1>14. CaresFor(t, n, d)
  BY <1>2, <1>5, <1>7, <1>11, <1>12, <1>13 DEF CaresFor, Comes, Arrives
<1> QED BY <1>1, <1>2, <1>8, <1>10, <1>14, StepPreserves

-----------------------------------------------------------------------------
\* Once a call has written, only it can trust the name.
LEMMA TrustAfterWrite ==
    ASSUME IInv, NEW t \in Threads, NEW n \in Names, call[t].name = n, Changer(t),
           NEW d, StepOf(t, d), ~Unwritten(t, n)', Trusted(n)'
    PROVE  n \notin stale /\ n \notin unclear
<1>1. call'[t] = d /\ \A u \in Threads : u # t => call'[u] = call[u]
  BY OthersStay DEF IInv
<1>2. n \notin unclear
  BY DEF Trusted, StepOf
<1>3. \A v \in Threads : v # t /\ Unwritten(v, n)' => Changer(v) /\ Touches(v, n)
  BY <1>1 DEF Unwritten, Changer, Touches
<1>4. Touches(t, n)
  BY DEF Changer, Touches
<1>5. \A v \in Threads : ~Unwritten(v, n)'
  BY <1>2, <1>3, <1>4, Alone DEF IInv
<1> QED BY <1>2, <1>5 DEF Trusted, StepOf

\* A step that writes the item of its name, and nothing else.
LEMMA WritingPreserves ==
    ASSUME IInv, NEW t \in Threads, NEW n \in Names, call[t].name = n, Changer(t),
           NEW label \in {"put", "cacheGroup", "cacheRequest", "cacheApproved"}, Goto(t, label),
           call[t].pc \notin Removals,
           NEW i \in SUBSET Attributes, item' = [item EXCEPT ![n] = i], i # {},
           UNCHANGED <<member, groupCache, requestCache, calls, troubles, stale, unclear>>,
           n \notin unclear =>
              /\ i \in {Reserved, Requested, Founded}
              /\ i = Reserved => label = "put"
              /\ n \in member => i = Founded
              /\ Knows(Moved(call[t], label), i, n \in member)
              /\ n \notin stale /\ label # "cacheApproved" =>
                    /\ groupCache[n] # "none" => Readable(i) /\ groupCache[n] = Pending(i)
                    /\ n \in requestCache => "requester" \in i
    PROVE  TypeOK' /\ IInv'
<1> DEFINE c == call[t]
           d == Moved(c, label)
<1> USE DEF IInv
<1>1. c \in Calls /\ d \in Calls /\ d.pc = label /\ d.op = c.op /\ d.name = n
  BY CallType, MovedFacts DEF Labels
<1>2. call' = [call EXCEPT ![t] = d] /\ Advance(c, d)
  BY MovedAdvances DEF Labels, Lookups, Early, Removals, Changer
<1> HIDE DEF d
<1>3. item'[n] = i /\ \A m \in Names : m # n => item'[m] = item[m]
  BY DEF TypeOK
<1>4. StepOf(t, d)
  BY <1>1, <1>2, <1>3 DEF StepOf, SameName, Changer
<1>5. call'[t] = d /\ \A u \in Threads : u # t => call'[u] = call[u]
  BY <1>4, OthersStay
<1>6. TypeOK'
  <2>1. call' \in [Threads -> Calls]
    BY <1>1, <1>2, CallType
  <2> QED BY <2>1 DEF TypeOK, Calls, Labels
<1>7. ~Unwritten(t, n)'
  BY <1>1, <1>5 DEF Unwritten, Lookups, Removals
<1>8. Trusted(n)' => n \notin stale /\ n \notin unclear
  BY <1>4, <1>7, TrustAfterWrite
<1>9. n \notin unclear => Knows(d, i, n \in member)
  BY DEF d
<1>10. n \notin unclear' => Shaped(n)'
  BY <1>1, <1>3, <1>5 DEF Shaped
<1>11. Trusted(n)' /\ ~Approving(n)' => CacheRight(n)'
  BY <1>1, <1>3, <1>5, <1>8 DEF CacheRight, Approving
<1>12. FillRight(d, i)
  BY <1>1 DEF FillRight
<1>13. CaresFor(t, n, d)
  BY <1>1, <1>3, <1>7, <1>9, <1>10, <1>11, <1>12 DEF CaresFor
<1> QED BY <1>4, <1>6, <1>13, StepPreserves

LEMMA ReserveStep == ASSUME IInv, NEW t \in Threads, Reserve(t) PROVE TypeOK' /\ IInv'
<1> DEFINE c == call[t]
<1> USE DEF IInv
<1>1. PICK n : n = c.name
  OBVIOUS
<1>2. /\ At(t, "reserve") /\ n \in Names /\ Changer(t)
      /\ item' = [item EXCEPT ![n] = Reserved] /\ Goto(t, "put")
      /\ UNCHANGED <<member, groupCache, requestCache, calls, troubles, stale, unclear>>
  BY <1>1 DEF Reserve, CallsNamed, Changer, Lookups
<1>3. n \notin unclear => item[n] = {} /\ n \notin member /\ CacheRight(n)
  <2>1. n \notin unclear => Trusted(n) /\ item[n] = {}
    BY <1>1, <1>2, WriterTrusts DEF Early, ItemsKnown, Knows
  <2> QED BY <1>1, <1>2, <2>1, CacheReliable, ItemFacts DEF ItemsShaped, Shaped
<1>4. Knows(Moved(c, "put"), Reserved, n \in member)
  BY <1>2, CallType, MovedFacts DEF Knows, Labels
<1> QED BY <1>1, <1>2, <1>3, <1>4, WritingPreserves, ItemFacts DEF CacheRight, Removals

LEMMA PutStep == ASSUME IInv, NEW t \in Threads, Put(t) PROVE TypeOK' /\ IInv'
<1> DEFINE c == call[t]
<1> USE DEF IInv
<1>1. PICK n : n = c.name
  OBVIOUS
<1>2. /\ At(t, "put") /\ n \in Names /\ Changer(t)
      /\ UNCHANGED <<member, groupCache, requestCache, calls, troubles, stale, unclear>>
  BY <1>1 DEF Put, CallsNamed, Changer, Lookups
<1>3. n \notin unclear => item[n] = Reserved /\ n \notin member
  BY <1>1, <1>2, ItemFacts DEF ItemsKnown, Knows, ItemsShaped, Shaped
<1>4. n \notin unclear /\ n \notin stale => Uncached(n)
  <2>1. n \notin unclear /\ n \notin stale => Trusted(n)
    BY <1>2 DEF Trusted
  <2>2. Trusted(n) => CacheRight(n)
    BY <1>1, <1>2, CacheReliable
  <2> QED BY <1>3, <2>1, <2>2, ItemFacts DEF CacheRight, Uncached, TypeOK
<1>5. \/ item' = [item EXCEPT ![n] = Founded] /\ Goto(t, "cacheGroup")
      \/ item' = [item EXCEPT ![n] = Requested] /\ Goto(t, "cacheRequest")
  BY <1>1 DEF Put
<1>6. /\ Knows(Moved(c, "cacheGroup"), Founded, n \in member)
      /\ Knows(Moved(c, "cacheRequest"), Requested, n \in member)
  BY <1>2, CallType, MovedFacts DEF Knows, Labels
<1> QED BY <1>1, <1>2, <1>3, <1>4, <1>5, <1>6, WritingPreserves, ItemFacts DEF Uncached, Removals

LEMMA UpdateStep == ASSUME IInv, NEW t \in Threads, Update(t) PROVE TypeOK' /\ IInv'
<1> DEFINE c == call[t]
<1> USE DEF IInv
<1>1. PICK n : n = c.name
  OBVIOUS
<1> DEFINE i == item[n] \cup {"details"}
<1>2. /\ At(t, "update") /\ n \in Names /\ Changer(t)
      /\ item' = [item EXCEPT ![n] = i] /\ Goto(t, "cacheGroup")
      /\ UNCHANGED <<member, groupCache, requestCache, calls, troubles, stale, unclear>>
  BY <1>1 DEF Update, CallsNamed, Changer, Lookups
<1>3. i \in SUBSET Attributes /\ i # {}
  BY <1>2 DEF TypeOK, Attributes, Requested
<1>4. n \notin unclear => item[n] = Founded /\ i = Founded /\ CacheRight(n)
  <2>1. n \notin unclear => Trusted(n) /\ item[n] = Founded
    BY <1>1, <1>2, WriterTrusts DEF Early, ItemsKnown, Knows
  <2> QED BY <1>1, <1>2, <2>1, CacheReliable, ItemFacts
<1>5. Knows(Moved(c, "cacheGroup"), Founded, n \in member)
  BY <1>2, CallType, MovedFacts DEF Knows, Labels
<1> HIDE DEF i
<1> QED BY <1>1, <1>2, <1>3, <1>4, <1>5, WritingPreserves, ItemFacts DEF CacheRight, Removals

LEMMA UpdateRequestStep ==
    ASSUME IInv, NEW t \in Threads, UpdateRequest(t) PROVE TypeOK' /\ IInv'
<1> DEFINE c == call[t]
<1> USE DEF IInv
<1>1. PICK n : n = c.name
  OBVIOUS
<1> DEFINE i == item[n] \cup {"details", "requester"}
<1>2. /\ At(t, "updateRequest") /\ n \in Names /\ Changer(t)
      /\ item' = [item EXCEPT ![n] = i] /\ Goto(t, "cacheRequest")
      /\ UNCHANGED <<member, groupCache, requestCache, calls, troubles, stale, unclear>>
  BY <1>1 DEF UpdateRequest, CallsNamed, Changer, Lookups
<1>3. i \in SUBSET Attributes /\ i # {}
  BY <1>2 DEF TypeOK, Attributes, Requested
<1>4. n \notin unclear =>
         item[n] = Requested /\ i = Requested /\ n \notin member /\ CacheRight(n)
  <2>1. n \notin unclear => Trusted(n) /\ item[n] = Requested
    BY <1>1, <1>2, WriterTrusts DEF Early, ItemsKnown, Knows
  <2> QED BY <1>1, <1>2, <2>1, CacheReliable, ItemFacts DEF ItemsShaped, Shaped
<1>5. Knows(Moved(c, "cacheRequest"), Requested, n \in member)
  BY <1>2, CallType, MovedFacts DEF Knows, Labels
<1> HIDE DEF i
<1> QED BY <1>1, <1>2, <1>3, <1>4, <1>5, WritingPreserves, ItemFacts DEF CacheRight, Removals

LEMMA ApproveStep == ASSUME IInv, NEW t \in Threads, Approve(t) PROVE TypeOK' /\ IInv'
<1> DEFINE c == call[t]
<1> USE DEF IInv
<1>1. PICK n : n = c.name
  OBVIOUS
<1> DEFINE i == (item[n] \ {"requester"}) \cup {"creationDate"}
<1>2. /\ At(t, "approve") /\ n \in Names /\ Changer(t)
      /\ item' = [item EXCEPT ![n] = i] /\ Goto(t, "cacheApproved")
      /\ UNCHANGED <<member, groupCache, requestCache, calls, troubles, stale, unclear>>
  BY <1>1 DEF Approve, CallsNamed, Changer, Lookups
<1>3. i \in SUBSET Attributes /\ i # {}
  BY <1>2 DEF TypeOK, Attributes, Founded
<1>4. n \notin unclear => i = Founded
  BY <1>1, <1>2, ItemFacts DEF ItemsKnown, Knows
<1>5. Knows(Moved(c, "cacheApproved"), Founded, n \in member)
  BY <1>2, CallType, MovedFacts DEF Knows, Labels
<1> HIDE DEF i
<1> QED BY <1>1, <1>2, <1>3, <1>4, <1>5, WritingPreserves, ItemFacts DEF Removals

\* A step of a call that writes changes the caches of its name, and nothing
\* else.
LEMMA CachingPreserves ==
    ASSUME IInv, NEW t \in Threads, NEW n \in Names, call[t].name = n, Changer(t),
           call[t].pc # "put", NEW d, Arrives(t, n, d),
           UNCHANGED <<item, member, calls, troubles, stale, unclear>>,
           groupCache' \in [Names -> {"none", "group", "pending"}], requestCache' \subseteq Names,
           \A m \in Names : m # n =>
              groupCache'[m] = groupCache[m] /\ (m \in requestCache' <=> m \in requestCache),
           Trusted(n) /\ Trusted(n)' => CacheRight(n)',
           n \notin stale =>
              /\ item[n] = {} => Uncached(n)'
              /\ d.name = n /\ d.pc = "deleteItem" => Uncached(n)'
    PROVE  TypeOK' /\ IInv'
<1> USE DEF IInv
<1>1. StepOf(t, d)
  BY DEF StepOf, SameName, Arrives, Changer
<1>2. call'[t] = d /\ \A u \in Threads : u # t => call'[u] = call[u]
  BY <1>1, OthersStay
<1>3. TypeOK'
  <2>1. call' \in [Threads -> Calls]
    BY CallType DEF Arrives
  <2> QED BY <2>1 DEF TypeOK, Calls, Labels
<1>4. n \notin unclear' => Shaped(n)'
  <2>1. n \notin unclear' => Shaped(n)
    BY DEF ItemsShaped
  <2>2. \A u \in Threads : At(u, "put") => u # t
    OBVIOUS
  <2> QED BY <1>2, <2>1, <2>2 DEF Shaped
<1>5. Trusted(n)' => Trusted(n)
  BY <1>1, TrustLess
<1> QED BY <1>1, <1>3, <1>4, <1>5, StepPreserves DEF CaresFor, Arrives

LEMMA CacheGroupStep == ASSUME IInv, NEW t \in Threads, CacheGroup(t) PROVE TypeOK' /\ IInv'
<1> DEFINE c == call[t]
           label == IF c.op = "createGroup" THEN "admin" ELSE "idle"
           d == Moved(c, label)
<1> USE DEF IInv
<1>1. PICK n : n = c.name
  OBVIOUS
<1>2. /\ At(t, "cacheGroup") /\ n \in Names /\ Changer(t) /\ c \in Calls
      /\ groupCache' = [groupCache EXCEPT ![n] = "group"] /\ Goto(t, label)
      /\ UNCHANGED <<item, member, requestCache, calls, troubles, stale, unclear>>
  BY <1>1, CallType DEF CacheGroup, CallsNamed, Changer, Lookups
<1>3. Trusted(n) => item[n] = Founded /\ CacheRight(n)
  BY <1>1, <1>2, CacheReliable DEF Trusted, ItemsKnown, Knows
<1>4. n \notin stale => item[n] # {}
  BY <1>1, <1>2 DEF GoneUncached, RestsOnItem, ItemThere
<1>5. /\ call' = [call EXCEPT ![t] = d] /\ d \in Calls /\ Advance(c, d) /\ d.pc = label
  BY <1>2, MovedAdvances, MovedFacts DEF Labels, Lookups, Early, Removals, Changer
<1>6. n \notin unclear => item[n] = Founded
  BY <1>1, <1>2 DEF ItemsKnown, Knows
<1>7. Arrives(t, n, d)
  BY <1>2, <1>4, <1>5, <1>6 DEF Arrives, Knows, FillRight, ItemThere
<1>8. Trusted(n) => CacheRight(n)'
  BY <1>2, <1>3, ItemFacts DEF CacheRight, TypeOK
<1>9. groupCache' \in [Names -> {"none", "group", "pending"}]
      /\ \A m \in Names : m # n => groupCache'[m] = groupCache[m]
  BY <1>2 DEF TypeOK
<1>10. d.pc # "deleteItem" /\ requestCache' \subseteq Names
  BY <1>2, <1>5 DEF TypeOK
<1> HIDE DEF d
<1> QED BY <1>1, <1>2, <1>4, <1>7, <1>8, <1>9, <1>10, CachingPreserves

LEMMA CacheRequestStep ==
    ASSUME IInv, NEW t \in Threads, CacheRequest(t) PROVE TypeOK' /\ IInv'
<1> DEFINE c == call[t]
<1> USE DEF IInv
<1>1. PICK n : n = c.name
  OBVIOUS
<1>2. /\ At(t, "cacheRequest") /\ n \in Names /\ Changer(t) /\ c \in Calls
      /\ requestCache' = requestCache \cup {n}
      /\ groupCache' = IF c.op = "update" THEN [groupCache EXCEPT ![n] = "none"] ELSE groupCache
      /\ IF c.op = "move"
         THEN call' = [call EXCEPT ![t].name = c.other, ![t].other = c.name, ![t].pc = "members"]
         ELSE Goto(t, "idle")
      /\ UNCHANGED <<item, member, calls, troubles, stale, unclear>>
  BY <1>1, CallType DEF CacheRequest, CallsNamed, Changer, Lookups
<1>3. Trusted(n) => item[n] = Requested /\ CacheRight(n)
  BY <1>1, <1>2, CacheReliable DEF Trusted, ItemsKnown, Knows
<1>4. n \notin stale => item[n] # {}
  BY <1>1, <1>2 DEF GoneUncached, RestsOnItem, ItemThere
<1>5. \E d : Arrives(t, n, d) /\ d.pc # "deleteItem"
  <2>1. CASE c.op = "move"
    <3> DEFINE d == [c EXCEPT !.name = c.other, !.other = c.name, !.pc = "members"]
    <3>1. call' = [call EXCEPT ![t] = d]
      BY <1>2, <2>1, CallType
    <3>2. /\ d \in Calls /\ d.op = "move" /\ d.name = c.other /\ d.other = c.name
          /\ d.pc = "members"
      BY <1>2, <2>1 DEF Calls, Labels
    <3>3. Advance(c, d)
      BY <1>2, <2>1, <3>2 DEF Advance, Swapped
    <3>4. Knows(d, item[n], n \in member) /\ FillRight(d, item[n]) /\ ~RestsOnItem(d)
      BY <3>2 DEF Knows, FillRight, RestsOnItem, ItemThere
    <3> HIDE DEF d
    <3> QED BY <3>1, <3>2, <3>3, <3>4 DEF Arrives
  <2>2. CASE c.op # "move"
    <3>1. call' = [call EXCEPT ![t] = Idle] /\ Advance(c, Idle)
      BY <1>2, <2>2, MovedAdvances, MovedFacts DEF Labels, Lookups, Early, Removals
    <3> QED BY <1>2, <3>1, IdleFacts, GroupRecordsAssumption DEF Arrives
  <2> QED BY <2>1, <2>2
<1>6. groupCache' \in [Names -> {"none", "group", "pending"}]
      /\ \A m \in Names : m # n => groupCache'[m] = groupCache[m]
  BY <1>2 DEF TypeOK
<1>7. groupCache'[n] \in {groupCache[n], "none"}
  BY <1>2 DEF TypeOK
<1>8. Trusted(n) => CacheRight(n)'
  BY <1>2, <1>3, <1>7, ItemFacts DEF CacheRight
<1>9. requestCache' \subseteq Names
      /\ \A m \in Names : m # n => (m \in requestCache' <=> m \in requestCache)
  BY <1>2 DEF TypeOK
<1> QED BY <1>1, <1>2, <1>4, <1>5, <1>6, <1>8, <1>9, CachingPreserves

LEMMA CacheApprovedStep ==
    ASSUME IInv, NEW t \in Threads, CacheApproved(t) PROVE TypeOK' /\ IInv'
<1> DEFINE c == call[t]
           d == Moved(c, "admin")
<1> USE DEF IInv
<1>1. PICK n : n = c.name
  OBVIOUS
<1>2. /\ At(t, "cacheApproved") /\ n \in Names /\ Changer(t) /\ c \in Calls
      /\ requestCache' = requestCache \ {n}
      /\ groupCache' = [groupCache EXCEPT ![n] = "group"] /\ Goto(t, "admin")
      /\ UNCHANGED <<item, member, calls, troubles, stale, unclear>>
  BY <1>1, CallType DEF CacheApproved, CallsNamed, Changer, Lookups
<1>3. n \notin unclear => item[n] = Founded
  BY <1>1, <1>2 DEF ItemsKnown, Knows
<1>4. n \notin stale => item[n] # {}
  BY <1>1, <1>2 DEF GoneUncached, RestsOnItem, ItemThere
<1>5. /\ call' = [call EXCEPT ![t] = d] /\ d \in Calls /\ Advance(c, d) /\ d.pc = "admin"
  BY <1>2, MovedAdvances, MovedFacts DEF Labels, Lookups, Early, Removals, Changer
<1>6. Arrives(t, n, d)
  BY <1>2, <1>3, <1>4, <1>5 DEF Arrives, Knows, FillRight, ItemThere
<1>7. /\ groupCache' \in [Names -> {"none", "group", "pending"}] /\ requestCache' \subseteq Names
      /\ groupCache'[n] = "group" /\ n \notin requestCache'
      /\ \A m \in Names : m # n =>
            groupCache'[m] = groupCache[m] /\ (m \in requestCache' <=> m \in requestCache)
  BY <1>2 DEF TypeOK
<1>8. Trusted(n) => CacheRight(n)'
  BY <1>2, <1>3, <1>7, ItemFacts DEF CacheRight, Trusted
<1> HIDE DEF d
<1> QED BY <1>1, <1>2, <1>4, <1>5, <1>6, <1>7, <1>8, CachingPreserves

LEMMA EraseCachesStep ==
    ASSUME IInv, NEW t \in Threads, EraseCaches(t) PROVE TypeOK' /\ IInv'
<1> DEFINE c == call[t]
           d == Moved(c, "deleteItem")
<1> USE DEF IInv
<1>1. PICK n : n = c.name
  OBVIOUS
<1>2. /\ At(t, "erase") /\ n \in Names /\ Changer(t) /\ c \in Calls
      /\ requestCache' = requestCache \ {n}
      /\ groupCache' = [groupCache EXCEPT ![n] = "none"] /\ Goto(t, "deleteItem")
      /\ UNCHANGED <<item, member, calls, troubles, stale, unclear>>
  BY <1>1, CallType DEF EraseCaches, CallsNamed, Changer, Lookups
<1>3. n \notin unclear => n \notin member
  BY <1>1, <1>2 DEF ItemsKnown, Knows
<1>4. /\ call' = [call EXCEPT ![t] = d] /\ d \in Calls /\ Advance(c, d) /\ d.pc = "deleteItem"
  BY <1>2, MovedAdvances, MovedFacts DEF Labels, Lookups, Early, Removals, Changer
<1>5. /\ groupCache' \in [Names -> {"none", "group", "pending"}] /\ requestCache' \subseteq Names
      /\ groupCache'[n] = "none" /\ n \notin requestCache'
      /\ \A m \in Names : m # n =>
            groupCache'[m] = groupCache[m] /\ (m \in requestCache' <=> m \in requestCache)
  BY <1>2 DEF TypeOK
<1>6. Knows(d, item[n], n \in member) \/ n \in unclear
  BY <1>3, <1>4 DEF Knows
<1>7. Arrives(t, n, d)
  <2>1. n \notin stale /\ item[n] = {} => ~RestsOnItem(d)
    BY <1>1, <1>2, <1>4, RestKept DEF ItemThere, Lookups
  <2> QED BY <1>2, <1>4, <1>6, <2>1 DEF Arrives, FillRight
<1>8. CacheRight(n)' /\ Uncached(n)'
  BY <1>5 DEF CacheRight, Uncached
<1> HIDE DEF d
<1> QED BY <1>1, <1>2, <1>5, <1>7, <1>8, CachingPreserves

LEMMA SetAdminStep == ASSUME IInv, NEW t \in Threads, SetAdmin(t) PROVE TypeOK' /\ IInv'
<1> USE DEF IInv
<1>1. PICK n : n = call[t].name
  OBVIOUS
<1>2. /\ At(t, "admin") /\ n \in Names /\ Changer(t) /\ Goto(t, "idle")
      /\ UNCHANGED <<item, groupCache, requestCache, calls, troubles, stale, unclear>>
  BY <1>1 DEF SetAdmin, CallsNamed, Changer, Lookups
<1>3. /\ member' \subseteq Names
      /\ \A m \in Names : m # n => (m \in member' <=> m \in member)
  BY <1>1, <1>2 DEF SetAdmin, TypeOK
<1>4. n \notin unclear => item[n] = Founded
  BY <1>1, <1>2 DEF ItemsKnown, Knows
<1>5. call' = [call EXCEPT ![t] = Idle] /\ Advance(call[t], Idle)
  BY <1>2 DEF Goto, Advance
<1>6. StepOf(t, Idle)
  BY <1>1, <1>2, <1>3, <1>5, IdleFacts DEF StepOf, SameName
<1>7. call'[t] = Idle /\ \A u \in Threads : u # t => call'[u] = call[u]
  BY <1>6, OthersStay
<1>8. TypeOK'
  <2>1. call' \in [Threads -> Calls]
    BY <1>5, CallType, IdleFacts
  <2> QED BY <1>2, <1>3, <2>1 DEF TypeOK, Calls, Labels
<1>9. n \notin unclear' => Shaped(n)'
  BY <1>2, <1>4, ItemFacts DEF Shaped
<1>10. ~Unwritten(t, n)'
  BY <1>7, IdleFacts DEF Unwritten, Changer
<1>11. Trusted(n)' => CacheRight(n)'
  <2>1. Trusted(n)' => Trusted(n)
    BY <1>2, <1>6, TrustLess
  <2>2. Trusted(n) => CacheRight(n)
    BY <1>1, <1>2, CacheReliable
  <2> QED BY <1>2, <2>1, <2>2 DEF CacheRight
<1>12. n \notin stale /\ item[n] = {} => Uncached(n)'
  BY <1>2 DEF GoneUncached, Uncached
<1>13. CaresFor(t, n, Idle)
  BY <1>2, <1>9, <1>10, <1>11, <1>12, IdleFacts, GroupRecordsAssumption DEF CaresFor
<1> QED BY <1>1, <1>2, <1>6, <1>8, <1>13, StepPreserves

LEMMA RemoveMembersStep ==
    ASSUME IInv, NEW t \in Threads, RemoveMembers(t) PROVE TypeOK' /\ IInv'
<1> DEFINE c == call[t]
           d == Moved(c, "erase")
<1> USE DEF IInv
<1>1. PICK n : n = c.name
  OBVIOUS
<1>2. /\ At(t, "members") /\ n \in Names /\ Changer(t) /\ c \in Calls
      /\ member' = member \ {n} /\ Goto(t, "erase")
      /\ UNCHANGED <<item, groupCache, requestCache, calls, troubles, stale, unclear>>
  BY <1>1, CallType DEF RemoveMembers, CallsNamed, Changer, Lookups
<1>3. /\ call' = [call EXCEPT ![t] = d] /\ d \in Calls /\ Advance(c, d) /\ d.pc = "erase"
  BY <1>2, MovedAdvances, MovedFacts DEF Labels, Lookups, Early, Removals, Changer
<1> HIDE DEF d
<1>4. StepOf(t, d)
  BY <1>1, <1>2, <1>3 DEF StepOf, SameName
<1>5. call'[t] = d /\ \A u \in Threads : u # t => call'[u] = call[u]
  BY <1>4, OthersStay
<1>6. TypeOK'
  <2>1. call' \in [Threads -> Calls]
    BY <1>3, CallType
  <2> QED BY <1>2, <2>1 DEF TypeOK, Calls, Labels
<1>7. n \notin unclear' => Shaped(n)'
  <2>1. n \notin unclear' => Shaped(n)
    BY <1>2 DEF ItemsShaped
  <2>2. \A u \in Threads : At(u, "put") => u # t
    BY <1>2
  <2> QED BY <1>2, <1>5, <2>1, <2>2 DEF Shaped
<1>8. Trusted(n)' => CacheRight(n)'
  <2>1. Trusted(n)' => Trusted(n)
    BY <1>2, <1>4, TrustLess
  <2>2. Trusted(n) => CacheRight(n)
    BY <1>1, <1>2, CacheReliable
  <2> QED BY <1>2, <2>1, <2>2 DEF CacheRight
<1>9. n \notin stale /\ item[n] = {} => Uncached(n)'
  BY <1>2 DEF GoneUncached, Uncached
<1>10. /\ n \notin member' /\ Knows(d, item'[n], n \in member')
       /\ FillRight(d, item'[n])
       /\ n \notin stale /\ item'[n] = {} => ~RestsOnItem(d)
  <2>1. n \notin stale /\ item[n] = {} => ~RestsOnItem(d)
    BY <1>1, <1>2, <1>3, RestKept DEF ItemThere, Lookups
  <2> QED BY <1>2, <1>3, <2>1 DEF Knows, FillRight
<1>11. CaresFor(t, n, d)
  BY <1>2, <1>3, <1>7, <1>8, <1>9, <1>10 DEF CaresFor
<1> QED BY <1>1, <1>2, <1>4, <1>6, <1>11, StepPreserves

LEMMA DeleteItemStep ==
    ASSUME IInv, NEW t \in Threads, DeleteItem(t) PROVE TypeOK' /\ IInv'
<1> USE DEF IInv
<1>1. PICK n : n = call[t].name
  OBVIOUS
<1>2. /\ At(t, "deleteItem") /\ n \in Names /\ Changer(t) /\ Goto(t, "idle")
      /\ item' = [item EXCEPT ![n] = {}]
      /\ UNCHANGED <<member, groupCache, requestCache, calls, troubles, stale, unclear>>
  BY <1>1 DEF DeleteItem, CallsNamed, Changer, Lookups
<1>3. n \notin unclear => n \notin member
  BY <1>1, <1>2 DEF ItemsKnown, Knows
<1>4. n \notin stale => Uncached(n)
  BY <1>1, <1>2 DEF GoneUncached
<1>5. call' = [call EXCEPT ![t] = Idle] /\ Advance(call[t], Idle)
  BY <1>2 DEF Goto, Advance
<1>6. item'[n] = {} /\ \A m \in Names : m # n => item'[m] = item[m]
  BY <1>2 DEF TypeOK
<1>7. StepOf(t, Idle)
  BY <1>1, <1>2, <1>5, <1>6, IdleFacts DEF StepOf, SameName
<1>8. call'[t] = Idle /\ \A u \in Threads : u # t => call'[u] = call[u]
  BY <1>7, OthersStay
<1>9. TypeOK'
  <2>1. call' \in [Threads -> Calls] /\ item' \in [Names -> SUBSET Attributes]
    BY <1>2, <1>5, CallType, IdleFacts DEF TypeOK
  <2> QED BY <1>2, <2>1 DEF TypeOK, Calls, Labels
<1>10. n \notin unclear' => Shaped(n)'
  BY <1>2, <1>3, <1>6, ItemFacts DEF Shaped
<1>11. ~Unwritten(t, n)'
  BY <1>8, IdleFacts DEF Unwritten, Changer
<1>12. Trusted(n)' => n \notin stale
  BY <1>1, <1>2, <1>7, <1>11, TrustAfterWrite
<1>13. n \notin stale => Uncached(n)'
  BY <1>2, <1>4 DEF Uncached
<1>14. CaresFor(t, n, Idle)
  BY <1>2, <1>10, <1>11, <1>12, <1>13, IdleFacts, GroupRecordsAssumption
     DEF CaresFor, CacheRight, Uncached
<1> QED BY <1>1, <1>2, <1>7, <1>9, <1>14, StepPreserves

-----------------------------------------------------------------------------
\* What fails leaves the name unclear, if anything was taken for granted.
LEMMA ReadFailsStep == ASSUME IInv, NEW t \in Threads, ReadFails(t) PROVE TypeOK' /\ IInv'
<1> DEFINE c == call[t]
<1> USE DEF IInv
<1>1. PICK n : n = c.name
  OBVIOUS
<1>2. /\ c.pc \in {"getGroup", "getRequest", "members"} /\ n \in Names /\ c \in Calls
      /\ UNCHANGED <<item, member, groupCache, requestCache, calls, stale>>
      /\ troubles' \in 0 .. MaxTroubles
      /\ unclear' = unclear \/ unclear' = unclear \cup {n}
  <2>1. c.pc \in {"getGroup", "getRequest", "members"}
        /\ UNCHANGED <<item, member, groupCache, requestCache, calls, stale>>
    BY DEF ReadFails
  <2>2. n \in Names /\ c \in Calls
    BY <1>1, <2>1, CallType DEF CallsNamed
  <2>3. troubles' \in 0 .. MaxTroubles
    BY GroupRecordsAssumption DEF ReadFails, Trouble, TypeOK
  <2>4. unclear' = unclear \/ unclear' = unclear \cup {n}
    BY <1>1 DEF ReadFails
  <2> QED BY <2>1, <2>2, <2>3, <2>4
<1>3. unclear \subseteq unclear'
  BY <1>2
<1>4. CASE c.pc = "getGroup" /\ Goto(t, AfterGroup(c.op, "none"))
  <2>1. n \notin unclear' /\ AfterGroup(c.op, "none") = "reserve" => item[n] = {}
    BY <1>1, <1>4 DEF ReadFails
  <2>2. Comes(t, n, Moved(c, AfterGroup(c.op, "none")))
    BY <1>1, <1>2, <1>3, <1>4, <2>1, GroupAnswered
  <2> QED BY <1>1, <1>2, <1>4, <2>2, ReadingPreserves
<1>5. CASE c.pc = "getRequest" /\ AfterRequest(t, FALSE)
  <2>1. c.op = "approving" => n \in unclear'
    BY <1>1, <1>5 DEF ReadFails
  <2>2. PICK d : Comes(t, n, d)
    BY <1>1, <1>2, <1>3, <1>5, <2>1, RequestAnswered
  <2> QED BY <1>1, <1>2, <1>5, <2>2, ReadingPreserves
<1>6. CASE c.pc = "members" /\ Goto(t, "erase")
  <2> DEFINE d == Moved(c, "erase")
  <2>1. n \notin unclear' => n \notin member
    BY <1>1, <1>6 DEF ReadFails
  <2>2. c.op # "look"
    BY <1>6 DEF CallsNamed, Lookups
  <2>3. /\ call' = [call EXCEPT ![t] = d] /\ d \in Calls /\ Advance(c, d) /\ d.pc = "erase"
    BY <1>2, <1>6, <2>2, MovedAdvances, MovedFacts DEF Labels, Lookups, Early, Removals
  <2>4. Comes(t, n, d)
    <3>1. n \notin stale /\ item[n] = {} => ~RestsOnItem(d)
      BY <1>1, <1>2, <1>6, <2>3, RestKept DEF ItemThere, Lookups
    <3> QED BY <2>1, <2>3, <3>1 DEF Comes, Arrives, Knows, FillRight
  <2> QED BY <1>1, <1>2, <1>6, <2>4, ReadingPreserves
<1> QED BY <1>4, <1>5, <1>6 DEF ReadFails

\* An outdated answer leaves the name stale, so that nothing is said of its
\* caches, and unclear if a handler that writes may act on it.
LEMMA ReadsFormerStep == ASSUME IInv, NEW t \in Threads, ReadsFormer(t) PROVE TypeOK' /\ IInv'
<1> DEFINE c == call[t]
<1> USE DEF IInv
<1>1. PICK n : n = c.name
  OBVIOUS
<1>2. /\ c.pc \in {"getGroup", "getRequest"} /\ n \in Names /\ c \in Calls
      /\ UNCHANGED <<item, member, groupCache, requestCache, calls>>
      /\ troubles' \in 0 .. MaxTroubles
  <2>1. c.pc \in {"getGroup", "getRequest"}
        /\ UNCHANGED <<item, member, groupCache, requestCache, calls>>
    BY DEF ReadsFormer
  <2>2. n \in Names /\ c \in Calls
    BY <1>1, <2>1, CallType DEF CallsNamed
  <2>3. troubles' \in 0 .. MaxTroubles
    BY GroupRecordsAssumption DEF ReadsFormer, Trouble, TypeOK
  <2> QED BY <2>1, <2>2, <2>3
<1>3. PICK i \in {Reserved, Requested, Founded} \ {item[n]} :
         /\ \/ At(t, "getGroup") /\ groupCache[n] = "none" /\ ReadGroup(t, i)
            \/ /\ At(t, "getRequest") /\ n \notin requestCache
               /\ i = Requested /\ Goto(t, "fillRequest")
         /\ stale' = stale \cup (IF Readable(i) THEN {n} ELSE {})
         /\ unclear' = unclear \cup (IF Readable(i) /\ Changing(n) THEN {n} ELSE {})
  BY <1>1 DEF ReadsFormer
<1>4. CASE ~Readable(i)
  <2>1. stale' = stale /\ unclear' = unclear /\ At(t, "getGroup") /\ Goto(t, "idle")
    BY <1>3, <1>4, ItemFacts DEF ReadGroup
  <2>2. call' = [call EXCEPT ![t] = Idle] /\ Advance(c, Idle)
    BY <1>2, <2>1, MovedAdvances, MovedFacts DEF Labels, Lookups, Early, Removals
  <2>3. Comes(t, n, Idle)
    BY <1>2, <2>2, IdleFacts, GroupRecordsAssumption DEF Comes, Arrives
  <2> QED BY <1>1, <1>2, <2>1, <2>3, ReadingPreserves
<1>5. CASE Readable(i)
  <2>1. PICK d : /\ call' = [call EXCEPT ![t] = d] /\ d \in Calls /\ Advance(c, d)
                 /\ d.pc \in {"fillGroup", "fillRequest"} /\ d.op = c.op /\ SameNames(c, d)
                 /\ d.pc = "fillRequest" => c.pc = "getRequest"
    <3>1. CASE At(t, "getGroup") /\ ReadGroup(t, i)
      <4> DEFINE d == [c EXCEPT !.seen = Pending(i), !.pc = "fillGroup"]
      <4>1. Pending(i) \in {"group", "pending"}
        BY DEF Pending
      <4>2. call' = [call EXCEPT ![t] = d]
        BY <1>3, <1>5, <3>1, CallType, ItemFacts DEF ReadGroup
      <4>3. d \in Calls /\ d.pc = "fillGroup" /\ d.op = c.op /\ SameNames(c, d)
        BY <1>2, <4>1 DEF Calls, Labels, SameNames
      <4>4. Advance(c, d)
        BY <3>1, <4>3 DEF Advance, Lookups, Early, Removals
      <4>5. d.pc # "fillRequest"
        BY <4>3
      <4> HIDE DEF d
      <4> QED BY <4>2, <4>3, <4>4, <4>5
    <3>2. CASE At(t, "getRequest") /\ Goto(t, "fillRequest")
      <4> DEFINE d == Moved(c, "fillRequest")
      <4>1. call' = [call EXCEPT ![t] = d] /\ d \in Calls /\ Advance(c, d)
        BY <1>2, <3>2, MovedAdvances DEF Labels, Lookups, Early, Removals
      <4>2. d.pc = "fillRequest" /\ d.op = c.op /\ SameNames(c, d)
        BY <1>2, MovedFacts DEF Labels, SameNames
      <4> QED BY <3>2, <4>1, <4>2
    <3> QED BY <1>3, <3>1, <3>2
  <2>2. stale' = stale \cup {n} /\ unclear \subseteq unclear' /\ unclear' \subseteq unclear \cup {n}
    BY <1>3, <1>5
  <2>3. StepOf(t, d)
    BY <1>1, <1>2, <2>1, <2>2 DEF StepOf, SameName
  <2>4. TypeOK'
    <3>1. call' \in [Threads -> Calls] /\ stale' \subseteq Names /\ unclear' \subseteq Names
      BY <1>2, <2>1, <2>2, CallType DEF TypeOK
    <3> QED BY <1>2, <3>1 DEF TypeOK, Calls, Labels
  <2>5. call'[t] = d /\ \A u \in Threads : u # t => call'[u] = call[u]
    BY <2>3, OthersStay
\* Nobody who has not written yet trusts the name from now on.
  <2>6. ~Trusted(n)'
    <3>1. CASE Changing(n)
      BY <1>3, <1>5, <3>1 DEF Trusted
    <3>2. CASE ~Changing(n)
      <4>1. \A u \in Threads : ~(Touches(u, n) /\ Changer(u))
        BY <3>2 DEF Changing, Changer, Touches
      <4>2. \A u \in Threads : Unwritten(u, n)' => Changer(u)' /\ Touches(u, n)'
        BY DEF Unwritten, Changer, Touches
      <4>3. \A u \in Threads : ~Unwritten(u, n)'
        <5>1. \A u \in Threads : /\ Changer(u)' => Changer(u)
                                 /\ \A m \in Names : Touches(u, m)' => Touches(u, m)
          BY <2>3, TouchesLess
        <5> QED BY <1>2, <4>1, <4>2, <5>1
      <4> QED BY <2>2, <4>3 DEF Trusted
    <3> QED BY <3>1, <3>2
  <2>7. n \notin unclear' => Shaped(n)'
    <3>1. n \notin unclear' => Shaped(n)
      BY <1>2, <2>2 DEF ItemsShaped
    <3>2. \A u \in Threads : At(u, "put") => u # t
      BY <1>2
    <3> QED BY <1>2, <2>5, <3>1, <3>2 DEF Shaped
  <2>8. d.op # "look" /\ n \notin unclear' => Knows(d, item'[n], n \in member')
    <3>1. d.op # "look" /\ n \notin unclear' => Knows(c, item[n], n \in member)
      BY <1>1, <1>2, <2>1, <2>2 DEF ItemsKnown, Changer
    <3> QED BY <1>2, <2>1, <3>1 DEF Knows
  <2>9. CaresFor(t, n, d)
    BY <1>2, <2>2, <2>6, <2>7, <2>8 DEF CaresFor
  <2> QED BY <1>1, <1>2, <2>3, <2>4, <2>9, StepPreserves
<1> QED BY <1>4, <1>5

LEMMA WriteFailsStep == ASSUME IInv, NEW t \in Threads, WriteFails(t) PROVE TypeOK' /\ IInv'
<1> DEFINE c == call[t]
<1> USE DEF IInv
<1>1. PICK n : n = c.name
  OBVIOUS
<1>2. /\ c.pc \in {"reserve", "put", "update", "updateRequest", "approve", "members", "deleteItem"}
      /\ n \in Names /\ c \in Calls /\ Changer(t)
      /\ UNCHANGED <<item, member, groupCache, requestCache, calls, stale>>
      /\ troubles' \in 0 .. MaxTroubles
      /\ unclear' = unclear \/ unclear' = unclear \cup {n}
  BY <1>1, CallType, GroupRecordsAssumption
     DEF WriteFails, Trouble, CallsNamed, TypeOK, Changer, Lookups
<1>3. c.pc \in {"put", "approve"} => n \in unclear'
  BY <1>1 DEF WriteFails
<1>4. PICK d : /\ call' = [call EXCEPT ![t] = d] /\ d \in Calls /\ Advance(c, d)
               /\ d = Idle \/ (c.pc = "approve" /\ d.pc = "admin")
  <2>1. CASE c.pc = "approve"
    <3> DEFINE d == Moved(c, "admin")
    <3>1. Goto(t, "admin")
      BY <2>1 DEF WriteFails
    <3>2. /\ call' = [call EXCEPT ![t] = d] /\ d \in Calls /\ Advance(c, d) /\ d.pc = "admin"
      BY <1>2, <2>1, <3>1, MovedAdvances, MovedFacts
         DEF Labels, Lookups, Early, Removals, Changer
    <3> QED BY <2>1, <3>2
  <2>2. CASE c.pc # "approve"
    BY <2>2, IdleFacts DEF WriteFails, Goto, Advance
  <2> QED BY <2>1, <2>2
<1>5. Arrives(t, n, d)
  <2>1. c.pc = "approve" /\ n \notin stale => item[n] # {}
    BY <1>1, <1>2 DEF GoneUncached, RestsOnItem, ItemThere
  <2> QED BY <1>2, <1>3, <1>4, <2>1, IdleFacts, GroupRecordsAssumption DEF Arrives, FillRight
<1>6. d.pc # "deleteItem"
  BY <1>4, IdleFacts
<1>7. CASE c.pc # "put"
  BY <1>1, <1>2, <1>5, <1>6, <1>7, ReadingPreserves DEF Comes
<1>8. CASE c.pc = "put"
  <2>1. StepOf(t, d)
    BY <1>1, <1>2, <1>4 DEF StepOf, SameName
  <2>2. TypeOK'
    <3>1. call' \in [Threads -> Calls]
      BY <1>4, CallType
    <3> QED BY <1>2, <3>1 DEF TypeOK, Calls, Labels
  <2>3. n \in unclear' /\ ~Trusted(n)'
    BY <1>3, <1>8 DEF Trusted
  <2>4. n \notin stale /\ item[n] = {} => Uncached(n)'
    BY <1>2 DEF GoneUncached, Uncached
  <2>5. CaresFor(t, n, d)
    BY <1>2, <1>5, <1>6, <2>3, <2>4 DEF CaresFor, Arrives
  <2> QED BY <1>1, <1>2, <2>1, <2>2, <2>5, StepPreserves
<1> QED BY <1>7, <1>8

\* A server that starts again has only the database.
LEMMA RestartStep == ASSUME IInv, Restart PROVE TypeOK' /\ IInv'
<1> USE DEF IInv
<1>1. /\ call' = [t \in Threads |-> Idle] /\ stale' = {}
      /\ groupCache' = [n \in Names |-> "none"] /\ requestCache' = {}
      /\ UNCHANGED <<item, member, calls>> /\ troubles' \in 0 .. MaxTroubles
  BY GroupRecordsAssumption DEF Restart, Trouble, TypeOK
<1>2. unclear' = unclear \cup {call[t].name : t \in {s \in Threads : At(s, "put")}}
  BY DEF Restart
<1>3. unclear \subseteq unclear' /\ unclear' \subseteq Names
      /\ \A t \in Threads : At(t, "put") => call[t].name \in unclear'
  <2>1. \A t \in Threads : At(t, "put") => call[t].name \in Names
    BY DEF CallsNamed
  <2> QED BY <1>2, <2>1 DEF TypeOK
<1>4. \A t \in Threads : call'[t] = Idle /\ ~Active(t)' /\ ~Changer(t)'
  BY <1>1, IdleFacts DEF Changer
<1>5. TypeOK'
  <2>1. call' \in [Threads -> Calls]
    BY <1>1, IdleFacts
  <2>2. groupCache' \in [Names -> {"none", "group", "pending"}]
    BY <1>1
  <2> QED BY <1>1, <1>3, <2>1, <2>2 DEF TypeOK, Calls, Labels
<1>6. CallsNamed' /\ MeetingsKnown' /\ ItemsKnown' /\ TrustedFills'
  BY <1>4 DEF CallsNamed, MeetingsKnown, ItemsKnown, TrustedFills, Changer, Touches
<1>7. ItemsShaped'
  <2> SUFFICES ASSUME NEW n \in Names \ unclear' PROVE Shaped(n)'
    BY DEF ItemsShaped
  <2>1. Shaped(n) /\ item[n] # Reserved
    BY <1>3 DEF ItemsShaped, Shaped
  <2> QED BY <1>1, <2>1 DEF Shaped
<1>8. \A n \in Names : Uncached(n)' /\ CacheRight(n)'
  BY <1>1 DEF Uncached, CacheRight
<1>9. \A t \in Threads : call'[t].name \notin Names
  BY <1>4, IdleFacts, GroupRecordsAssumption
<1> QED BY <1>5, <1>6, <1>7, <1>8, <1>9 DEF TrustedCaches, GoneUncached

LEMMA ExpireStep == ASSUME IInv, Expire PROVE TypeOK' /\ IInv'
<1> USE DEF IInv
<1>1. /\ UNCHANGED <<item, member, call, calls, troubles, stale, unclear>>
      /\ groupCache' \in [Names -> {"none", "group", "pending"}] /\ requestCache' \subseteq Names
      /\ \A n \in Names : groupCache'[n] \in {groupCache[n], "none"}
      /\ \A n \in Names : n \in requestCache' => n \in requestCache
  <2>1. CASE \E n \in Names : groupCache' = [groupCache EXCEPT ![n] = "none"]
                              /\ UNCHANGED requestCache
    BY <2>1 DEF Expire, TypeOK
  <2>2. CASE \E n \in requestCache : requestCache' = requestCache \ {n} /\ UNCHANGED groupCache
    BY <2>2 DEF Expire, TypeOK
  <2> QED BY <2>1, <2>2 DEF Expire
<1>2. TypeOK'
  BY <1>1 DEF TypeOK
<1>3. CallsNamed' /\ MeetingsKnown' /\ ItemsKnown'
  BY <1>1 DEF CallsNamed, MeetingsKnown, ItemsKnown, Changer, Touches
<1>4. \A n \in Names : /\ Shaped(n)' = Shaped(n) /\ Trusted(n)' = Trusted(n)
                       /\ Approving(n)' = Approving(n)
                       /\ CacheRight(n) => CacheRight(n)'
                       /\ Uncached(n) => Uncached(n)'
  BY <1>1 DEF Shaped, Trusted, Unwritten, Changer, Approving, CacheRight, Uncached
<1>5. ItemsShaped' /\ TrustedCaches'
  BY <1>1, <1>4 DEF ItemsShaped, TrustedCaches
<1>6. TrustedFills'
  <2> SUFFICES ASSUME NEW t \in Threads, NEW n \in Names, Active(t), call[t].name = n, Trusted(n)
               PROVE  FillRight(call[t], item[n])
    BY <1>1, <1>3, <1>4 DEF TrustedFills, CallsNamed
  <2> QED BY DEF TrustedFills
<1>7. GoneUncached'
  BY <1>1, <1>4 DEF GoneUncached
<1> QED BY <1>2, <1>3, <1>5, <1>6, <1>7

-----------------------------------------------------------------------------
\* A new call.  What it meets is noted, and what has come to an end is
\* forgotten.
LEMMA Forgotten ==
    ASSUME IInv, NEW m \in Names
    PROVE  /\ m \in StillStale => m \in stale
           /\ m \in StillUnclear => m \in unclear
           /\ m \in stale /\ m \notin StillStale => Uncached(m) /\ ~Busy(m)
           /\ m \in unclear /\ m \notin StillUnclear =>
                 item[m] = {} /\ m \notin member /\ m \notin StillStale
BY DEF IInv, TypeOK, StillStale, StillUnclear, Uncached

LEMMA BeginStep ==
    ASSUME IInv, NEW t \in Threads, NEW op \in Ops, NEW n \in Names, NEW o \in Names,
           NEW label \in {"getGroup", "getRequest"}, n # o <=> op = "rename",
           Begin(t, op, n, o, label)
    PROVE  TypeOK' /\ IInv'
<1> DEFINE d == [op |-> op, name |-> n, other |-> o, pc |-> label, seen |-> "none"]
<1> USE DEF IInv
<1>1. /\ ~Active(t) /\ calls < MaxCalls /\ calls' = calls + 1
      /\ call' = [call EXCEPT ![t] = d]
      /\ UNCHANGED <<item, member, groupCache, requestCache, troubles>>
  BY DEF Begin
<1>2. \/ /\ op = "look" /\ unclear' = unclear
         /\ stale' = StillStale \cup {m \in {n, o} : Changing(m)}
      \/ /\ op # "look" /\ stale' = StillStale \cup {m \in {n, o} : Busy(m)}
         /\ unclear' = StillUnclear \cup {m \in {n, o} : Changing(m) \/ m \in StillStale}
  BY DEF Begin
<1>3. call'[t] = d /\ \A u \in Threads : u # t => call'[u] = call[u]
  BY <1>1, CallType
<1>4. d \in Calls /\ op \notin {"none", "move", "approving"} /\ label # "idle"
  BY DEF Calls, Labels, Ops
<1> HIDE DEF d
<1>5. d.op = op /\ d.name = n /\ d.other = o /\ d.pc = label
  BY DEF d
<1>6. TypeOK'
  <2>1. call' \in [Threads -> Calls]
    BY <1>1, <1>4, CallType
  <2>2. calls' \in 0 .. MaxCalls
    BY <1>1, GroupRecordsAssumption DEF TypeOK
  <2>3. stale' \subseteq Names /\ unclear' \subseteq Names
    BY <1>2, Forgotten DEF TypeOK, StillStale, StillUnclear
  <2> QED BY <1>1, <2>1, <2>2, <2>3 DEF TypeOK, Calls, Labels
<1>7. CallsNamed'
  BY <1>3, <1>4, <1>5 DEF CallsNamed, Lookups
\* Where the new call is, and where it is not.
<1>8. \A m \in Names : Touches(t, m)' <=> m \in {n, o}
  BY <1>3, <1>4, <1>5 DEF Touches
<1>9. \A u \in Threads, m \in Names :
         u # t => /\ Touches(u, m)' <=> Touches(u, m)
                  /\ Changer(u)' <=> Changer(u)
                  /\ Unwritten(u, m)' <=> Unwritten(u, m)
  BY <1>3 DEF Touches, Changer, Unwritten
<1>10. \A u \in Threads, m \in Names : Touches(u, m) =>
         u # t /\ Busy(m) /\ (m \in stale => m \in StillStale) /\ (Changer(u) => Changing(m))
  BY <1>1, Forgotten DEF Touches, Busy, Changing, Changer
<1>11. \A m \in Names : m \in StillStale => m \in stale'
  BY <1>2
<1>12. \A m \in Names : m \in unclear /\ m \in StillStale => m \in unclear'
  BY <1>2, Forgotten
<1>13. Changer(t)' <=> op # "look"
  BY <1>3, <1>4, <1>5 DEF Changer
<1>14. MeetingsKnown'
  <2> SUFFICES ASSUME NEW m \in Names, NEW u \in Threads, NEW v \in Threads, u # v,
                      Touches(u, m)', Touches(v, m)', Changer(u)'
               PROVE  m \in stale' /\ (Changer(v)' => m \in unclear')
    BY DEF MeetingsKnown
  <2>1. CASE u # t /\ v # t
    <3>1. Touches(u, m) /\ Touches(v, m) /\ Changer(u) /\ (Changer(v)' => Changer(v))
      BY <1>9, <2>1
    <3>2. m \in stale /\ (Changer(v) => m \in unclear)
      BY <3>1, <2>1 DEF MeetingsKnown
    <3> QED BY <1>10, <1>11, <1>12, <3>1, <3>2
  <2>2. CASE u = t
    <3>1. Touches(v, m) /\ m \in {n, o} /\ op # "look" /\ (Changer(v)' => Changer(v))
      BY <1>8, <1>9, <1>13, <2>2
    <3> QED BY <1>2, <1>10, <3>1
  <2>3. CASE v = t
    <3>1. Touches(u, m) /\ m \in {n, o} /\ Changer(u) /\ (Changer(t)' => op # "look")
      BY <1>8, <1>9, <1>13, <2>3
    <3> QED BY <1>2, <1>10, <2>3, <3>1
  <2> QED BY <2>1, <2>2, <2>3
<1>15. ItemsShaped'
  <2> SUFFICES ASSUME NEW m \in Names, m \notin unclear' PROVE Shaped(m)'
    BY DEF ItemsShaped
  <2>1. Shaped(m)
    <3>1. m \notin unclear \/ (item[m] = {} /\ m \notin member)
      BY <1>2, Forgotten
    <3> QED BY <3>1, ItemFacts DEF ItemsShaped, Shaped
  <2>2. \A u \in Threads : At(u, "put") => call'[u] = call[u]
    BY <1>1, <1>3
  <2> QED BY <1>1, <2>1, <2>2 DEF Shaped
\* Names that are no longer unclear.
<1>16. \A m \in Names : m \in unclear /\ m \notin unclear' =>
          item[m] = {} /\ m \notin member /\ Uncached(m) /\ m \notin StillStale
  <2> SUFFICES ASSUME NEW m \in Names, m \in unclear, m \notin unclear'
               PROVE  item[m] = {} /\ m \notin member /\ Uncached(m) /\ m \notin StillStale
    OBVIOUS
  <2>1. item[m] = {} /\ m \notin member /\ m \notin StillStale
    BY <1>2, Forgotten
  <2>2. Uncached(m)
    BY <2>1, Forgotten DEF GoneUncached
  <2> QED BY <2>1, <2>2
<1>17. \A u \in Threads, m \in Names :
          Touches(u, m) /\ call[u].name = m /\ m \in unclear /\ m \notin unclear' =>
             ~RestsOnItem(call[u])
  BY <1>10, <1>16 DEF GoneUncached
<1>18. ItemsKnown'
  <2> SUFFICES ASSUME NEW u \in Threads, NEW m \in Names, Changer(u)', call'[u].name = m,
                      m \notin unclear'
               PROVE  Knows(call'[u], item[m], m \in member)
    BY <1>1, <1>7 DEF ItemsKnown, CallsNamed, Changer
  <2>1. CASE u = t
    BY <1>3, <1>4, <1>5, <2>1 DEF Knows
  <2>2. CASE u # t
    <3>1. Changer(u) /\ call'[u] = call[u] /\ call[u].name = m /\ Touches(u, m)
      BY <1>3, <2>2 DEF Changer, Touches
    <3>2. CASE m \notin unclear
      BY <3>1, <3>2 DEF ItemsKnown
    <3>3. CASE m \in unclear
      <4>1. item[m] = {} /\ m \notin member /\ ~RestsOnItem(call[u])
        BY <1>16, <1>17, <3>1, <3>3
      <4> QED BY <3>1, <4>1 DEF Knows, RestsOnItem, ItemThere
    <3> QED BY <3>2, <3>3
  <2> QED BY <2>1, <2>2
<1>19. \A m \in Names : Trusted(m)' => Trusted(m) \/ m \in unclear \/ m \notin StillStale
  <2> SUFFICES ASSUME NEW m \in Names, Trusted(m)', m \notin unclear, m \in StillStale
               PROVE  Trusted(m)
    OBVIOUS
  <2>1. m \notin unclear' /\ m \in stale'
    BY <1>11 DEF Trusted
  <2>2. PICK u \in Threads : Unwritten(u, m)'
    BY <2>1 DEF Trusted
  <2>3. u # t
    <3> SUFFICES ASSUME u = t PROVE FALSE
      OBVIOUS
    <3>1. m \in {n, o} /\ op # "look"
      BY <1>3, <1>5, <1>13, <2>2 DEF Unwritten
    <3> QED BY <1>2, <2>1, <3>1
  <2>4. Unwritten(u, m)
    BY <1>9, <2>2, <2>3
  <2> QED BY <2>4 DEF Trusted
<1>20. \A m \in Names : Trusted(m)' => Trusted(m) \/ Uncached(m)
  <2> SUFFICES ASSUME NEW m \in Names, Trusted(m)', ~Trusted(m) PROVE Uncached(m)
    OBVIOUS
  <2>1. m \notin unclear' /\ (m \in unclear \/ m \notin StillStale)
    BY <1>19 DEF Trusted
  <2>2. m \notin unclear => m \in stale
    BY DEF Trusted
  <2> QED BY <1>16, <2>1, <2>2, Forgotten
<1>21. TrustedCaches'
  <2> SUFFICES ASSUME NEW m \in Names, Trusted(m)', ~Approving(m)' PROVE CacheRight(m)'
    BY DEF TrustedCaches
  <2>1. ~Approving(m)
    BY <1>1, <1>3 DEF Approving
  <2>2. CacheRight(m)
    BY <1>20, <2>1 DEF TrustedCaches, CacheRight, Uncached
  <2> QED BY <1>1, <2>2 DEF CacheRight
<1>22. TrustedFills'
  <2> SUFFICES ASSUME NEW u \in Threads, NEW m \in Names, Active(u)', call'[u].name = m, Trusted(m)'
               PROVE  FillRight(call'[u], item[m])
    BY <1>1, <1>7 DEF TrustedFills, CallsNamed
  <2>1. CASE u = t
    BY <1>3, <1>5, <2>1 DEF FillRight
  <2>2. CASE u # t
    <3>1. Active(u) /\ call'[u] = call[u] /\ call[u].name = m /\ Touches(u, m)
      BY <1>3, <2>2 DEF Touches
    <3>2. CASE Trusted(m)
      BY <3>1, <3>2 DEF TrustedFills
    <3>3. CASE ~Trusted(m)
      <4>1. m \in unclear
        <5>1. m \notin unclear => m \in stale
          BY <3>3 DEF Trusted
        <5> QED BY <1>10, <1>19, <3>1, <3>3, <5>1
      <4>2. ~RestsOnItem(call[u])
        BY <1>17, <3>1, <4>1 DEF Trusted
      <4> QED BY <3>1, <4>2 DEF FillRight, RestsOnItem, ItemThere
    <3> QED BY <3>2, <3>3
  <2> QED BY <2>1, <2>2
<1>23. GoneUncached'
  <2> SUFFICES ASSUME NEW m \in Names, m \notin stale'
               PROVE  /\ item[m] = {} => Uncached(m)
                      /\ \A u \in Threads : call'[u].name = m =>
                            /\ item[m] = {} => ~RestsOnItem(call'[u])
                            /\ call'[u].pc = "deleteItem" => Uncached(m)
    BY <1>1 DEF GoneUncached, Uncached
  <2>1. /\ item[m] = {} => Uncached(m)
        /\ \A u \in Threads : call[u].name = m =>
              /\ item[m] = {} => ~RestsOnItem(call[u])
              /\ At(u, "deleteItem") => Uncached(m)
    <3>1. CASE m \notin stale
      BY <3>1 DEF GoneUncached
    <3>2. CASE m \in stale
      <4>1. Uncached(m) /\ ~Busy(m)
        BY <1>11, <3>2, Forgotten
      <4>2. \A u \in Threads : call[u].name = m => call[u].pc = "idle"
        BY <4>1 DEF Busy, Touches
      <4> QED BY <4>1, <4>2 DEF RestsOnItem, ItemThere
    <3> QED BY <3>1, <3>2
  <2>2. ~RestsOnItem(d) /\ d.pc # "deleteItem"
    BY <1>4, <1>5 DEF RestsOnItem, ItemThere
  <2> QED BY <1>3, <2>1, <2>2
<1> QED BY <1>6, <1>7, <1>14, <1>15, <1>18, <1>21, <1>22, <1>23

-----------------------------------------------------------------------------
\* The invariant holds in every reachable state.
LEMMA IInvInit == Init => IInv
<1> SUFFICES ASSUME Init PROVE IInv
  OBVIOUS
<1>1. \A t \in Threads : call[t] = Idle /\ ~Active(t) /\ ~Changer(t)
  BY IdleFacts DEF Init, Changer
<1>2. TypeOK
  <2>1. call \in [Threads -> Calls]
    BY IdleFacts DEF Init
  <2>2. item \in [Names -> SUBSET Attributes]
    BY ItemFacts DEF Init
  <2> QED BY <2>1, <2>2, GroupRecordsAssumption DEF Init, TypeOK, Calls, Labels
<1>3. CallsNamed /\ MeetingsKnown /\ ItemsKnown /\ TrustedFills
  BY <1>1 DEF CallsNamed, MeetingsKnown, ItemsKnown, TrustedFills, Touches
<1>4. ItemsShaped
  BY ItemFacts DEF Init, ItemsShaped, Shaped
<1>5. \A n \in Names : Uncached(n) /\ CacheRight(n)
  BY DEF Init, Uncached, CacheRight
<1>6. \A t \in Threads : call[t].name \notin Names
  BY <1>1, IdleFacts, GroupRecordsAssumption
<1> QED BY <1>2, <1>3, <1>4, <1>5, <1>6 DEF IInv, TrustedCaches, GoneUncached

LEMMA BeginAnyStep == ASSUME IInv, NEW t \in Threads, BeginAny(t) PROVE TypeOK' /\ IInv'
<1>1. PICK n \in Names, op \in Ops :
         \/ op \notin {"rename", "deny"} /\ Begin(t, op, n, n, "getGroup")
         \/ op \in {"look", "deny"} /\ Begin(t, op, n, n, "getRequest")
         \/ op = "rename" /\ \E o \in Names \ {n} : Begin(t, op, n, o, "getGroup")
  BY DEF BeginAny
<1>2. CASE op \notin {"rename", "deny"} /\ Begin(t, op, n, n, "getGroup")
  BY <1>2, BeginStep
<1>3. CASE op \in {"look", "deny"} /\ Begin(t, op, n, n, "getRequest")
  BY <1>3, BeginStep
<1>4. CASE op = "rename" /\ \E o \in Names \ {n} : Begin(t, op, n, o, "getGroup")
  BY <1>4, BeginStep
<1> QED BY <1>1, <1>2, <1>3, <1>4

LEMMA IInvNext == IInv /\ [Next]_vars => IInv'
<1> SUFFICES ASSUME IInv, [Next]_vars PROVE IInv'
  OBVIOUS
<1>1. ASSUME NEW t \in Threads, Step(t) PROVE IInv'
  BY <1>1, GetGroupStep, FillGroupStep, GetRequestStep, FillRequestStep, ReserveStep, PutStep,
     UpdateStep, UpdateRequestStep, CacheGroupStep, CacheRequestStep, ApproveStep,
     CacheApprovedStep, SetAdminStep, RemoveMembersStep, EraseCachesStep, DeleteItemStep
     DEF Step
<1>2. ASSUME NEW t \in Threads, BeginAny(t) \/ ReadFails(t) \/ ReadsFormer(t) \/ WriteFails(t)
      PROVE  IInv'
  BY <1>2, BeginAnyStep, ReadFailsStep, ReadsFormerStep, WriteFailsStep
<1>3. CASE Restart \/ Expire
  BY <1>3, RestartStep, ExpireStep
<1>4. CASE UNCHANGED vars
  BY <1>4 DEF IInv, TypeOK, CallsNamed, MeetingsKnown, ItemsShaped, Shaped, ItemsKnown,
     TrustedCaches, Trusted, Unwritten, Approving, CacheRight, TrustedFills, GoneUncached,
     Uncached, Changer, Touches
<1> QED BY <1>1, <1>2, <1>3, <1>4 DEF Next

\* Every variable keeps its type, whatever calls do.
THEOREM TypeCorrect == Spec => []TypeOK
<1>1. IInv => TypeOK
  BY DEF IInv
<1> QED BY <1>1, IInvInit, IInvNext, PTL DEF Spec

\* While nobody changes a name, and neither a meeting of calls, nor a failure or
\* an outdated read that misled one, has made it unclear, its item can be read
\* (PersistentStore.cpp:1424-1443, 1890-1912).
THEOREM LookupsReadable == Spec => []RecordsReadable
<1>1. ASSUME IInv PROVE RecordsReadable
  <2> SUFFICES ASSUME NEW n \in Names, n \notin unclear, ~Changing(n)
               PROVE  item[n] = {} \/ Readable(item[n])
    BY DEF RecordsReadable
  <2>1. \A t \in Threads : At(t, "put") /\ call[t].name = n => Changing(n)
    BY <1>1 DEF IInv, CallsNamed, Changing, Touches, Lookups
  <2> QED BY <1>1, <2>1, ItemFacts DEF IInv, ItemsShaped, Shaped
<1> QED BY <1>1, IInvInit, IInvNext, PTL DEF Spec

\* Between the calls that change a name the caches say what the database says,
\* but for what an outdated or overlapped read has put there
\* (PersistentStore.cpp:1506-1511, 2008-2018).
THEOREM CachesCoherent == Spec => []CachesAgree
<1>1. ASSUME IInv PROVE CachesAgree
  <2> SUFFICES ASSUME NEW n \in Names, n \notin stale, n \notin unclear, ~Changing(n)
               PROVE  CacheRight(n) /\ (groupCache[n] # "none" => item[n] # {})
    BY DEF CachesAgree, CacheRight
  <2>1. Trusted(n)
    BY DEF Trusted
  <2>2. ~Approving(n)
    BY <1>1 DEF IInv, CallsNamed, Changing, Touches, Lookups, Approving
  <2> QED BY <1>1, <2>1, <2>2, ItemFacts DEF IInv, TrustedCaches, CacheRight
<1> QED BY <1>1, IInvInit, IInvNext, PTL DEF Spec

-----------------------------------------------------------------------------
\* What a step makes of one name, as GroupLifecycle sees it.
Kept(n) == n \in member \ unclear
LifeStep(n) == Lifecycle!Step(KindOf(n), Kept(n), KindOf(n)', Kept(n)')

LEMMA KindFacts ==
    ASSUME NEW n \in Names
    PROVE  /\ n \in unclear => KindOf(n) = "unclear" /\ ~Kept(n)
           /\ n \notin unclear =>
                 /\ item[n] \in {{}, Reserved} => KindOf(n) = "none"
                 /\ item[n] = Requested => KindOf(n) = "request"
                 /\ item[n] = Founded => KindOf(n) = "group"
                 /\ Kept(n) <=> n \in member
           /\ KindOf(n) \in Lifecycle!Kinds
<1>1. KindOf(n) = IF n \in unclear THEN "unclear"
                 ELSE CASE item[n] \in {{}, Reserved} -> "none"
                        [] "requester" \in item[n]    -> "request"
                        [] OTHER                       -> "group"
  BY DEF KindOf
<1>2. n \in unclear => KindOf(n) = "unclear" /\ ~Kept(n)
  BY <1>1 DEF Kept
<1>3. n \notin unclear =>
         /\ item[n] \in {{}, Reserved} => KindOf(n) = "none"
         /\ item[n] = Requested => KindOf(n) = "request"
         /\ item[n] = Founded => KindOf(n) = "group"
  BY <1>1, ItemFacts
<1>4. KindOf(n) \in Lifecycle!Kinds
  BY <1>1 DEF Lifecycle!Kinds
<1>5. n \notin unclear => (Kept(n) <=> n \in member)
  BY DEF Kept
<1> QED BY <1>2, <1>3, <1>4, <1>5

LEMMA KindFactsNext ==
    ASSUME NEW n \in Names
    PROVE  /\ n \in unclear' => KindOf(n)' = "unclear" /\ ~Kept(n)'
           /\ n \notin unclear' =>
                 /\ item'[n] \in {{}, Reserved} => KindOf(n)' = "none"
                 /\ item'[n] = Requested => KindOf(n)' = "request"
                 /\ item'[n] = Founded => KindOf(n)' = "group"
                 /\ Kept(n)' <=> n \in member'
           /\ KindOf(n)' \in Lifecycle!Kinds
<1>1. KindOf(n)' = IF n \in unclear' THEN "unclear"
                 ELSE CASE item'[n] \in {{}, Reserved} -> "none"
                        [] "requester" \in item'[n]    -> "request"
                        [] OTHER                       -> "group"
  BY DEF KindOf
<1>2. n \in unclear' => KindOf(n)' = "unclear" /\ ~Kept(n)'
  BY <1>1 DEF Kept
<1>3. n \notin unclear' =>
         /\ item'[n] \in {{}, Reserved} => KindOf(n)' = "none"
         /\ item'[n] = Requested => KindOf(n)' = "request"
         /\ item'[n] = Founded => KindOf(n)' = "group"
  BY <1>1, ItemFacts
<1>4. KindOf(n)' \in Lifecycle!Kinds
  BY <1>1 DEF Lifecycle!Kinds
<1>5. n \notin unclear' => (Kept(n)' <=> n \in member')
  BY DEF Kept
<1> QED BY <1>2, <1>3, <1>4, <1>5

\* A name that a step does not change stutters; one that becomes unclear is lost.
LEMMA NameStays ==
    ASSUME NEW n \in Names, item'[n] = item[n], n \in member' <=> n \in member,
           n \in unclear => n \in unclear'
    PROVE  LifeStep(n)
<1>1. CASE n \in unclear'
  BY <1>1, KindFactsNext DEF LifeStep, Lifecycle!Step, Lifecycle!Lose
<1>2. CASE n \notin unclear'
  <2>1. KindOf(n)' = KindOf(n)
    BY <1>2 DEF KindOf
  <2>2. Kept(n)' = Kept(n)
    BY <1>2 DEF Kept
  <2> QED BY <2>1, <2>2 DEF LifeStep, Lifecycle!Step
<1> QED BY <1>1, <1>2

LEMMA UnclearStays ==
    ASSUME NEW n \in Names, n \in unclear, n \in unclear' PROVE LifeStep(n)
BY KindFacts, KindFactsNext DEF LifeStep, Lifecycle!Step, Lifecycle!Lose

\* The steps that write the item of a name, or its members.
LEMMA ReserveLife ==
    ASSUME IInv, NEW t \in Threads, NEW n \in Names, Reserve(t) PROVE LifeStep(n)
<1>1. CASE n # call[t].name \/ n \in unclear
  BY <1>1, NameStays, UnclearStays DEF Reserve, IInv, TypeOK
<1>2. CASE n = call[t].name /\ n \notin unclear
  <2>1. item[n] = {} /\ item'[n] = Reserved /\ member' = member /\ unclear' = unclear
    BY <1>2 DEF Reserve, IInv, TypeOK, ItemsKnown, Knows, CallsNamed, Changer, Lookups
  <2>2. KindOf(n) = "none" /\ KindOf(n)' = "none"
    BY <1>2, <2>1, KindFacts, KindFactsNext
  <2>3. Kept(n)' = Kept(n)
    BY <2>1 DEF Kept
  <2> QED BY <2>2, <2>3 DEF LifeStep, Lifecycle!Step
<1> QED BY <1>1, <1>2

LEMMA PutLife == ASSUME IInv, NEW t \in Threads, NEW n \in Names, Put(t) PROVE LifeStep(n)
<1>1. CASE n # call[t].name \/ n \in unclear
  BY <1>1, NameStays, UnclearStays DEF Put, IInv, TypeOK
<1>2. CASE n = call[t].name /\ n \notin unclear
  <2>1. item[n] = Reserved /\ n \notin member
    BY <1>2, ItemFacts
       DEF Put, IInv, ItemsKnown, Knows, ItemsShaped, Shaped, CallsNamed, Changer, Lookups
  <2>2. item'[n] \in {Requested, Founded} /\ member' = member /\ unclear' = unclear
    BY <1>2 DEF Put, IInv, TypeOK
  <2>3. KindOf(n) = "none" /\ KindOf(n)' \in {"request", "group"} /\ ~Kept(n)' /\ ~Kept(n)
    BY <1>2, <2>1, <2>2, KindFacts, KindFactsNext
  <2> QED BY <2>3 DEF LifeStep, Lifecycle!Step, Lifecycle!Request, Lifecycle!Found
<1> QED BY <1>1, <1>2

LEMMA UpdateLife ==
    ASSUME IInv, NEW t \in Threads, NEW n \in Names, Update(t) \/ UpdateRequest(t) PROVE LifeStep(n)
<1>1. CASE n # call[t].name \/ n \in unclear
  BY <1>1, NameStays, UnclearStays DEF Update, UpdateRequest, IInv, TypeOK
<1>2. CASE n = call[t].name /\ n \notin unclear
  <2>1. /\ Update(t) => item[n] = Founded
        /\ UpdateRequest(t) => item[n] = Requested
    BY <1>2 DEF Update, UpdateRequest, IInv, ItemsKnown, Knows, CallsNamed, Changer, Lookups
  <2>2. member' = member /\ unclear' = unclear
    BY DEF Update, UpdateRequest
  <2>3. \A as : item' = [item EXCEPT ![n] = as] => item'[n] = as
    BY SMT DEF IInv, TypeOK
  <2>4. CASE Update(t)
    <3>1. item' = [item EXCEPT ![n] = item[n] \cup {"details"}]
      BY <1>2, <2>4, SMT DEF Update
    <3> QED BY <2>1, <2>2, <2>3, <2>4, <3>1, ItemFacts, NameStays
  <2>5. CASE UpdateRequest(t)
    <3>1. item' = [item EXCEPT ![n] = item[n] \cup {"details", "requester"}]
      BY <1>2, <2>5, SMT DEF UpdateRequest
    <3> QED BY <2>1, <2>2, <2>3, <2>5, <3>1, ItemFacts, NameStays
  <2> QED BY <2>4, <2>5
<1> QED BY <1>1, <1>2

LEMMA ApproveLife ==
    ASSUME IInv, NEW t \in Threads, NEW n \in Names, Approve(t) PROVE LifeStep(n)
<1>1. CASE n # call[t].name \/ n \in unclear
  BY <1>1, NameStays, UnclearStays DEF Approve, IInv, TypeOK
<1>2. CASE n = call[t].name /\ n \notin unclear
  <2>1. item[n] = Requested /\ n \notin member
    BY <1>2, ItemFacts
       DEF Approve, IInv, ItemsKnown, Knows, ItemsShaped, Shaped, CallsNamed, Changer, Lookups
  <2>2. item'[n] = Founded /\ member' = member /\ unclear' = unclear
    BY <1>2, <2>1, ItemFacts DEF Approve, IInv, TypeOK
  <2>3. KindOf(n) = "request" /\ KindOf(n)' = "group" /\ ~Kept(n)' /\ ~Kept(n)
    BY <1>2, <2>1, <2>2, KindFacts, KindFactsNext
  <2> QED BY <2>3 DEF LifeStep, Lifecycle!Step, Lifecycle!Approve
<1> QED BY <1>1, <1>2

LEMMA SetAdminLife ==
    ASSUME IInv, NEW t \in Threads, NEW n \in Names, SetAdmin(t) PROVE LifeStep(n)
<1>1. CASE n # call[t].name \/ n \in unclear
  BY <1>1, NameStays, UnclearStays DEF SetAdmin
<1>2. CASE n = call[t].name /\ n \notin unclear
  <2>1. item[n] = Founded
    BY <1>2 DEF SetAdmin, IInv, ItemsKnown, Knows, CallsNamed, Changer, Lookups
  <2>2. item' = item /\ unclear' = unclear
    BY DEF SetAdmin
  <2>3. KindOf(n) = "group" /\ KindOf(n)' = "group"
    BY <1>2, <2>1, <2>2, KindFacts, KindFactsNext
  <2> QED BY <2>3 DEF LifeStep, Lifecycle!Step, Lifecycle!Enrol, Lifecycle!Empty
<1> QED BY <1>1, <1>2

LEMMA RemoveMembersLife ==
    ASSUME IInv, NEW t \in Threads, NEW n \in Names, RemoveMembers(t) PROVE LifeStep(n)
<1>1. CASE n # call[t].name \/ n \in unclear
  BY <1>1, NameStays, UnclearStays DEF RemoveMembers
<1>2. CASE n = call[t].name /\ n \notin unclear /\ n \notin member
  BY <1>2, NameStays DEF RemoveMembers
<1>3. CASE n = call[t].name /\ n \notin unclear /\ n \in member
  <2>1. item[n] = Founded
    BY <1>3 DEF IInv, ItemsShaped, Shaped
  <2>2. item' = item /\ unclear' = unclear /\ n \notin member'
    BY <1>3 DEF RemoveMembers
  <2>3. KindOf(n) = "group" /\ KindOf(n)' = "group" /\ ~Kept(n)'
    BY <1>3, <2>1, <2>2, KindFacts, KindFactsNext
  <2> QED BY <2>3 DEF LifeStep, Lifecycle!Step, Lifecycle!Empty
<1> QED BY <1>1, <1>2, <1>3

LEMMA DeleteItemLife ==
    ASSUME IInv, NEW t \in Threads, NEW n \in Names, DeleteItem(t) PROVE LifeStep(n)
<1>1. CASE n # call[t].name \/ n \in unclear
  BY <1>1, NameStays, UnclearStays DEF DeleteItem, IInv, TypeOK
<1>2. CASE n = call[t].name /\ n \notin unclear
  <2>1. n \notin member /\ Shaped(n)
    BY <1>2 DEF DeleteItem, IInv, ItemsKnown, Knows, ItemsShaped, CallsNamed, Changer, Lookups
  <2>2. item'[n] = {} /\ member' = member /\ unclear' = unclear
    BY <1>2 DEF DeleteItem, IInv, TypeOK
  <2>3. KindOf(n) # "unclear" /\ KindOf(n)' = "none" /\ ~Kept(n)' /\ ~Kept(n)
    BY <1>2, <2>1, <2>2, KindFacts, KindFactsNext DEF Shaped
  <2> QED BY <2>3 DEF LifeStep, Lifecycle!Step, Lifecycle!Remove
<1> QED BY <1>1, <1>2

\* A call that begins may find that a name is no longer unclear: nothing is left of it.
LEMMA BeginLife ==
    ASSUME IInv, NEW t \in Threads, NEW n \in Names, BeginAny(t) PROVE LifeStep(n)
<1>1. item' = item /\ member' = member
      /\ (n \in unclear /\ n \notin unclear' => n \notin StillUnclear)
  BY DEF BeginAny, Begin
<1>2. CASE n \in unclear /\ n \notin unclear'
  <2>1. item[n] = {} /\ n \notin member
    BY <1>1, <1>2, Forgotten
  <2>2. KindOf(n) = "unclear" /\ KindOf(n)' = "none" /\ ~Kept(n)'
    BY <1>1, <1>2, <2>1, KindFacts, KindFactsNext
  <2> QED BY <2>2 DEF LifeStep, Lifecycle!Step, Lifecycle!Recover
<1>3. CASE n \notin unclear \/ n \in unclear'
  BY <1>1, <1>3, NameStays
<1> QED BY <1>2, <1>3

LEMMA LifeStepEach ==
    ASSUME IInv, [Next]_vars, NEW n \in Names PROVE LifeStep(n)
<1>1. ASSUME NEW t \in Threads, Step(t) PROVE LifeStep(n)
  <2>1. CASE \/ GetGroup(t) \/ FillGroup(t) \/ GetRequest(t) \/ FillRequest(t)
             \/ CacheGroup(t) \/ CacheRequest(t) \/ CacheApproved(t) \/ EraseCaches(t)
    <3>1. item' = item /\ member' = member /\ unclear' = unclear
      BY <2>1 DEF GetGroup, FillGroup, GetRequest, FillRequest, CacheGroup, CacheRequest,
         CacheApproved, EraseCaches
    <3> QED BY <3>1, NameStays
  <2>2. CASE \/ Reserve(t) \/ Put(t) \/ Update(t) \/ UpdateRequest(t) \/ Approve(t)
             \/ SetAdmin(t) \/ RemoveMembers(t) \/ DeleteItem(t)
    BY <2>2, ReserveLife, PutLife, UpdateLife, ApproveLife, SetAdminLife, RemoveMembersLife,
       DeleteItemLife
  <2> QED BY <1>1, <2>1, <2>2 DEF Step
<1>2. ASSUME NEW t \in Threads, ReadFails(t) \/ ReadsFormer(t) \/ WriteFails(t)
      PROVE  LifeStep(n)
  <2>1. item' = item /\ member' = member /\ unclear \subseteq unclear'
    BY <1>2 DEF ReadFails, ReadsFormer, WriteFails
  <2> QED BY <2>1, NameStays
<1>3. CASE Restart \/ Expire \/ UNCHANGED vars
  <2>1. item' = item /\ member' = member /\ unclear \subseteq unclear'
    BY <1>3 DEF Restart, Expire
  <2> QED BY <2>1, NameStays
<1> QED BY <1>1, <1>2, <1>3, BeginLife DEF Next

\* For each name, the handlers implement GroupLifecycle: founded or requested
\* when free, a group only by approval, members only while there is a group,
\* the record last (GroupCommands.cpp, PersistentStore.cpp).
THEOREM KeepsLifecycle == Spec => LifecycleSpec
<1>1. ASSUME Init PROVE Lifecycle!Init
  <2>1. \A n \in Names : KindOf(n) \in Lifecycle!Kinds \ {"unclear"} /\ n \notin member \ unclear
    <3> SUFFICES ASSUME NEW n \in Names
                 PROVE  KindOf(n) \in Lifecycle!Kinds \ {"unclear"} /\ n \notin member \ unclear
      OBVIOUS
    <3>1. n \notin unclear /\ n \notin member /\ item[n] \in {{}, Requested, Founded}
      BY <1>1 DEF Init
    <3> QED BY <3>1, KindFacts DEF Lifecycle!Kinds
  <2>2. \A n \in Names : (n \in member \ unclear) = FALSE
    BY <2>1
  <2>3. [n \in Names |-> n \in member \ unclear] = [n \in Names |-> FALSE]
    BY <2>2
  <2> QED BY <2>1, <2>3 DEF Lifecycle!Init
<1>2. ASSUME IInv, [Next]_vars PROVE Lifecycle!Next
  <2>1. \A n \in Names : LifeStep(n) /\ KindOf(n)' \in Lifecycle!Kinds
    BY <1>2, LifeStepEach, KindFactsNext
  <2>2. [n \in Names |-> KindOf(n)]' \in [Names -> Lifecycle!Kinds]
        /\ [n \in Names |-> n \in member \ unclear]' \in [Names -> BOOLEAN]
    BY <2>1
  <2>3. \A n \in Names :
           Lifecycle!Step([m \in Names |-> KindOf(m)][n],
                          [m \in Names |-> m \in member \ unclear][n],
                          [m \in Names |-> KindOf(m)]'[n],
                          [m \in Names |-> m \in member \ unclear]'[n])
    BY <2>1 DEF LifeStep, Kept
  <2> QED BY <2>2, <2>3 DEF Lifecycle!Next
<1> QED BY <1>1, <1>2, IInvInit, IInvNext, PTL DEF Spec, LifecycleSpec, Lifecycle!Spec
=============================================================================
