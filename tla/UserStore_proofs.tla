--------------------------- MODULE UserStore_proofs ---------------------------
(***************************************************************************)
(* Theorems about UserStore for every set of threads and Globus IDs: the   *)
(* record is whole between calls, the caches agree with it, and the        *)
(* handlers keep the promise of Account.                                   *)
(***************************************************************************)
EXTENDS UserStore, TLAPS

USE DEF vars, caches, bounds, history, At, Active

(***************************************************************************)
(* The inductive invariant.                                                *)
(***************************************************************************)
\* A call that may write, that has written the item and has yet to change the
\* caches, and that has not written anything yet.
Filling == {"cacheUser", "dropToken", "cacheToken", "cacheGlobus"}
Changer(c) == c.pc # "idle" /\ c.op \notin Readers
Rewriting(c) == Changer(c) /\ c.pc \in Filling /\ c.next = "idle"
Unwritten(c) == Changer(c) /\ c.pc # "put" /\ ~Rewriting(c)

\* Only tokens given out so far are anywhere.
Given == 1 .. calls + 1
GivenRecords == [token : Given, globus : GlobusIDs]

Labels == {"idle", "getUser", "found", "findToken", "findGlobus", "scan", "cacheUser",
           "dropToken", "cacheToken", "cacheGlobus", "update", "nameInUse", "reserve", "put",
           "findCached", "eraseToken", "eraseGlobus", "eraseUser", "deleteItem"}
Calls == [op : Ops \cup {"none"}, token : Given \cup {0}, globus : GlobusIDs \cup {"none"},
          old : GivenRecords \cup {Nothing}, new : GivenRecords \cup {Nothing},
          pc : Labels, next : {"idle", "found"}]

Typed ==
    /\ db \in [state : DBStates, rec : GivenRecords \cup {Nothing}]
    /\ db.rec = Nothing <=> db.state \in {"gone", "reserved"}
    /\ userCache \in [held : {"none", "expired", "live"}, rec : GivenRecords \cup {Nothing}]
    /\ userCache.rec = Nothing <=> userCache.held = "none"
    /\ tokenCache \in [Tokens -> GlobusIDs \cup {"none"}]
    /\ globusCache \in [GlobusIDs -> Tokens \cup {0}]
    /\ call \in [Threads -> Calls]
    /\ calls \in 0 .. MaxCalls /\ troubles \in 0 .. MaxTroubles
    /\ retired \subseteq Given /\ left \subseteq GlobusIDs
    /\ stale \in BOOLEAN /\ unclear \in BOOLEAN

\* Where the handlers can be, and what they carry.
Erasing == {"findCached", "eraseToken", "eraseGlobus", "eraseUser", "deleteItem"}
ByName == {"look", "touch", "edit", "replace", "delete", "deleteSelf", "findToken"}

Shaped(c) ==
    /\ c.op \in {"edit", "create", "findGlobus"} => c.globus \in GlobusIDs
    /\ c.op \in {"replace", "create", "findToken", "deleteSelf"} => c.token \in Given
    /\ c.pc # "idle" => c.op \in Ops
    /\ c.pc \in {"getUser", "found"} => c.op \in ByName
    /\ c.pc = "findToken" => c.op \in {"findToken", "deleteSelf"}
    /\ c.pc = "findGlobus" => c.op \in {"findGlobus", "create"}
    /\ c.pc = "scan" => c.op = "list"
    /\ c.pc \in {"nameInUse", "reserve", "put"} => c.op = "create"
    /\ c.pc \in Erasing => c.op \in {"delete", "deleteSelf"}
    /\ c.pc = "update" => c.op \in {"edit", "replace", "touch"} /\ c.old \in GivenRecords
                          /\ c.new = Changed(c, c.old)
    /\ c.pc = "found" => c.old \in GivenRecords
    /\ c.pc \in Filling => c.new \in GivenRecords
    /\ c.pc \in Filling /\ c.next = "found" => c.old = c.new /\ c.op \in ByName
    /\ c.pc \in Filling /\ c.next = "idle" =>
          c.op \in {"list", "findGlobus", "edit", "replace", "touch", "create"}
    /\ c.pc \in {"dropToken", "cacheToken"} => c.op # "list"
    /\ c.pc = "dropToken" => c.old.token \notin {0, c.new.token}

CallsShaped == \A t \in Threads : Shaped(call[t])

MeetingsKnown ==
    \A t, u \in Threads :
       t # u /\ Active(u) /\ Changer(call[t]) => stale /\ (Changer(call[u]) => unclear)

\* The caches can be trusted: a call that writes has not met another one, or
\* has not written yet.
Trusted == ~stale \/ (~unclear /\ \E t \in Threads : Unwritten(call[t]))

\* What a thread that has come to a step knows of the record.
Sure(c) == IF Changer(c) THEN ~stale \/ ~unclear ELSE Trusted
Knows(c) ==
    /\ c.pc = "reserve" => db.state = "gone"
    /\ c.pc = "put" => db.state = "reserved"
    /\ c.pc \in {"found", "update"} => db.state = "whole" /\ db.rec = c.old
    /\ c.pc \in Filling =>
          db.rec = c.new /\ (db.state = "whole" \/ (c.pc = "cacheGlobus" /\ c.next = "idle"))

RecordKnown == \A t \in Threads : Active(t) /\ Sure(call[t]) => Knows(call[t])

RecordShaped ==
    ~unclear => db.state \in {"gone", "whole"}
                \/ (db.state = "reserved" /\ \E t \in Threads : At(t, "put"))

UserRight == userCache.held = "live" => db.state = "whole" /\ userCache.rec = db.rec
TokenRight ==
    \A k \in Tokens : tokenCache[k] # "none" =>
       db.state = "whole" /\ db.rec = [token |-> k, globus |-> tokenCache[k]]
GlobusRight ==
    \A g \in GlobusIDs \ left : globusCache[g] # 0 =>
       Indexed /\ db.rec = [token |-> globusCache[g], globus |-> g]
CachesRight == UserRight /\ TokenRight /\ GlobusRight

TrustedCaches == Trusted /\ (\A t \in Threads : ~Rewriting(call[t])) => CachesRight

\* What is in the caches while a handler changes them one by one.
Rewrites(c) ==
    /\ c.pc # "cacheUser" => UserRight
    /\ c.pc = "cacheGlobus" => TokenRight
    /\ \A k \in Tokens : tokenCache[k] # "none" =>
          k = c.new.token \/ (k = c.old.token /\ c.pc # "cacheToken")
    /\ \A g \in GlobusIDs \ left : globusCache[g] # 0 => g \in {c.old.globus, c.new.globus}

\* What is no longer there while a handler removes the account.
NoTokens == \A k \in Tokens : tokenCache[k] = "none"
NoGlobus == \A g \in GlobusIDs \ left : globusCache[g] = 0
Erases(c) ==
    /\ c.pc \in {"eraseToken", "eraseGlobus"} => c.old = db.rec
    /\ c.pc \in {"eraseGlobus", "eraseUser", "deleteItem"} => NoTokens
    /\ c.pc \in {"eraseUser", "deleteItem"} => NoGlobus
    /\ c.pc = "deleteItem" => userCache.held = "none"

\* removeUser finds the keys of the other caches in the one by name.
Stored == userCache.held # "none" /\ userCache.rec = db.rec
Stores(c) ==
    \/ c.pc \in {"dropToken", "cacheToken", "found", "findCached"}
    \/ c.pc = "cacheGlobus" /\ c.next = "found"

KeysStored ==
    NoTokens \/ Stored \/ \E t \in Threads : Rewriting(call[t]) /\ At(t, "cacheUser")

CachesKnown ==
    ~stale =>
       /\ \A t \in Threads :
             /\ Rewriting(call[t]) => Rewrites(call[t])
             /\ Erases(call[t])
             /\ Stores(call[t]) => Stored
       /\ KeysStored

\* A token that is to be given to the account has not been its token before.
Fresh(c) ==
    Changer(c) /\ c.op \in {"create", "replace"} /\ ~Rewriting(c) =>
       c.token \notin retired \cup {db.rec.token}

TokensFresh == ~unclear => \A t \in Threads : Fresh(call[t])

IInv ==
    /\ Typed
    /\ CallsShaped
    /\ MeetingsKnown
    /\ RecordKnown
    /\ RecordShaped
    /\ TrustedCaches
    /\ CachesKnown
    /\ TokensFresh

\* What an outdated read may find has once been written.
PastGiven == past \subseteq GivenRecords
Inv == IInv /\ PastGiven

-----------------------------------------------------------------------------
\* Records and calls.
LEMMA RecordFacts ==
    ASSUME calls \in Nat
    PROVE  /\ Nothing \notin GivenRecords /\ Nothing.token = 0 /\ Nothing.globus = "none"
           /\ 0 \notin Given /\ Idle \in Calls /\ Idle.pc = "idle" /\ Idle.op = "none"
           /\ Idle.token = 0 /\ Idle.next = "idle" /\ Idle.globus = "none"
BY DEF Nothing, GivenRecords, Given, Idle, Calls, Labels

LEMMA GivenStays ==
    ASSUME calls' = calls PROVE Given' = Given /\ GivenRecords' = GivenRecords /\ Calls' = Calls
BY DEF Given, GivenRecords, Calls

LEMMA TokensGiven ==
    ASSUME calls \in 0 .. MaxCalls PROVE Given \subseteq Tokens /\ GivenRecords \subseteq Records
BY UserStoreAssumption DEF Given, Tokens, GivenRecords, Records

Moved(c, label) == IF label = "idle" THEN Idle ELSE [c EXCEPT !.pc = label]

LEMMA MovedFacts ==
    ASSUME calls \in Nat, NEW c \in Calls, NEW label \in Labels
    PROVE  /\ Moved(c, label) \in Calls /\ Moved(c, label).pc = label
           /\ label = "idle" => Moved(c, label) = Idle
           /\ label # "idle" =>
                 /\ Moved(c, label).op = c.op /\ Moved(c, label).token = c.token
                 /\ Moved(c, label).globus = c.globus /\ Moved(c, label).next = c.next
                 /\ Moved(c, label).old = c.old /\ Moved(c, label).new = c.new
BY RecordFacts DEF Moved, Calls

LEMMA GotoMoves ==
    ASSUME NEW t \in Threads, NEW label, Goto(t, label)
    PROVE  call' = [call EXCEPT ![t] = Moved(call[t], label)]
BY DEF Goto, Moved

\* How one step changes what a thread does.
Advance(c, d) ==
    \/ d = Idle
    \/ /\ d.op = c.op /\ d.token = c.token /\ d.pc # "idle"
       /\ Unwritten(d) => Unwritten(c)
       /\ Rewriting(c) => Rewriting(d)

Moves(t, d) ==
    /\ Active(t) /\ call' = [call EXCEPT ![t] = d]
    /\ d \in Calls /\ Shaped(d) /\ Advance(call[t], d)

StepOf(t, d) ==
    Moves(t, d) /\ calls' = calls /\ (stale => stale') /\ (unclear => unclear')

LEMMA OthersStay ==
    ASSUME Typed, NEW t \in Threads, NEW d, Moves(t, d)
    PROVE  call'[t] = d /\ \A u \in Threads : u # t => call'[u] = call[u]
BY DEF Moves, Typed

LEMMA ChangesLess ==
    ASSUME Typed, NEW t \in Threads, NEW d, Moves(t, d)
    PROVE  /\ Changer(d) => Changer(call[t])
           /\ Unwritten(d) => Unwritten(call[t])
           /\ \A u \in Threads : /\ Active(u)' => Active(u)
                                 /\ Changer(call'[u]) => Changer(call[u])
                                 /\ Unwritten(call'[u]) => Unwritten(call[u])
<1>1. call'[t] = d /\ \A u \in Threads : u # t => call'[u] = call[u]
  BY OthersStay
<1>2. calls \in Nat
  BY DEF Typed
<1>3. Changer(d) => Changer(call[t])
  BY <1>2, RecordFacts DEF Moves, Advance, Changer
<1>4. Unwritten(d) => Unwritten(call[t])
  BY <1>2, RecordFacts DEF Moves, Advance, Changer, Unwritten
<1> QED BY <1>1, <1>3, <1>4 DEF Moves

LEMMA TrustLess ==
    ASSUME Typed, NEW t \in Threads, NEW d, StepOf(t, d), Trusted' PROVE Trusted
BY ChangesLess DEF StepOf, Trusted

\* A call that writes is alone, as long as nothing is stale.
LEMMA Alone ==
    ASSUME MeetingsKnown, NEW t \in Threads, Changer(call[t])
    PROVE  \A u \in Threads : u # t =>
              /\ Active(u) => stale
              /\ Changer(call[u]) \/ Unwritten(call[u]) \/ Rewriting(call[u]) => stale /\ unclear
BY DEF MeetingsKnown, Changer, Unwritten, Rewriting

\* Once a call has written, its name is to be trusted only if nobody was there.
LEMMA TrustAfterWrite ==
    ASSUME Typed, MeetingsKnown, NEW t \in Threads, NEW d, StepOf(t, d), Changer(call[t]),
           ~Unwritten(d), Trusted'
    PROVE  ~stale
<1>1. call'[t] = d /\ \A u \in Threads : u # t => call'[u] = call[u]
  BY OthersStay DEF StepOf
<1>2. \A u \in Threads : Unwritten(call'[u]) => u # t /\ Unwritten(call[u])
  BY <1>1
<1> QED BY <1>2, Alone DEF Trusted, StepOf

\* To preserve the invariant, a step of a thread has to care for this much.
CaresFor(t, d) ==
    /\ ~unclear' => \/ db'.state \in {"gone", "whole"}
                    \/ db'.state = "reserved" /\ d.pc = "put"
                    \/ db' = db /\ call[t].pc # "put"
    /\ d.pc # "idle" /\ Sure(d)' => Knows(d)'
    /\ (db' = db /\ retired' = retired) \/ (Changer(call[t]) /\ ~Unwritten(d))
    /\ Trusted' /\ (\A u \in Threads : ~Rewriting(call'[u])) => CachesRight'
    /\ ~stale' =>
          /\ Rewriting(d) => Rewrites(d)'
          /\ Erases(d)'
          /\ Stores(d) => Stored'
          /\ NoTokens' \/ Stored' \/ (Rewriting(d) /\ d.pc = "cacheUser")
          /\ Changer(call[t]) \/ (Stored => Stored')
    /\ ~unclear' => Fresh(d)'

LEMMA StepPreserves ==
    ASSUME IInv, Typed', NEW t \in Threads, NEW d, StepOf(t, d), CaresFor(t, d)
    PROVE  IInv'
<1> USE DEF IInv
<1> DEFINE c == call[t]
<1>1. call'[t] = d /\ \A u \in Threads : u # t => call'[u] = call[u]
  BY OthersStay DEF StepOf
<1>2. calls \in Nat /\ Given' = Given /\ GivenRecords' = GivenRecords
  BY GivenStays DEF StepOf, Typed
<1>3. CallsShaped'
  <2>1. \A u \in Threads : Shaped(call'[u])
    BY <1>1 DEF CallsShaped, StepOf, Moves
  <2> QED BY <1>2, <2>1 DEF CallsShaped, Shaped, Changed
<1>4. MeetingsKnown'
  BY ChangesLess DEF MeetingsKnown, StepOf
<1>5. Trusted' => Trusted
  BY TrustLess
\* Whoever else is there loses nothing it is sure of.
<1>6. ASSUME NEW u \in Threads, u # t, Active(u), Sure(call[u])'
      PROVE  Sure(call[u]) /\ db' = db /\ retired' = retired
  <2>1. Sure(call[u])
    BY <1>1, <1>5, <1>6 DEF Sure, StepOf
  <2>2. CASE Changer(c) /\ ~Unwritten(d)
    <3>1. stale /\ (Changer(call[u]) => unclear)
      BY <1>6, <2>2, Alone
    <3>2. ~Trusted'
      BY <2>2, <3>1, TrustAfterWrite
    <3>3. FALSE
      BY <1>1, <1>6, <3>1, <3>2 DEF Sure, StepOf
    <3> QED BY <3>3
  <2> QED BY <2>1, <2>2 DEF CaresFor
<1>7. RecordKnown'
  <2> SUFFICES ASSUME NEW u \in Threads, Active(u)', Sure(call[u])' PROVE Knows(call[u])'
    BY DEF RecordKnown
  <2>1. CASE u = t
    BY <1>1, <2>1 DEF CaresFor, Sure, Knows, Trusted
  <2>2. CASE u # t
    <3>1. call'[u] = call[u] /\ Active(u)
      BY <1>1, <2>2
    <3>2. Sure(call[u]) /\ db' = db
      BY <1>6, <2>2, <3>1 DEF Sure
    <3> QED BY <3>1, <3>2 DEF RecordKnown, Knows
  <2> QED BY <2>1, <2>2
<1>8. RecordShaped'
  <2> SUFFICES ASSUME ~unclear'
               PROVE  \/ db'.state \in {"gone", "whole"}
                      \/ db'.state = "reserved" /\ \E u \in Threads : call'[u].pc = "put"
    BY DEF RecordShaped
  <2>1. CASE db'.state \in {"gone", "whole"} \/ (db'.state = "reserved" /\ d.pc = "put")
    BY <1>1, <2>1
  <2>2. CASE db' = db /\ c.pc # "put"
    BY <1>1, <2>2 DEF RecordShaped, StepOf
  <2> QED BY <2>1, <2>2 DEF CaresFor
<1>9. TrustedCaches'
  BY DEF CaresFor, TrustedCaches
<1>10. CachesKnown'
  <2> SUFFICES ASSUME ~stale'
               PROVE  /\ \A u \in Threads :
                            /\ Rewriting(call'[u]) => Rewrites(call[u])'
                            /\ Erases(call[u])'
                            /\ Stores(call'[u]) => Stored'
                      /\ KeysStored'
    BY DEF CachesKnown, Rewriting, Changer, Stores
  <2>0. ~stale
    BY DEF StepOf
  <2>1. KeysStored'
    BY <1>1 DEF CaresFor, KeysStored
  <2>2. ASSUME NEW u \in Threads, u = t
        PROVE  /\ Rewriting(call'[u]) => Rewrites(call[u])'
               /\ Erases(call[u])'
               /\ Stores(call'[u]) => Stored'
    BY <1>1, <2>2 DEF CaresFor, Rewrites, Erases
  <2>3. ASSUME NEW u \in Threads, u # t
        PROVE  /\ Rewriting(call'[u]) => Rewrites(call[u])'
               /\ Erases(call[u])'
               /\ Stores(call'[u]) => Stored'
    <3>1. CASE ~Active(u)
      BY <1>1, <2>3, <3>1 DEF Rewriting, Changer, Erases, Stores
    <3>2. CASE Active(u)
      <4>1. ~Changer(call[u]) /\ ~Changer(c)
        BY <2>0, <2>3, <3>2, Alone DEF StepOf, Moves
      <4>2. call[u].pc \notin Erasing
        BY <3>2, <4>1 DEF CallsShaped, Shaped, Changer, Readers, Erasing
      <4>3. Stores(call[u]) => Stored'
        BY <2>0, <4>1 DEF CaresFor, CachesKnown
      <4> QED BY <1>1, <2>0, <2>3, <4>1, <4>2, <4>3 DEF Rewriting, Erases, Erasing
    <3> QED BY <3>1, <3>2
  <2> QED BY <2>1, <2>2, <2>3
<1>11. TokensFresh'
  <2> SUFFICES ASSUME ~unclear', NEW u \in Threads PROVE Fresh(call[u])'
    BY DEF TokensFresh
  <2>1. CASE u = t
    BY <1>1, <2>1 DEF CaresFor, Fresh
  <2>2. CASE u # t
    <3>1. Changer(call[u]) => Sure(call[u])' /\ Active(u)
      BY <1>1, <2>2 DEF Sure, Changer
    <3>2. Fresh(call[u])
      BY DEF TokensFresh, StepOf
    <3>3. Changer(call[u]) => db' = db /\ retired' = retired
      BY <1>6, <2>2, <3>1
    <3> QED BY <1>1, <2>2, <3>2, <3>3 DEF Fresh
  <2> QED BY <2>1, <2>2
<1> QED BY <1>3, <1>4, <1>7, <1>8, <1>9, <1>10, <1>11

-----------------------------------------------------------------------------
\* A step that only reads, and may make things unclear.
LEMMA ReadingPreserves ==
    ASSUME IInv, NEW t \in Threads, NEW d, Moves(t, d), call[t].pc \notin Filling,
           UNCHANGED <<db, userCache, tokenCache, globusCache, calls, retired, left, stale>>,
           troubles' \in 0 .. MaxTroubles, unclear' = unclear \/ unclear' = TRUE,
           call[t].pc = "put" => unclear',
           d.pc # "idle" /\ Sure(call[t]) => Knows(d),
           ~stale => /\ Rewriting(d) => Rewrites(d)
                     /\ Erases(d)
                     /\ Stores(d) => Stored
    PROVE  IInv'
<1> USE DEF IInv
<1> DEFINE c == call[t]
<1>1. StepOf(t, d)
  BY DEF StepOf
<1>2. call'[t] = d /\ \A u \in Threads : u # t => call'[u] = call[u]
  BY OthersStay
<1>3. calls \in Nat /\ Given' = Given /\ GivenRecords' = GivenRecords /\ Calls' = Calls
  BY GivenStays DEF Typed
<1>4. Typed'
  <2>1. call' \in [Threads -> Calls]
    BY DEF Moves, Typed
  <2> QED BY <1>3, <2>1 DEF Typed
<1>5. Trusted' => Trusted
  BY <1>1, TrustLess
<1>6. CachesRight' = CachesRight /\ Stored' = Stored /\ NoTokens' = NoTokens
      /\ Knows(d)' = Knows(d) /\ Rewrites(d)' = Rewrites(d) /\ Erases(d)' = Erases(d)
  BY DEF CachesRight, UserRight, TokenRight, GlobusRight, Indexed, Stored, NoTokens, NoGlobus,
     Knows, Rewrites, Erases
<1>7. d.pc # "idle" /\ Sure(d)' => Sure(c)
  <2>1. d.pc # "idle" => (Changer(c) <=> Changer(d))
    BY <1>3, RecordFacts DEF Moves, Advance, Changer
  <2> QED BY <1>5, <2>1 DEF Sure
<1>8. ~Rewriting(c)
  BY DEF Rewriting
<1>9. Trusted' /\ (\A u \in Threads : ~Rewriting(call'[u])) => CachesRight'
  BY <1>2, <1>5, <1>6, <1>8 DEF TrustedCaches
<1>10. ~unclear' => \/ db'.state \in {"gone", "whole"}
                    \/ db' = db /\ c.pc # "put"
  BY DEF RecordShaped
<1>11. ~stale => NoTokens \/ Stored
  <2> SUFFICES ASSUME ~stale, NEW u \in Threads, Rewriting(call[u]), At(u, "cacheUser")
               PROVE  FALSE
    BY DEF CachesKnown, KeysStored
  <2>1. u # t /\ Changer(call[u])
    BY <1>8 DEF Rewriting
  <2> QED BY <2>1, Alone DEF Moves
<1>12. ~unclear' => Fresh(d)'
  <2>1. ~unclear' => Fresh(c)
    BY DEF TokensFresh
  <2>2. Changer(d) => Changer(c) /\ d.op = c.op /\ d.token = c.token
    BY <1>3, RecordFacts DEF Moves, Advance, Changer
  <2> QED BY <1>8, <2>1, <2>2 DEF Fresh
<1>13. CaresFor(t, d)
  BY <1>6, <1>7, <1>9, <1>10, <1>11, <1>12 DEF CaresFor
<1> QED BY <1>1, <1>4, <1>13, StepPreserves

\* The caches as a thread finds them that is not changing them itself.
LEMMA CachesReliable ==
    ASSUME IInv, NEW t \in Threads, Active(t), ~Rewriting(call[t]), Trusted
    PROVE  CachesRight
<1> SUFFICES ASSUME NEW u \in Threads, Rewriting(call[u]) PROVE FALSE
  BY DEF IInv, TrustedCaches
<1>1. u # t /\ Changer(call[u]) /\ stale
  BY Alone DEF Rewriting, IInv
<1>2. PICK v \in Threads : Unwritten(call[v]) /\ ~unclear
  BY <1>1 DEF Trusted
<1>3. v # u
  BY <1>2 DEF Unwritten
<1> QED BY <1>1, <1>2, <1>3, Alone DEF IInv

LEMMA UnwrittenTrusts ==
    ASSUME NEW t \in Threads, Unwritten(call[t]) \/ ~Changer(call[t]), Sure(call[t]) PROVE Trusted
BY DEF Sure, Trusted, Unwritten

\* A handler that has found the user goes on with the record it was given.
LEMMA FoundMoves ==
    ASSUME IInv, NEW t \in Threads, call[t].pc \in {"getUser", "found", "findToken"},
           NEW r, Found(t, r), call[t].op \in ByName,
           call[t].op \in {"edit", "replace", "touch"} => r \in GivenRecords
    PROVE  \E d : /\ Moves(t, d) /\ d.pc \in {"update", "findCached", "idle"}
                  /\ d.pc = "update" => d.old = r
<1> DEFINE c == call[t]
<1>1. calls \in Nat /\ c \in Calls /\ Shaped(c) /\ Changer(c) \in BOOLEAN
  BY DEF IInv, Typed, CallsShaped, Changer
<1>2. CASE c.op \in {"edit", "replace", "touch"}
  <2> DEFINE d == [c EXCEPT !.old = r, !.new = Changed(c, r), !.pc = "update"]
  <2>1. call' = [call EXCEPT ![t].old = r, ![t].new = Changed(c, r), ![t].pc = "update"]
    BY <1>2 DEF Found
  <2>2. call' = [call EXCEPT ![t] = d]
    BY <2>1 DEF IInv, Typed
  <2>3. Changed(c, r) \in GivenRecords
    BY <1>1, <1>2 DEF Changed, Shaped, GivenRecords
  <2>4. d \in Calls /\ d.pc = "update" /\ d.op = c.op /\ d.token = c.token /\ d.old = r
        /\ d.new = Changed(c, r) /\ d.globus = c.globus
    BY <1>1, <1>2, <2>3 DEF Calls, Labels
  <2>5. Shaped(d)
    BY <1>1, <1>2, <2>4 DEF Shaped, Erasing, Filling, Changed, Ops
  <2>6. Advance(c, d)
    BY <1>1, <1>2, <2>4 DEF Advance, Unwritten, Rewriting, Changer, Filling, Readers
  <2> QED BY <2>2, <2>4, <2>5, <2>6 DEF Moves
<1>3. CASE c.op \in {"delete", "deleteSelf"}
  <2> DEFINE d == Moved(c, "findCached")
  <2>1. Goto(t, "findCached")
    BY <1>3 DEF Found
  <2>2. call' = [call EXCEPT ![t] = d]
    BY <2>1, GotoMoves
  <2>3. d \in Calls /\ d.pc = "findCached" /\ d.op = c.op /\ d.token = c.token
        /\ d.globus = c.globus
    BY <1>1, MovedFacts DEF Labels
  <2> HIDE DEF d
  <2>4. Shaped(d)
    BY <1>1, <1>3, <2>3 DEF Shaped, Erasing, Filling, Ops
  <2>5. Advance(c, d)
    BY <1>1, <1>3, <2>3 DEF Advance, Unwritten, Rewriting, Changer, Filling, Readers
  <2> QED BY <2>2, <2>3, <2>4, <2>5 DEF Moves
<1>4. CASE c.op \in {"look", "findToken"}
  <2>1. Goto(t, "idle")
    BY <1>4 DEF Found
  <2>2. call' = [call EXCEPT ![t] = Idle]
    BY <2>1 DEF Goto
  <2>3. Idle \in Calls /\ Idle.pc = "idle" /\ Idle.op = "none"
    BY <1>1, RecordFacts
  <2>4. Shaped(Idle)
    BY <2>3 DEF Shaped, Erasing, Filling
  <2> QED BY <2>2, <2>3, <2>4 DEF Moves, Advance
<1> QED BY <1>2, <1>3, <1>4 DEF ByName

LEMMA IdleMoves ==
    ASSUME IInv, NEW t \in Threads, Active(t), Goto(t, "idle")
    PROVE  Moves(t, Idle) /\ Idle.pc = "idle"
<1>1. Idle \in Calls /\ Idle.pc = "idle" /\ Idle.op = "none"
  BY RecordFacts DEF IInv, Typed
<1>2. Shaped(Idle)
  BY <1>1 DEF Shaped, Erasing, Filling
<1>3. call' = [call EXCEPT ![t] = Idle]
  BY DEF Goto
<1> QED BY <1>1, <1>2, <1>3 DEF Moves, Advance

LEMMA LabelMoves ==
    ASSUME IInv, NEW t \in Threads, Active(t), NEW label \in Labels \ {"idle"}, Goto(t, label)
    PROVE  \E d \in Calls :
              /\ call' = [call EXCEPT ![t] = d] /\ d.pc = label
              /\ d.op = call[t].op /\ d.token = call[t].token /\ d.globus = call[t].globus
              /\ d.old = call[t].old /\ d.new = call[t].new /\ d.next = call[t].next
<1>1. calls \in Nat /\ call[t] \in Calls
  BY DEF IInv, Typed
<1>2. call' = [call EXCEPT ![t] = Moved(call[t], label)]
  BY GotoMoves
<1> QED BY <1>1, <1>2, MovedFacts

\* A step that ends a call.
LEMMA EndPreserves ==
    ASSUME IInv, NEW t \in Threads, Active(t), Goto(t, "idle"), call[t].pc \notin Filling,
           UNCHANGED <<db, userCache, tokenCache, globusCache, calls, retired, left, stale>>,
           troubles' \in 0 .. MaxTroubles, unclear' = unclear \/ unclear' = TRUE,
           call[t].pc = "put" => unclear'
    PROVE  IInv'
<1>1. Moves(t, Idle) /\ Idle.pc = "idle"
  BY IdleMoves
<1>2. ~Rewriting(Idle) /\ Erases(Idle) /\ ~Stores(Idle)
  BY <1>1 DEF Rewriting, Changer, Erases, Stores
<1> QED BY <1>1, <1>2, ReadingPreserves

\* The handler has a record at hand, which is right if it is sure of it.
LEMMA FoundPreserves ==
    ASSUME IInv, NEW t \in Threads, call[t].pc \in {"getUser", "found", "findToken"},
           NEW r, Found(t, r), call[t].op \in ByName,
           call[t].op \in {"edit", "replace", "touch"} =>
              r \in GivenRecords /\ (Sure(call[t]) => db.state = "whole" /\ db.rec = r),
           call[t].op \in {"delete", "deleteSelf"} /\ ~stale => Stored,
           UNCHANGED <<db, userCache, tokenCache, globusCache, calls, troubles, retired, left,
                       stale, unclear>>
    PROVE  IInv'
<1>1. PICK d : /\ Moves(t, d) /\ d.pc \in {"update", "findCached", "idle"}
               /\ d.pc = "update" => d.old = r
  BY FoundMoves
<1>2. d.pc # "idle" => d.op = call[t].op
  BY <1>1, RecordFacts DEF Moves, Advance, IInv, Typed
<1>3. d.pc = "update" => d.op \in {"edit", "replace", "touch"}
  BY <1>1 DEF Moves, Shaped
<1>4. d.pc = "findCached" => d.op \in {"delete", "deleteSelf"}
  BY <1>1 DEF Moves, Shaped, Erasing
<1>5. ~Rewriting(d) /\ Erases(d) /\ (Stores(d) => d.pc = "findCached")
  BY <1>1 DEF Rewriting, Filling, Erases, Stores
<1>6. d.pc # "idle" /\ Sure(call[t]) => Knows(d)
  BY <1>1, <1>2, <1>3, <1>4 DEF Knows, Filling
<1>7. call[t].pc \notin Filling /\ call[t].pc # "put" /\ troubles \in 0 .. MaxTroubles
  BY DEF Filling, IInv, Typed
<1> QED BY <1>1, <1>2, <1>4, <1>5, <1>6, <1>7, ReadingPreserves

LEMMA GetUserStep == ASSUME IInv, NEW t \in Threads, GetUser(t) PROVE IInv'
<1> DEFINE c == call[t]
<1>1. /\ At(t, "getUser") /\ c.op \in ByName /\ c \in Calls /\ Shaped(c) /\ ~Rewriting(c)
      /\ UNCHANGED <<db, userCache, tokenCache, globusCache, calls, troubles, retired, left,
                     stale, unclear>>
      /\ troubles \in 0 .. MaxTroubles /\ calls \in Nat
  BY DEF GetUser, IInv, CallsShaped, Shaped, Typed, Rewriting, Filling
<1>2. Changer(c) => Unwritten(c)
  BY <1>1 DEF Unwritten
<1>3. Sure(c) => Trusted
  BY <1>2, UnwrittenTrusts
<1>4. CASE userCache.held = "live"
  <2>1. Found(t, userCache.rec)
    BY <1>4 DEF GetUser
  <2>2. userCache.rec \in GivenRecords
    BY <1>4 DEF IInv, Typed
  <2>3. Trusted => db.state = "whole" /\ db.rec = userCache.rec
    BY <1>1, <1>4, CachesReliable DEF CachesRight, UserRight
  <2>4. ~stale => Stored
    BY <1>4, <2>3 DEF Trusted, Stored
  <2> QED BY <1>1, <1>3, <2>1, <2>2, <2>3, <2>4, FoundPreserves
<1>5. CASE userCache.held # "live" /\ db.state = "whole"
  <2> DEFINE d == [c EXCEPT !.old = db.rec, !.new = db.rec, !.pc = "cacheUser", !.next = "found"]
  <2>1. call' = [call EXCEPT ![t].old = db.rec, ![t].new = db.rec, ![t].pc = "cacheUser",
                             ![t].next = "found"]
    BY <1>5 DEF GetUser, ReadUser
  <2>2. call' = [call EXCEPT ![t] = d]
    BY <2>1 DEF IInv, Typed
  <2>3. db.rec \in GivenRecords
    BY <1>5 DEF IInv, Typed
  <2>4. d \in Calls /\ d.pc = "cacheUser" /\ d.op = c.op /\ d.token = c.token /\ d.next = "found"
        /\ d.new = db.rec /\ d.old = db.rec /\ d.globus = c.globus
    BY <1>1, <2>3 DEF Calls, Labels
  <2> HIDE DEF d
  <2>5. Shaped(d)
    BY <1>1, <2>3, <2>4 DEF Shaped, Erasing, Filling, ByName, Ops
  <2>6. Advance(c, d)
    BY <1>1, <2>4 DEF Advance, Unwritten, Rewriting, Changer, Filling
  <2>7. ~Rewriting(d) /\ Erases(d) /\ ~Stores(d) /\ Knows(d)
    BY <1>5, <2>4 DEF Rewriting, Erases, Stores, Knows, Filling
  <2>8. Moves(t, d)
    BY <1>1, <2>2, <2>4, <2>5, <2>6 DEF Moves
  <2>9. c.pc \notin Filling
    BY <1>1 DEF Filling
  <2> QED BY <1>1, <2>7, <2>8, <2>9, ReadingPreserves
<1>6. CASE userCache.held # "live" /\ db.state # "whole"
  BY <1>1, <1>6, EndPreserves DEF GetUser, Filling
<1> QED BY <1>4, <1>5, <1>6

LEMMA ProceedStep == ASSUME IInv, NEW t \in Threads, Proceed(t) PROVE IInv'
<1>1. /\ At(t, "found") /\ call[t].op \in ByName /\ call[t].old \in GivenRecords
      /\ Found(t, call[t].old)
      /\ UNCHANGED <<db, userCache, tokenCache, globusCache, calls, troubles, retired, left,
                     stale, unclear>>
  BY DEF Proceed, IInv, CallsShaped, Shaped
<1>2. Sure(call[t]) => db.state = "whole" /\ db.rec = call[t].old
  BY <1>1 DEF IInv, RecordKnown, Knows
<1>3. ~stale => Stored
  BY <1>1 DEF IInv, CachesKnown, Stores
<1> QED BY <1>1, <1>2, <1>3, FoundPreserves

LEMMA FindTokenStep == ASSUME IInv, NEW t \in Threads, FindToken(t) PROVE IInv'
<1> DEFINE c == call[t]
<1>1. /\ At(t, "findToken") /\ c.op \in {"findToken", "deleteSelf"} /\ c.token \in Given
      /\ c.token \in Tokens /\ Shaped(c)
      /\ UNCHANGED <<db, userCache, tokenCache, globusCache, calls, troubles, retired, left,
                     stale, unclear>>
      /\ troubles \in 0 .. MaxTroubles
  BY TokensGiven DEF FindToken, IInv, CallsShaped, Shaped, Typed
<1>2. CASE tokenCache[c.token] # "none"
  <2>1. Found(t, [token |-> c.token, globus |-> tokenCache[c.token]])
    BY <1>2 DEF FindToken
  <2>2. ASSUME ~stale, c.op = "deleteSelf" PROVE Stored
    <3>1. Changer(c)
      BY <1>1, <2>2 DEF Changer, Readers
    <3>2. \A u \in Threads : At(u, "cacheUser") => ~Rewriting(call[u])
      BY <1>1, <2>2, <3>1, Alone DEF IInv
    <3> QED BY <1>1, <1>2, <2>2, <3>2 DEF IInv, CachesKnown, KeysStored, NoTokens
  <2> QED BY <1>1, <2>1, <2>2, FoundPreserves DEF ByName
<1>3. CASE Goto(t, "getUser")
  <2>1. PICK d \in Calls :
           /\ call' = [call EXCEPT ![t] = d] /\ d.pc = "getUser" /\ d.op = c.op
           /\ d.token = c.token /\ d.globus = c.globus
    BY <1>1, <1>3, LabelMoves DEF Labels
  <2>2. Shaped(d)
    BY <1>1, <2>1 DEF Shaped, Erasing, Filling, ByName, Ops
  <2>3. Moves(t, d)
    BY <1>1, <2>1, <2>2 DEF Moves, Advance, Unwritten, Rewriting, Changer, Filling
  <2>4. ~Rewriting(d) /\ Erases(d) /\ ~Stores(d) /\ Knows(d) /\ c.pc \notin Filling
    BY <1>1, <2>1 DEF Rewriting, Erases, Stores, Knows, Filling
  <2> QED BY <1>1, <2>3, <2>4, ReadingPreserves
<1>4. CASE Goto(t, "idle")
  BY <1>1, <1>4, EndPreserves DEF Filling
<1> QED BY <1>2, <1>3, <1>4 DEF FindToken

LEMMA FindGlobusStep == ASSUME IInv, NEW t \in Threads, FindGlobus(t) PROVE IInv'
<1> DEFINE c == call[t]
<1>1. /\ At(t, "findGlobus") /\ c.op \in {"findGlobus", "create"} /\ c.globus \in GlobusIDs
      /\ c \in Calls /\ Shaped(c) /\ ~Rewriting(c)
      /\ UNCHANGED <<db, userCache, tokenCache, globusCache, calls, troubles, retired, left,
                     stale, unclear>>
      /\ troubles \in 0 .. MaxTroubles /\ calls \in Nat
  BY DEF FindGlobus, IInv, CallsShaped, Shaped, Typed, Rewriting, Filling
<1>2. CASE Indexed /\ globusCache[c.globus] = 0 /\ db.rec.globus = c.globus
  <2> DEFINE d == [c EXCEPT !.old = db.rec, !.new = db.rec, !.pc = "cacheGlobus", !.next = "idle"]
  <2>1. call' = [call EXCEPT ![t].old = db.rec, ![t].new = db.rec, ![t].pc = "cacheGlobus",
                             ![t].next = "idle"]
    BY <1>2 DEF FindGlobus, ReadGlobus
  <2>2. call' = [call EXCEPT ![t] = d]
    BY <2>1 DEF IInv, Typed
  <2>3. db.rec \in GivenRecords
    BY <1>2 DEF IInv, Typed, Indexed
  <2>4. d \in Calls /\ d.pc = "cacheGlobus" /\ d.op = c.op /\ d.token = c.token
        /\ d.next = "idle" /\ d.new = db.rec /\ d.old = db.rec /\ d.globus = c.globus
    BY <1>1, <2>3 DEF Calls, Labels
  <2> HIDE DEF d
  <2>5. Shaped(d)
    BY <1>1, <2>3, <2>4 DEF Shaped, Erasing, Filling, ByName, Ops
  <2>6. Advance(c, d)
    BY <1>1, <2>4 DEF Advance, Unwritten, Rewriting, Changer, Filling
  <2>7. Erases(d) /\ ~Stores(d) /\ Knows(d)
    BY <1>2, <2>4 DEF Erases, Stores, Knows, Filling
  <2>8. ~stale => Rewrites(d)
    <3> SUFFICES ASSUME ~stale PROVE Rewrites(d)
      OBVIOUS
    <3>1. UserRight /\ TokenRight /\ GlobusRight
      BY <1>1, CachesReliable DEF Trusted, CachesRight
    <3>2. ASSUME NEW k \in Tokens, tokenCache[k] # "none" PROVE k = d.new.token
      <4>1. db.rec = [token |-> k, globus |-> tokenCache[k]]
        BY <3>1, <3>2 DEF TokenRight
      <4> QED BY <2>4, <4>1
    <3>3. ASSUME NEW g \in GlobusIDs \ left, globusCache[g] # 0 PROVE g = d.new.globus
      <4>1. db.rec = [token |-> globusCache[g], globus |-> g]
        BY <3>1, <3>3 DEF GlobusRight
      <4> QED BY <2>4, <4>1
    <3> QED BY <3>1, <3>2, <3>3 DEF Rewrites
  <2>9. Moves(t, d) /\ c.pc \notin Filling
    BY <1>1, <2>2, <2>4, <2>5, <2>6 DEF Moves, Filling
  <2> QED BY <1>1, <2>7, <2>8, <2>9, ReadingPreserves
<1>3. CASE Goto(t, "nameInUse") /\ c.op = "create"
  <2>1. PICK d \in Calls :
           /\ call' = [call EXCEPT ![t] = d] /\ d.pc = "nameInUse" /\ d.op = c.op
           /\ d.token = c.token /\ d.globus = c.globus
    BY <1>1, <1>3, LabelMoves DEF Labels
  <2>2. Shaped(d)
    BY <1>1, <1>3, <2>1 DEF Shaped, Erasing, Filling, ByName, Ops
  <2>3. Moves(t, d)
    BY <1>1, <1>3, <2>1, <2>2 DEF Moves, Advance, Unwritten, Rewriting, Changer, Filling
  <2>4. ~Rewriting(d) /\ Erases(d) /\ ~Stores(d) /\ Knows(d) /\ c.pc \notin Filling
    BY <1>1, <2>1 DEF Rewriting, Erases, Stores, Knows, Filling
  <2> QED BY <1>1, <2>3, <2>4, ReadingPreserves
<1>4. CASE Goto(t, "idle")
  BY <1>1, <1>4, EndPreserves DEF Filling
<1> QED BY <1>2, <1>3, <1>4 DEF FindGlobus

LEMMA ScanStep == ASSUME IInv, NEW t \in Threads, Scan(t) PROVE IInv'
<1> DEFINE c == call[t]
<1>1. /\ At(t, "scan") /\ c.op = "list" /\ c \in Calls /\ Shaped(c)
      /\ UNCHANGED <<db, userCache, tokenCache, globusCache, calls, troubles, retired, left,
                     stale, unclear>>
      /\ troubles \in 0 .. MaxTroubles /\ calls \in Nat
  BY DEF Scan, IInv, CallsShaped, Shaped, Typed
<1>2. CASE db.state = "whole"
  <2> DEFINE d == [c EXCEPT !.new = db.rec, !.pc = "cacheUser", !.next = "idle"]
  <2>1. call' = [call EXCEPT ![t].new = db.rec, ![t].pc = "cacheUser", ![t].next = "idle"]
    BY <1>2 DEF Scan, ReadScan
  <2>2. call' = [call EXCEPT ![t] = d]
    BY <2>1 DEF IInv, Typed
  <2>3. db.rec \in GivenRecords
    BY <1>2 DEF IInv, Typed
  <2>4. d \in Calls /\ d.pc = "cacheUser" /\ d.op = c.op /\ d.token = c.token
        /\ d.next = "idle" /\ d.new = db.rec /\ d.globus = c.globus
    BY <1>1, <2>3 DEF Calls, Labels
  <2> HIDE DEF d
  <2>5. Shaped(d)
    BY <1>1, <2>3, <2>4 DEF Shaped, Erasing, Filling, ByName, Ops
  <2>6. Advance(c, d)
    BY <1>1, <2>4 DEF Advance, Unwritten, Rewriting, Changer, Filling, Readers
  <2>7. Erases(d) /\ ~Stores(d) /\ Knows(d) /\ ~Rewriting(d)
    BY <1>1, <1>2, <2>4 DEF Erases, Stores, Knows, Filling, Rewriting, Changer, Readers
  <2>8. Moves(t, d) /\ c.pc \notin Filling
    BY <1>1, <2>2, <2>4, <2>5, <2>6 DEF Moves, Filling
  <2> QED BY <1>1, <2>7, <2>8, ReadingPreserves
<1>3. CASE db.state # "whole"
  BY <1>1, <1>3, EndPreserves DEF Scan, Filling
<1> QED BY <1>2, <1>3

LEMMA NameInUseStep == ASSUME IInv, NEW t \in Threads, NameInUse(t) PROVE IInv'
<1> DEFINE c == call[t]
<1>1. /\ At(t, "nameInUse") /\ c.op = "create" /\ c \in Calls /\ Shaped(c)
      /\ UNCHANGED <<db, userCache, tokenCache, globusCache, calls, troubles, retired, left,
                     stale, unclear>>
      /\ troubles \in 0 .. MaxTroubles /\ calls \in Nat
  BY DEF NameInUse, IInv, CallsShaped, Shaped, Typed
<1>2. CASE db.state = "gone"
  <2>1. Goto(t, "reserve")
    BY <1>2 DEF NameInUse
  <2>2. PICK d \in Calls :
           /\ call' = [call EXCEPT ![t] = d] /\ d.pc = "reserve" /\ d.op = c.op
           /\ d.token = c.token /\ d.globus = c.globus
    BY <1>1, <2>1, LabelMoves DEF Labels
  <2>3. Shaped(d)
    BY <1>1, <2>2 DEF Shaped, Erasing, Filling, ByName, Ops
  <2>4. Moves(t, d)
    BY <1>1, <2>2, <2>3 DEF Moves, Advance, Unwritten, Rewriting, Changer, Filling
  <2>5. ~Rewriting(d) /\ Erases(d) /\ ~Stores(d) /\ Knows(d) /\ c.pc \notin Filling
    BY <1>1, <1>2, <2>2 DEF Rewriting, Erases, Stores, Knows, Filling
  <2> QED BY <1>1, <2>4, <2>5, ReadingPreserves
<1>3. CASE db.state # "gone"
  BY <1>1, <1>3, EndPreserves DEF NameInUse, Filling
<1> QED BY <1>2, <1>3

LEMMA FindCachedStep == ASSUME IInv, NEW t \in Threads, FindCached(t) PROVE IInv'
<1> DEFINE c == call[t]
<1>1. /\ At(t, "findCached") /\ c.op \in {"delete", "deleteSelf"} /\ c \in Calls /\ Shaped(c)
      /\ UNCHANGED <<db, userCache, tokenCache, globusCache, calls, troubles, retired, left,
                     stale, unclear>>
      /\ troubles \in 0 .. MaxTroubles /\ calls \in Nat
  BY DEF FindCached, IInv, CallsShaped, Shaped, Typed, Erasing
<1>2. ~stale => Stored
  BY <1>1 DEF IInv, CachesKnown, Stores
<1>3. CASE userCache.held = "none"
  <2>1. Goto(t, "eraseUser") /\ stale
    BY <1>2, <1>3 DEF FindCached, Stored
  <2>2. PICK d \in Calls :
           /\ call' = [call EXCEPT ![t] = d] /\ d.pc = "eraseUser" /\ d.op = c.op
           /\ d.token = c.token /\ d.globus = c.globus
    BY <1>1, <2>1, LabelMoves DEF Labels
  <2>3. Shaped(d)
    BY <1>1, <2>2 DEF Shaped, Erasing, Filling, ByName, Ops
  <2>4. Moves(t, d)
    BY <1>1, <2>2, <2>3 DEF Moves, Advance, Unwritten, Rewriting, Changer, Filling
  <2>5. Knows(d) /\ c.pc \notin Filling
    BY <1>1, <2>2 DEF Knows, Filling
  <2> QED BY <1>1, <2>1, <2>4, <2>5, ReadingPreserves
<1>4. CASE userCache.held # "none"
  <2> DEFINE d == [c EXCEPT !.old = userCache.rec, !.pc = "eraseToken"]
  <2>1. call' = [call EXCEPT ![t].old = userCache.rec, ![t].pc = "eraseToken"]
    BY <1>4 DEF FindCached
  <2>2. call' = [call EXCEPT ![t] = d]
    BY <2>1 DEF IInv, Typed
  <2>3. userCache.rec \in GivenRecords
    BY <1>4 DEF IInv, Typed
  <2>4. d \in Calls /\ d.pc = "eraseToken" /\ d.op = c.op /\ d.token = c.token
        /\ d.old = userCache.rec /\ d.globus = c.globus
    BY <1>1, <2>3 DEF Calls, Labels
  <2> HIDE DEF d
  <2>5. Shaped(d)
    BY <1>1, <2>4 DEF Shaped, Erasing, Filling, ByName, Ops
  <2>6. Moves(t, d) /\ c.pc \notin Filling
    BY <1>1, <2>2, <2>4, <2>5 DEF Moves, Advance, Unwritten, Rewriting, Changer, Filling
  <2>7. ~stale => Erases(d)
    BY <1>2, <2>4 DEF Erases, Stored
  <2>8. ~Rewriting(d) /\ ~Stores(d) /\ Knows(d)
    BY <2>4 DEF Rewriting, Stores, Knows, Filling
  <2> QED BY <1>1, <2>6, <2>7, <2>8, ReadingPreserves
<1> QED BY <1>3, <1>4

LEMMA FailStep == ASSUME IInv, NEW t \in Threads, Fail(t) PROVE IInv'
<1> DEFINE c == call[t]
<1>1. /\ c.pc \in {"getUser", "scan", "findToken", "findGlobus", "nameInUse", "reserve",
                   "put", "update", "deleteItem"}
      /\ UNCHANGED <<db, userCache, tokenCache, globusCache, calls, retired, left, stale>>
      /\ unclear' = (unclear \/ c.pc = "put") /\ unclear \in BOOLEAN
  BY DEF Fail, IInv, Typed
<1>2. troubles' \in 0 .. MaxTroubles
  BY UserStoreAssumption DEF Fail, Trouble, IInv, Typed
<1>3. /\ c.pc \notin Filling /\ Active(t) /\ c \in Calls /\ Shaped(c)
      /\ unclear' = unclear \/ unclear' = TRUE
      /\ c.pc = "put" => unclear'
  BY <1>1 DEF Filling, IInv, Typed, CallsShaped
<1>4. CASE Goto(t, "nameInUse") /\ c.pc = "findGlobus" /\ c.op = "create"
  <2>1. PICK d \in Calls :
           /\ call' = [call EXCEPT ![t] = d] /\ d.pc = "nameInUse" /\ d.op = c.op
           /\ d.token = c.token /\ d.globus = c.globus
    BY <1>3, <1>4, LabelMoves DEF Labels
  <2>2. Shaped(d)
    BY <1>3, <1>4, <2>1 DEF Shaped, Erasing, Filling, ByName, Ops
  <2>3. Moves(t, d)
    BY <1>3, <1>4, <2>1, <2>2 DEF Moves, Advance, Unwritten, Rewriting, Changer, Filling
  <2>4. ~Rewriting(d) /\ Erases(d) /\ ~Stores(d) /\ Knows(d)
    BY <2>1 DEF Rewriting, Erases, Stores, Knows, Filling
  <2> QED BY <1>1, <1>2, <1>3, <2>3, <2>4, ReadingPreserves
<1>5. CASE Goto(t, "idle")
  BY <1>1, <1>2, <1>3, <1>5, EndPreserves
<1> QED BY <1>4, <1>5 DEF Fail

\* A step that only reads, after which nobody is sure of anything.
LEMMA ReadingLost ==
    ASSUME IInv, NEW t \in Threads, NEW d, Moves(t, d), call[t].pc # "put",
           UNCHANGED <<db, userCache, tokenCache, globusCache, calls, retired, left>>,
           troubles' \in 0 .. MaxTroubles, stale' = TRUE, unclear' \in BOOLEAN,
           unclear \/ Changing => unclear'
    PROVE  IInv'
<1>1. StepOf(t, d) /\ call'[t] = d
  BY OthersStay DEF StepOf, IInv
<1>2. Typed'
  <2>1. Given' = Given /\ GivenRecords' = GivenRecords /\ Calls' = Calls
    BY GivenStays
  <2>2. call' \in [Threads -> Calls]
    BY DEF Moves, IInv, Typed
  <2> QED BY <2>1, <2>2 DEF IInv, Typed
<1>3. \A u \in Threads : Changer(call'[u]) => unclear'
  <2>1. \A u \in Threads : Changer(call'[u]) => Changer(call[u])
    BY ChangesLess DEF IInv
  <2> QED BY <2>1 DEF Changer, Changing
<1>4. ~Trusted'
  BY <1>3 DEF Trusted, Unwritten
<1>5. ~Sure(d)'
  BY <1>1, <1>3, <1>4 DEF Sure
<1>6. ~unclear' => Fresh(d)'
  BY <1>1, <1>3 DEF Fresh
<1>7. CaresFor(t, d)
  BY <1>4, <1>5, <1>6 DEF CaresFor
<1> QED BY <1>1, <1>2, <1>7, StepPreserves

\* After an outdated read that finds a record nobody is sure of anything; one
\* that leads from a token to the account, or takes the name for free, is like
\* one that is up to date, or makes things unclear.
LEMMA ReadsFormerStep == ASSUME Inv, NEW t \in Threads, ReadsFormer(t) PROVE IInv'
<1> DEFINE c == call[t]
<1>1. /\ c.pc \in {"getUser", "scan", "findToken", "findGlobus", "nameInUse"}
      /\ UNCHANGED <<db, userCache, tokenCache, globusCache, calls, retired, left>>
      /\ IInv
  BY DEF ReadsFormer, Inv
<1>2. troubles' \in 0 .. MaxTroubles
  BY <1>1, UserStoreAssumption DEF ReadsFormer, Trouble, IInv, Typed
<1>3. /\ c.pc \notin Filling /\ c.pc # "put" /\ Active(t) /\ c \in Calls /\ Shaped(c)
      /\ calls \in Nat /\ ~Rewriting(c)
  BY <1>1 DEF Filling, IInv, Typed, CallsShaped, Rewriting
<1>4. CASE /\ \E r \in past \ {db.rec} :
                \/ At(t, "getUser") /\ userCache.held # "live" /\ ReadUser(t, r)
                \/ At(t, "scan") /\ ReadScan(t, r)
                \/ /\ At(t, "findGlobus") /\ r.globus = call[t].globus
                   /\ globusCache[r.globus] = 0 /\ ReadGlobus(t, r)
           /\ stale' = TRUE /\ unclear' = (unclear \/ Changing)
  <2>1. PICK r \in GivenRecords :
           \/ At(t, "getUser") /\ ReadUser(t, r)
           \/ At(t, "scan") /\ ReadScan(t, r)
           \/ At(t, "findGlobus") /\ ReadGlobus(t, r)
    BY <1>4 DEF Inv, PastGiven
  <2>2. \E d : Moves(t, d) /\ d.pc \in Filling
    <3>1. ASSUME NEW d \in Calls, call' = [call EXCEPT ![t] = d], Shaped(d), d.pc \in Filling,
                 d.op = c.op, d.token = c.token
          PROVE  Moves(t, d)
      BY <1>3, <3>1 DEF Moves, Advance, Unwritten, Rewriting, Filling, Changer
    <3>2. CASE At(t, "getUser") /\ ReadUser(t, r)
      <4> DEFINE d == [c EXCEPT !.old = r, !.new = r, !.pc = "cacheUser", !.next = "found"]
      <4>1. call' = [call EXCEPT ![t] = d]
        BY <1>1, <3>2 DEF ReadUser, IInv, Typed
      <4>2. d \in Calls /\ d.pc = "cacheUser" /\ d.op = c.op /\ d.token = c.token
            /\ d.next = "found" /\ d.new = r /\ d.old = r /\ d.globus = c.globus
        BY <1>3 DEF Calls, Labels
      <4> HIDE DEF d
      <4>3. Shaped(d) /\ d.pc \in Filling
        BY <1>3, <3>2, <4>2 DEF Shaped, Erasing, Filling, ByName, Ops
      <4> QED BY <3>1, <4>1, <4>2, <4>3
    <3>3. CASE At(t, "scan") /\ ReadScan(t, r)
      <4> DEFINE d == [c EXCEPT !.new = r, !.pc = "cacheUser", !.next = "idle"]
      <4>1. call' = [call EXCEPT ![t] = d]
        BY <1>1, <3>3 DEF ReadScan, IInv, Typed
      <4>2. d \in Calls /\ d.pc = "cacheUser" /\ d.op = c.op /\ d.token = c.token
            /\ d.next = "idle" /\ d.new = r /\ d.globus = c.globus
        BY <1>3 DEF Calls, Labels
      <4> HIDE DEF d
      <4>3. Shaped(d) /\ d.pc \in Filling
        BY <1>3, <3>3, <4>2 DEF Shaped, Erasing, Filling, ByName, Ops
      <4> QED BY <3>1, <4>1, <4>2, <4>3
    <3>4. CASE At(t, "findGlobus") /\ ReadGlobus(t, r)
      <4> DEFINE d == [c EXCEPT !.old = r, !.new = r, !.pc = "cacheGlobus", !.next = "idle"]
      <4>1. call' = [call EXCEPT ![t] = d]
        BY <1>1, <3>4 DEF ReadGlobus, IInv, Typed
      <4>2. d \in Calls /\ d.pc = "cacheGlobus" /\ d.op = c.op /\ d.token = c.token
            /\ d.next = "idle" /\ d.new = r /\ d.globus = c.globus
        BY <1>3 DEF Calls, Labels
      <4> HIDE DEF d
      <4>3. Shaped(d) /\ d.pc \in Filling
        BY <1>3, <3>4, <4>2 DEF Shaped, Erasing, Filling, ByName, Ops
      <4> QED BY <3>1, <4>1, <4>2, <4>3
    <3> QED BY <2>1, <3>2, <3>3, <3>4
  <2>3. PICK d : Moves(t, d) /\ d.pc \in Filling
    BY <2>2
  <2> QED BY <1>1, <1>2, <1>3, <1>4, <2>3, ReadingLost
<1>5. CASE At(t, "findToken") /\ Goto(t, "getUser") /\ UNCHANGED <<stale, unclear>>
  <2>1. PICK d \in Calls :
           /\ call' = [call EXCEPT ![t] = d] /\ d.pc = "getUser" /\ d.op = c.op
           /\ d.token = c.token /\ d.globus = c.globus
    BY <1>1, <1>3, <1>5, LabelMoves DEF Labels
  <2>2. Shaped(d)
    BY <1>3, <1>5, <2>1 DEF Shaped, Erasing, Filling, ByName, Ops
  <2>3. Moves(t, d)
    BY <1>3, <1>5, <2>1, <2>2 DEF Moves, Advance, Unwritten, Rewriting, Changer, Filling
  <2>4. ~Rewriting(d) /\ Erases(d) /\ ~Stores(d) /\ Knows(d)
    BY <2>1 DEF Rewriting, Erases, Stores, Knows, Filling
  <2> QED BY <1>1, <1>2, <1>3, <1>5, <2>3, <2>4, ReadingPreserves
<1>6. CASE /\ At(t, "nameInUse") /\ Goto(t, "reserve")
           /\ stale' = (stale \/ db.state # "gone")
           /\ unclear' = (unclear \/ db.state # "gone")
  <2>1. PICK d \in Calls :
           /\ call' = [call EXCEPT ![t] = d] /\ d.pc = "reserve" /\ d.op = c.op
           /\ d.token = c.token /\ d.globus = c.globus
    BY <1>1, <1>3, <1>6, LabelMoves DEF Labels
  <2>2. Shaped(d)
    BY <1>3, <1>6, <2>1 DEF Shaped, Erasing, Filling, ByName, Ops
  <2>3. Moves(t, d)
    BY <1>3, <1>6, <2>1, <2>2 DEF Moves, Advance, Unwritten, Rewriting, Changer, Filling
  <2>4. ~Rewriting(d) /\ Erases(d) /\ ~Stores(d) /\ (db.state = "gone" => Knows(d))
    BY <2>1 DEF Rewriting, Erases, Stores, Knows, Filling
  <2>5. CASE db.state = "gone"
    <3>1. unclear' = unclear /\ stale' = stale
      BY <1>1, <1>6, <2>5 DEF IInv, Typed
    <3> QED BY <1>1, <1>2, <1>3, <1>6, <2>3, <2>4, <2>5, <3>1, ReadingPreserves
  <2>6. CASE db.state # "gone"
    <3>1. stale' = TRUE /\ unclear' = TRUE
      BY <1>6, <2>6
    <3> QED BY <1>1, <1>2, <1>3, <2>3, <3>1, ReadingLost
  <2> QED BY <2>5, <2>6
<1> QED BY <1>4, <1>5, <1>6 DEF ReadsFormer

-----------------------------------------------------------------------------
\* A step of replaceCacheRecord: the record stays, the caches change.
LEMMA FillingPreserves ==
    ASSUME IInv, NEW t \in Threads, NEW d, Moves(t, d), call[t].pc \in Filling,
           UNCHANGED <<db, calls, troubles, retired, stale, unclear>>,
           userCache' \in [held : {"none", "expired", "live"}, rec : GivenRecords \cup {Nothing}],
           userCache'.rec = Nothing <=> userCache'.held = "none",
           tokenCache' \in [Tokens -> GlobusIDs \cup {"none"}],
           globusCache' \in [GlobusIDs -> Tokens \cup {0}], left' \subseteq GlobusIDs,
           d.pc # "idle" /\ Knows(call[t]) => Knows(d),
           Trusted' /\ (\A u \in Threads : ~Rewriting(call'[u])) => CachesRight',
           d.pc \notin Erasing,
           ~stale => /\ Rewriting(d) => Rewrites(d)'
                     /\ Stores(d) => Stored'
                     /\ call[t].pc = "cacheUser" => Stored'
                     /\ call[t].pc # "cacheUser" => (NoTokens => NoTokens' \/ Stored')
                                                    /\ userCache' = userCache
    PROVE  IInv'
<1> USE DEF IInv
<1> DEFINE c == call[t]
<1>1. StepOf(t, d)
  BY DEF StepOf
<1>2. call'[t] = d /\ \A u \in Threads : u # t => call'[u] = call[u]
  BY OthersStay
<1>3. calls \in Nat /\ Given' = Given /\ GivenRecords' = GivenRecords /\ Calls' = Calls
  BY GivenStays DEF Typed
<1>4. Typed'
  <2>1. call' \in [Threads -> Calls]
    BY DEF Moves, Typed
  <2> QED BY <1>3, <2>1 DEF Typed
<1>5. Trusted' => Trusted
  BY <1>1, TrustLess
<1>6. Knows(d)' = Knows(d)
  BY DEF Knows
<1>7. d.pc # "idle" => (Changer(c) <=> Changer(d))
  BY <1>3, RecordFacts DEF Moves, Advance, Changer
<1>8. d.pc # "idle" /\ Sure(d)' => Sure(c)
  BY <1>5, <1>7 DEF Sure
<1>9. d.pc # "idle" /\ Sure(d)' => Knows(d)'
  BY <1>6, <1>8 DEF RecordKnown, Moves
<1>10. ~unclear' => db' = db /\ c.pc # "put"
  BY DEF Filling
<1>11. ~stale => Erases(d)' /\ (Changer(c) \/ (Stored => Stored'))
  <2>1. Erases(d)'
    BY DEF Erases, Erasing
  <2>2. ~stale => (Stored => Stored')
    BY DEF Stored
  <2> QED BY <2>1, <2>2
<1>12. ~stale => NoTokens' \/ Stored'
  <2> SUFFICES ASSUME ~stale, c.pc # "cacheUser" PROVE NoTokens \/ Stored
    BY DEF Stored
  <2> SUFFICES ASSUME NEW u \in Threads, Rewriting(call[u]), At(u, "cacheUser") PROVE FALSE
    BY DEF CachesKnown, KeysStored
  <2>1. u # t /\ Changer(call[u])
    BY DEF Rewriting
  <2> QED BY <2>1, Alone DEF Moves
<1>13. ~unclear' => Fresh(d)'
  <2>1. ~unclear' => Fresh(c)
    BY DEF TokensFresh
  <2>2. Changer(d) => Changer(c) /\ d.op = c.op /\ d.token = c.token
                      /\ (Rewriting(c) => Rewriting(d))
    BY <1>3, RecordFacts DEF Moves, Advance, Changer
  <2> QED BY <2>1, <2>2 DEF Fresh
<1>14. CaresFor(t, d)
  BY <1>9, <1>10, <1>11, <1>12, <1>13 DEF CaresFor
<1> QED BY <1>1, <1>4, <1>14, StepPreserves

\* What a thread knows that fills the caches.
LEMMA FillingFacts ==
    ASSUME IInv, NEW t \in Threads, call[t].pc \in Filling
    PROVE  LET c == call[t] IN
           /\ c \in Calls /\ Shaped(c) /\ c.new \in GivenRecords /\ c.new.token \in Tokens
           /\ c.new.globus \in GlobusIDs /\ c.new.token # 0 /\ c.next \in {"idle", "found"}
           /\ calls \in Nat
           /\ Sure(c) => Knows(c) /\ db.rec = c.new /\ Indexed
                         /\ (c.pc # "cacheGlobus" \/ c.next = "found" => db.state = "whole")
           /\ ~stale => Sure(c)
           /\ ~stale /\ Rewriting(c) => Rewrites(c)
           /\ ~stale /\ Stores(c) => Stored
<1> DEFINE c == call[t]
<1>1. c \in Calls /\ Shaped(c) /\ c.new \in GivenRecords /\ calls \in Nat
  BY DEF IInv, Typed, CallsShaped, Shaped
<1>2. c.new.token \in Tokens /\ c.new.globus \in GlobusIDs /\ c.new.token # 0
      /\ c.next \in {"idle", "found"} /\ c.new # Nothing
  BY <1>1, TokensGiven, RecordFacts DEF GivenRecords, Given, Calls, IInv, Typed
<1>3. Sure(c) => Knows(c)
  BY DEF IInv, RecordKnown, Filling
<1>4. Sure(c) => db.rec = c.new /\ (c.pc # "cacheGlobus" \/ c.next = "found" => db.state = "whole")
  BY <1>3 DEF Knows
<1>5. Sure(c) => Indexed
  BY <1>2, <1>4 DEF Indexed, IInv, Typed, DBStates
<1>6. ~stale => Sure(c)
  BY DEF Sure, Trusted
<1>7. ~stale => (Rewriting(c) => Rewrites(c)) /\ (Stores(c) => Stored)
  BY DEF IInv, CachesKnown
<1> QED BY <1>1, <1>2, <1>3, <1>4, <1>5, <1>6, <1>7

\* A call that is not rewriting the caches finds them right, or nobody does.
LEMMA FillingTrusts ==
    ASSUME IInv, NEW t \in Threads, NEW d, StepOf(t, d), call[t].pc \in Filling,
           ~Rewriting(call[t]), Trusted'
    PROVE  CachesRight /\ Sure(call[t])
<1>1. Trusted
  BY TrustLess DEF IInv
<1>2. CachesRight
  BY <1>1, CachesReliable DEF Filling
<1> QED BY <1>1, <1>2 DEF Sure, Trusted

\* The next label of a call that fills the caches.
LEMMA FillMoves ==
    ASSUME IInv, NEW t \in Threads, call[t].pc \in Filling,
           NEW label \in {"dropToken", "cacheToken", "cacheGlobus"}, Goto(t, label),
           call[t].op # "list",
           label = "dropToken" => call[t].old.token \notin {0, call[t].new.token}
    PROVE  \E d : /\ Moves(t, d) /\ d.pc = label /\ d.pc \notin Erasing
                  /\ d.old = call[t].old /\ d.new = call[t].new /\ d.next = call[t].next
                  /\ Rewriting(d) <=> Rewriting(call[t])
<1> DEFINE c == call[t]
<1>1. c \in Calls /\ Shaped(c) /\ Active(t)
  BY DEF IInv, Typed, CallsShaped, Filling
<1>2. PICK d \in Calls :
         /\ call' = [call EXCEPT ![t] = d] /\ d.pc = label
         /\ d.op = c.op /\ d.token = c.token /\ d.globus = c.globus
         /\ d.old = c.old /\ d.new = c.new /\ d.next = c.next
  BY <1>1, LabelMoves DEF Labels
<1>3. Shaped(d)
  BY <1>1, <1>2 DEF Shaped, Filling, Erasing
<1>4. Rewriting(d) <=> Rewriting(c)
  BY <1>2 DEF Rewriting, Changer, Filling
<1>5. Advance(c, d)
  BY <1>2, <1>4 DEF Advance, Unwritten, Changer, Filling
<1> QED BY <1>1, <1>2, <1>3, <1>4, <1>5 DEF Moves, Erasing

LEMMA CacheUserStep == ASSUME IInv, NEW t \in Threads, CacheUser(t) PROVE IInv'
<1> DEFINE c == call[t]
<1>1. /\ At(t, "cacheUser") /\ c.pc \in Filling
      /\ userCache' = [held |-> "live", rec |-> c.new]
      /\ UNCHANGED <<db, tokenCache, globusCache, calls, troubles, retired, left, stale, unclear>>
  BY DEF CacheUser, Filling
<1>2. /\ c \in Calls /\ Shaped(c) /\ c.new \in GivenRecords /\ c.new # Nothing
      /\ Sure(c) => db.rec = c.new /\ db.state = "whole"
      /\ ~stale => Sure(c)
      /\ ~stale /\ Rewriting(c) => Rewrites(c)
      /\ calls \in Nat /\ Given' = Given /\ GivenRecords' = GivenRecords
  BY <1>1, FillingFacts, RecordFacts, GivenStays
<1>3. /\ userCache' \in [held : {"none", "expired", "live"}, rec : GivenRecords \cup {Nothing}]
      /\ userCache'.rec = Nothing <=> userCache'.held = "none"
      /\ tokenCache' \in [Tokens -> GlobusIDs \cup {"none"}]
      /\ globusCache' \in [GlobusIDs -> Tokens \cup {0}] /\ left' \subseteq GlobusIDs
  BY <1>1, <1>2 DEF IInv, Typed
<1>4. ~stale => Stored'
  BY <1>1, <1>2 DEF Stored
<1>5. ASSUME CachesRight, Sure(c) PROVE CachesRight'
  <2>1. UserRight'
    BY <1>1, <1>2, <1>5 DEF UserRight
  <2>2. TokenRight' /\ GlobusRight'
    BY <1>1, <1>5 DEF CachesRight, TokenRight, GlobusRight, Indexed
  <2> QED BY <2>1, <2>2 DEF CachesRight
<1>6. CASE c.op = "list"
  <2>1. Moves(t, Idle) /\ Idle.pc = "idle"
    BY <1>1, <1>6, IdleMoves DEF CacheUser
  <2>2. StepOf(t, Idle)
    BY <1>1, <2>1 DEF StepOf
  <2>3. ~Rewriting(c)
    BY <1>6 DEF Rewriting, Changer, Readers
  <2>4. Trusted' => CachesRight'
    BY <1>1, <1>5, <2>2, <2>3, FillingTrusts
  <2>5. Idle.pc \notin Erasing /\ ~Rewriting(Idle) /\ ~Stores(Idle)
    BY <2>1 DEF Erasing, Rewriting, Changer, Stores
  <2> QED BY <1>1, <1>3, <1>4, <2>1, <2>4, <2>5, FillingPreserves
<1>7. CASE c.op # "list"
  <2> DEFINE label == IF c.old.token \notin {0, c.new.token} THEN "dropToken" ELSE "cacheToken"
  <2>1. Goto(t, label)
    BY <1>7 DEF CacheUser
  <2>2. PICK d : /\ Moves(t, d) /\ d.pc = label /\ d.pc \notin Erasing
                 /\ d.old = c.old /\ d.new = c.new /\ d.next = c.next
                 /\ Rewriting(d) <=> Rewriting(c)
    BY <1>1, <1>7, <2>1, FillMoves
  <2>3. StepOf(t, d)
    BY <1>1, <2>2 DEF StepOf
  <2>4. call'[t] = d
    BY <2>2, OthersStay DEF IInv
  <2>5. Trusted' /\ (\A u \in Threads : ~Rewriting(call'[u])) => CachesRight'
    BY <1>1, <1>5, <2>2, <2>3, <2>4, FillingTrusts
  <2>6. Knows(c) => Knows(d)
    BY <1>1, <2>2 DEF Knows, Filling
  <2>7. ASSUME ~stale, Rewriting(d) PROVE Rewrites(d)'
    <3>1. Rewrites(c)
      BY <1>2, <2>2, <2>7
    <3>2. UserRight'
      BY <1>1, <1>2, <2>7 DEF UserRight
    <3>3. ASSUME NEW k \in Tokens, tokenCache'[k] # "none"
          PROVE  k = d.new.token \/ (k = d.old.token /\ d.pc # "cacheToken")
      <4>1. k = c.new.token \/ k = c.old.token
        BY <1>1, <3>1, <3>3 DEF Rewrites
      <4>2. k # 0
        BY DEF Tokens
      <4> QED BY <2>2, <4>1, <4>2
    <3>4. \A g \in GlobusIDs \ left' : globusCache'[g] # 0 => g \in {d.old.globus, d.new.globus}
      BY <1>1, <2>2, <3>1 DEF Rewrites
    <3>5. d.pc # "cacheGlobus"
      BY <2>2
    <3> QED BY <3>2, <3>3, <3>4, <3>5 DEF Rewrites
  <2> QED BY <1>1, <1>3, <1>4, <2>2, <2>5, <2>6, <2>7, FillingPreserves
<1> QED BY <1>6, <1>7

LEMMA DropTokenStep == ASSUME IInv, NEW t \in Threads, DropToken(t) PROVE IInv'
<1> DEFINE c == call[t]
<1>1. /\ At(t, "dropToken") /\ c.pc \in Filling
      /\ tokenCache' = [tokenCache EXCEPT ![c.old.token] = "none"]
      /\ UNCHANGED <<db, userCache, globusCache, calls, troubles, retired, left, stale, unclear>>
  BY DEF DropToken, Filling
<1>2. /\ c \in Calls /\ Shaped(c)
      /\ ~stale => Sure(c)
      /\ ~stale /\ Rewriting(c) => Rewrites(c)
      /\ ~stale => Stored
      /\ calls \in Nat /\ Given' = Given /\ GivenRecords' = GivenRecords
  BY <1>1, FillingFacts, GivenStays DEF Stores
<1>3. /\ userCache' \in [held : {"none", "expired", "live"}, rec : GivenRecords \cup {Nothing}]
      /\ userCache'.rec = Nothing <=> userCache'.held = "none"
      /\ tokenCache' \in [Tokens -> GlobusIDs \cup {"none"}]
      /\ globusCache' \in [GlobusIDs -> Tokens \cup {0}] /\ left' \subseteq GlobusIDs
  BY <1>1, <1>2 DEF IInv, Typed
<1>4. \A k \in Tokens : tokenCache'[k] # "none" => tokenCache'[k] = tokenCache[k] /\ k # c.old.token
  BY <1>1 DEF IInv, Typed
<1>5. PICK d : /\ Moves(t, d) /\ d.pc = "cacheToken" /\ d.pc \notin Erasing
               /\ d.old = c.old /\ d.new = c.new /\ d.next = c.next
               /\ Rewriting(d) <=> Rewriting(c)
  <2>1. Goto(t, "cacheToken") /\ c.op # "list"
    BY <1>1, <1>2 DEF DropToken, Shaped
  <2> QED BY <1>1, <2>1, FillMoves
<1>6. StepOf(t, d) /\ call'[t] = d
  BY <1>1, <1>5, OthersStay DEF StepOf, IInv
<1>7. CachesRight => CachesRight'
  <2>1. TokenRight => TokenRight'
    BY <1>1, <1>4 DEF TokenRight
  <2> QED BY <1>1, <2>1 DEF CachesRight, UserRight, GlobusRight, Indexed
<1>8. Trusted' /\ (\A u \in Threads : ~Rewriting(call'[u])) => CachesRight'
  BY <1>1, <1>5, <1>6, <1>7, FillingTrusts
<1>9. Knows(c) => Knows(d)
  BY <1>1, <1>5 DEF Knows, Filling
<1>10. ASSUME ~stale, Rewriting(d) PROVE Rewrites(d)'
  <2>1. Rewrites(c)
    BY <1>2, <1>5, <1>10
  <2>2. UserRight'
    BY <1>1, <2>1 DEF UserRight, Rewrites
  <2>3. \A k \in Tokens : tokenCache'[k] # "none" => k = d.new.token
    BY <1>4, <1>5, <2>1 DEF Rewrites
  <2>4. \A g \in GlobusIDs \ left' : globusCache'[g] # 0 => g \in {d.old.globus, d.new.globus}
    BY <1>1, <1>5, <2>1 DEF Rewrites
  <2> QED BY <1>5, <2>2, <2>3, <2>4 DEF Rewrites
<1>11. NoTokens => NoTokens'
  BY <1>4 DEF NoTokens
<1>12. ~stale => Stored'
  BY <1>1, <1>2 DEF Stored
<1> QED BY <1>1, <1>3, <1>5, <1>8, <1>9, <1>10, <1>11, <1>12, FillingPreserves

LEMMA CacheTokenStep == ASSUME IInv, NEW t \in Threads, CacheToken(t) PROVE IInv'
<1> DEFINE c == call[t]
<1>1. /\ At(t, "cacheToken") /\ c.pc \in Filling
      /\ tokenCache' = [tokenCache EXCEPT ![c.new.token] = c.new.globus]
      /\ UNCHANGED <<db, userCache, globusCache, calls, troubles, retired, left, stale, unclear>>
  BY DEF CacheToken, Filling
<1>2. /\ c \in Calls /\ Shaped(c)
      /\ ~stale => Sure(c)
      /\ c.new \in GivenRecords /\ c.new.token \in Tokens /\ c.new.globus \in GlobusIDs
      /\ Sure(c) => db.rec = c.new /\ db.state = "whole"
      /\ ~stale /\ Rewriting(c) => Rewrites(c)
      /\ ~stale => Stored
      /\ calls \in Nat /\ Given' = Given /\ GivenRecords' = GivenRecords
  BY <1>1, FillingFacts, GivenStays DEF Stores
<1>3. /\ userCache' \in [held : {"none", "expired", "live"}, rec : GivenRecords \cup {Nothing}]
      /\ userCache'.rec = Nothing <=> userCache'.held = "none"
      /\ tokenCache' \in [Tokens -> GlobusIDs \cup {"none"}]
      /\ globusCache' \in [GlobusIDs -> Tokens \cup {0}] /\ left' \subseteq GlobusIDs
  BY <1>1, <1>2 DEF IInv, Typed
<1>4. \A k \in Tokens : \/ k = c.new.token /\ tokenCache'[k] = c.new.globus
                        \/ tokenCache'[k] = tokenCache[k] /\ k # c.new.token
  BY <1>1, <1>2 DEF IInv, Typed
<1>5. PICK d : /\ Moves(t, d) /\ d.pc = "cacheGlobus" /\ d.pc \notin Erasing
               /\ d.old = c.old /\ d.new = c.new /\ d.next = c.next
               /\ Rewriting(d) <=> Rewriting(c)
  <2>1. Goto(t, "cacheGlobus") /\ c.op # "list"
    BY <1>1, <1>2 DEF CacheToken, Shaped
  <2> QED BY <1>1, <2>1, FillMoves
<1>6. StepOf(t, d) /\ call'[t] = d
  BY <1>1, <1>5, OthersStay DEF StepOf, IInv
\* The entry that is written is right; the others are as before.
<1>7. ASSUME Sure(c), \A k \in Tokens \ {c.new.token} : tokenCache[k] # "none" =>
                         db.state = "whole" /\ db.rec = [token |-> k, globus |-> tokenCache[k]]
      PROVE  TokenRight'
  <2> SUFFICES ASSUME NEW k \in Tokens, tokenCache'[k] # "none"
               PROVE  db.state = "whole" /\ db.rec = [token |-> k, globus |-> tokenCache'[k]]
    BY <1>1 DEF TokenRight
  <2>1. CASE k = c.new.token /\ tokenCache'[k] = c.new.globus
    <3>1. c.new = [token |-> c.new.token, globus |-> c.new.globus]
      BY <1>2 DEF GivenRecords
    <3> QED BY <1>2, <1>7, <2>1, <3>1
  <2>2. CASE tokenCache'[k] = tokenCache[k] /\ k # c.new.token
    BY <1>7, <2>2
  <2> QED BY <1>4, <2>1, <2>2
<1>8. ASSUME Sure(c), CachesRight PROVE CachesRight'
  <2>1. TokenRight'
    BY <1>7, <1>8 DEF CachesRight, TokenRight
  <2> QED BY <1>1, <1>8, <2>1 DEF CachesRight, UserRight, GlobusRight, Indexed
<1>9. Trusted' /\ (\A u \in Threads : ~Rewriting(call'[u])) => CachesRight'
  BY <1>1, <1>5, <1>6, <1>8, FillingTrusts
<1>10. Knows(c) => Knows(d)
  BY <1>1, <1>5 DEF Knows, Filling
<1>11. ASSUME ~stale, Rewriting(d) PROVE Rewrites(d)'
  <2>1. Rewrites(c)
    BY <1>2, <1>5, <1>11
  <2>2. UserRight'
    BY <1>1, <2>1 DEF UserRight, Rewrites
  <2>3. \A k \in Tokens : tokenCache[k] # "none" => k = c.new.token
    BY <1>1, <2>1 DEF Rewrites
  <2>4. TokenRight'
    <3>1. \A k \in Tokens \ {c.new.token} : tokenCache[k] # "none" =>
             db.state = "whole" /\ db.rec = [token |-> k, globus |-> tokenCache[k]]
      BY <2>3
    <3>2. Sure(c)
      BY <1>2, <1>11
    <3> QED BY <1>7, <3>1, <3>2
  <2>5. \A k \in Tokens : tokenCache'[k] # "none" => k = d.new.token
    BY <1>4, <1>5, <2>3
  <2>6. \A g \in GlobusIDs \ left' : globusCache'[g] # 0 => g \in {d.old.globus, d.new.globus}
    BY <1>1, <1>5, <2>1 DEF Rewrites
  <2> QED BY <2>2, <2>4, <2>5, <2>6 DEF Rewrites
<1>12. ~stale => Stored'
  BY <1>1, <1>2 DEF Stored
<1> QED BY <1>1, <1>3, <1>5, <1>9, <1>10, <1>11, <1>12, FillingPreserves

LEMMA CacheGlobusStep == ASSUME IInv, NEW t \in Threads, CacheGlobus(t) PROVE IInv'
<1> DEFINE c == call[t]
<1>1. /\ At(t, "cacheGlobus") /\ c.pc \in Filling
      /\ globusCache' = [globusCache EXCEPT ![c.new.globus] = c.new.token]
      /\ left' = (left \cup ({c.old.globus} \ {"none"})) \ {c.new.globus}
      /\ Goto(t, c.next)
      /\ UNCHANGED <<db, userCache, tokenCache, calls, troubles, retired, stale, unclear>>
  BY DEF CacheGlobus, Filling
<1>2. /\ c \in Calls /\ Shaped(c) /\ c.next \in {"idle", "found"}
      /\ ~stale => Sure(c)
      /\ c.new \in GivenRecords /\ c.new.token \in Tokens /\ c.new.globus \in GlobusIDs
      /\ Sure(c) => db.rec = c.new /\ Indexed /\ (c.next = "found" => db.state = "whole")
      /\ ~stale /\ Rewriting(c) => Rewrites(c)
      /\ ~stale /\ Stores(c) => Stored
      /\ calls \in Nat /\ Given' = Given /\ GivenRecords' = GivenRecords
  BY <1>1, FillingFacts, GivenStays
<1>3. /\ userCache' \in [held : {"none", "expired", "live"}, rec : GivenRecords \cup {Nothing}]
      /\ userCache'.rec = Nothing <=> userCache'.held = "none"
      /\ tokenCache' \in [Tokens -> GlobusIDs \cup {"none"}]
      /\ globusCache' \in [GlobusIDs -> Tokens \cup {0}] /\ left' \subseteq GlobusIDs
  <2>1. c.old.globus \in GlobusIDs \cup {"none"}
    BY <1>2, RecordFacts DEF Calls, GivenRecords
  <2> QED BY <1>1, <1>2, <2>1 DEF IInv, Typed
<1>4. /\ globusCache'[c.new.globus] = c.new.token
      /\ \A g \in GlobusIDs \ {c.new.globus} : globusCache'[g] = globusCache[g]
      /\ \A g \in (GlobusIDs \ left') \ {c.new.globus} : g \notin left /\ g # c.old.globus
  BY <1>1, <1>2, UserStoreAssumption DEF IInv, Typed
\* The entry that is written is right; of the others those not left behind.
<1>5. ASSUME Sure(c), \A g \in GlobusIDs \ left : globusCache[g] # 0 /\ g # c.new.globus =>
                         (Indexed /\ db.rec = [token |-> globusCache[g], globus |-> g])
                         \/ g = c.old.globus
      PROVE  GlobusRight'
  <2> SUFFICES ASSUME NEW g \in GlobusIDs \ left', globusCache'[g] # 0
               PROVE  Indexed /\ db.rec = [token |-> globusCache'[g], globus |-> g]
    BY <1>1 DEF GlobusRight, Indexed
  <2>1. CASE g = c.new.globus
    <3>1. c.new = [token |-> c.new.token, globus |-> c.new.globus]
      BY <1>2 DEF GivenRecords
    <3> QED BY <1>2, <1>4, <1>5, <2>1, <3>1
  <2>2. CASE g # c.new.globus
    <3>1. g \in GlobusIDs \ left /\ g # c.old.globus /\ globusCache'[g] = globusCache[g]
      BY <1>4, <2>2
    <3> QED BY <1>5, <2>2, <3>1
  <2> QED BY <2>1, <2>2
<1>6. TokenRight' = TokenRight /\ UserRight' = UserRight
  BY <1>1 DEF TokenRight, UserRight
<1>7. ASSUME Sure(c), CachesRight PROVE CachesRight'
  <2>1. GlobusRight'
    BY <1>5, <1>7 DEF CachesRight, GlobusRight
  <2> QED BY <1>6, <1>7, <2>1 DEF CachesRight
<1>8. ASSUME ~stale, Rewriting(c) PROVE CachesRight'
  <2>1. Rewrites(c) /\ Sure(c)
    BY <1>2, <1>8
  <2>2. UserRight /\ TokenRight
    BY <1>1, <2>1 DEF Rewrites
  <2>3. \A g \in GlobusIDs \ left : globusCache[g] # 0 => g \in {c.old.globus, c.new.globus}
    BY <2>1 DEF Rewrites
  <2>4. GlobusRight'
    BY <1>5, <2>1, <2>3
  <2> QED BY <1>6, <2>2, <2>4 DEF CachesRight
<1>9. ASSUME NEW d, StepOf(t, d), ~Rewriting(d), Trusted' PROVE CachesRight'
  <2>1. CASE ~Rewriting(c)
    BY <1>1, <1>7, <1>9, <2>1, FillingTrusts
  <2>2. CASE Rewriting(c)
    <3>1. d = Idle /\ Changer(c)
      BY <1>9, <2>2 DEF StepOf, Moves, Advance, Rewriting
    <3>2. ~Unwritten(d)
      BY <1>2, <3>1, RecordFacts DEF Unwritten, Changer
    <3>3. ~stale
      BY <1>9, <3>1, <3>2, TrustAfterWrite DEF IInv
    <3> QED BY <1>8, <2>2, <3>3
  <2> QED BY <2>1, <2>2
<1>10. NoTokens' = NoTokens /\ userCache' = userCache
  BY <1>1 DEF NoTokens
<1>11. CASE c.next = "idle"
  <2>1. Moves(t, Idle) /\ Idle.pc = "idle"
    BY <1>1, <1>11, IdleMoves
  <2>2. Idle.pc \notin Erasing /\ ~Rewriting(Idle) /\ ~Stores(Idle)
    BY <2>1 DEF Erasing, Rewriting, Changer, Stores
  <2>3. StepOf(t, Idle)
    BY <1>1, <2>1 DEF StepOf
  <2>4. Trusted' => CachesRight'
    BY <1>9, <2>2, <2>3
  <2>5. c.pc # "cacheUser"
    BY <1>1
  <2> QED BY <1>1, <1>3, <1>10, <2>1, <2>2, <2>4, <2>5, FillingPreserves
<1>12. CASE c.next = "found"
  <2>1. PICK d \in Calls :
           /\ call' = [call EXCEPT ![t] = d] /\ d.pc = "found" /\ d.op = c.op
           /\ d.token = c.token /\ d.globus = c.globus /\ d.next = c.next
           /\ d.old = c.old /\ d.new = c.new
    BY <1>1, <1>12, LabelMoves DEF Labels
  <2>2. Shaped(d)
    BY <1>1, <1>2, <1>12, <2>1 DEF Shaped, Erasing, Filling
  <2>3. Moves(t, d)
    BY <1>1, <1>12, <2>1, <2>2 DEF Moves, Advance, Unwritten, Rewriting, Changer, Filling
  <2>4. StepOf(t, d) /\ ~Rewriting(d) /\ d.pc \notin Erasing
    BY <1>1, <2>1, <2>3 DEF StepOf, Rewriting, Filling, Erasing
  <2>5. Trusted' => CachesRight'
    BY <1>9, <2>4
  <2>6. Knows(c) => Knows(d)
    BY <1>1, <1>2, <1>12, <2>1 DEF Knows, Filling, Shaped
  <2>7. ~stale => Stored'
    BY <1>1, <1>2, <1>12 DEF Stores, Stored
  <2>8. c.pc # "cacheUser"
    BY <1>1
  <2> QED BY <1>1, <1>3, <1>10, <2>3, <2>4, <2>5, <2>6, <2>7, <2>8, FillingPreserves
<1> QED BY <1>2, <1>11, <1>12

-----------------------------------------------------------------------------
\* A step of removeUser that takes entries out of the caches.
LEMMA ErasingPreserves ==
    ASSUME IInv, NEW t \in Threads, call[t].pc \in {"eraseToken", "eraseGlobus", "eraseUser"},
           NEW label \in {"eraseGlobus", "eraseUser", "deleteItem"}, Goto(t, label),
           UNCHANGED <<db, calls, troubles, retired, left, stale, unclear>>,
           userCache' \in [held : {"none", "expired", "live"}, rec : GivenRecords \cup {Nothing}],
           userCache'.rec = Nothing <=> userCache'.held = "none",
           tokenCache' \in [Tokens -> GlobusIDs \cup {"none"}],
           globusCache' \in [GlobusIDs -> Tokens \cup {0}],
           userCache' = userCache \/ userCache'.held = "none",
           \A k \in Tokens : tokenCache'[k] # "none" => tokenCache'[k] = tokenCache[k],
           \A g \in GlobusIDs : globusCache'[g] # 0 => globusCache'[g] = globusCache[g],
           ~stale => /\ NoTokens'
                     /\ label = "eraseGlobus" => call[t].old = db.rec
                     /\ label # "eraseGlobus" => NoGlobus'
                     /\ label = "deleteItem" => userCache'.held = "none"
    PROVE  IInv'
<1> USE DEF IInv
<1> DEFINE c == call[t]
<1>1. /\ c \in Calls /\ Shaped(c) /\ Active(t) /\ c.op \in {"delete", "deleteSelf"} /\ Changer(c)
      /\ Unwritten(c) /\ calls \in Nat
      /\ Given' = Given /\ GivenRecords' = GivenRecords /\ Calls' = Calls
  BY GivenStays DEF Typed, CallsShaped, Shaped, Erasing, Changer, Readers, Unwritten, Rewriting,
     Filling
<1>2. PICK d \in Calls :
         /\ call' = [call EXCEPT ![t] = d] /\ d.pc = label /\ d.op = c.op
         /\ d.token = c.token /\ d.globus = c.globus /\ d.old = c.old
  BY <1>1, LabelMoves DEF Labels
<1>3. Shaped(d)
  BY <1>1, <1>2 DEF Shaped, Erasing, Filling, Ops
<1>4. ~Rewriting(d) /\ ~Stores(d) /\ Knows(d)'
  BY <1>2 DEF Rewriting, Filling, Stores, Knows
<1>5. Moves(t, d)
  BY <1>1, <1>2, <1>3, <1>4 DEF Moves, Advance, Unwritten
<1>6. StepOf(t, d)
  BY <1>5 DEF StepOf
<1>7. Typed'
  <2>1. call' \in [Threads -> Calls]
    BY <1>2 DEF Typed
  <2> QED BY <1>1, <2>1 DEF Typed
<1>8. Trusted' => CachesRight'
  <2> SUFFICES ASSUME Trusted' PROVE CachesRight'
    OBVIOUS
  <2>1. CachesRight
    BY <1>1, <1>6, TrustLess, CachesReliable DEF Unwritten
  <2>2. UserRight'
    BY <2>1 DEF CachesRight, UserRight
  <2>3. TokenRight'
    BY <2>1 DEF CachesRight, TokenRight
  <2>4. GlobusRight'
    BY <2>1 DEF CachesRight, GlobusRight, Indexed
  <2> QED BY <2>2, <2>3, <2>4 DEF CachesRight
<1>9. ~unclear' => db' = db /\ c.pc # "put"
  OBVIOUS
<1>10. ~stale => Erases(d)'
  <2> SUFFICES ASSUME ~stale PROVE Erases(d)'
    OBVIOUS
  <2>1. d.pc = "eraseGlobus" => d.old = db'.rec
    BY <1>2
  <2>2. NoTokens' /\ (d.pc # "eraseGlobus" => NoGlobus') /\ d.pc # "eraseToken"
        /\ (d.pc = "deleteItem" => userCache'.held = "none")
    BY <1>2
  <2> QED BY <2>1, <2>2 DEF Erases
<1>11. Fresh(d)'
  BY <1>1, <1>2 DEF Fresh
<1>12. CaresFor(t, d)
  BY <1>1, <1>4, <1>8, <1>9, <1>10, <1>11 DEF CaresFor
<1> QED BY <1>6, <1>7, <1>12, StepPreserves

\* What removeUser knows while it takes entries out of the caches.
LEMMA ErasingFacts ==
    ASSUME IInv, NEW t \in Threads, call[t].pc \in {"eraseToken", "eraseGlobus", "eraseUser"}
    PROVE  /\ ~stale => CachesRight /\ Erases(call[t])
           /\ calls' = calls => GivenRecords' = GivenRecords
<1>1. ~Rewriting(call[t]) /\ Active(t)
  BY DEF Rewriting, Filling
<1> QED BY <1>1, CachesReliable, GivenStays DEF Trusted, IInv, CachesKnown

LEMMA EraseTokenStep == ASSUME IInv, NEW t \in Threads, EraseToken(t) PROVE IInv'
<1> DEFINE c == call[t]
<1>1. /\ c.pc = "eraseToken"
      /\ tokenCache' = [tokenCache EXCEPT ![c.old.token] = "none"]
      /\ Goto(t, "eraseGlobus")
      /\ UNCHANGED <<db, userCache, globusCache, calls, troubles, retired, left, stale, unclear>>
  BY DEF EraseToken
<1>2. (~stale => TokenRight /\ c.old = db.rec) /\ GivenRecords' = GivenRecords
  BY <1>1, ErasingFacts DEF CachesRight, Erases
<1>3. /\ \A k \in Tokens : tokenCache'[k] # "none" => tokenCache'[k] = tokenCache[k]
      /\ \A k \in Tokens : k = c.old.token => tokenCache'[k] = "none"
      /\ tokenCache' \in [Tokens -> GlobusIDs \cup {"none"}]
  BY <1>1 DEF IInv, Typed
<1>4. ASSUME ~stale PROVE NoTokens'
  <2> SUFFICES ASSUME NEW k \in Tokens, tokenCache'[k] # "none" PROVE FALSE
    BY DEF NoTokens
  <2>1. db.rec = [token |-> k, globus |-> tokenCache[k]]
    BY <1>2, <1>3, <1>4 DEF TokenRight
  <2>2. c.old.token = k
    BY <1>2, <1>4, <2>1
  <2> QED BY <1>3, <2>2
<1>5. /\ userCache' \in [held : {"none", "expired", "live"}, rec : GivenRecords \cup {Nothing}]
      /\ userCache'.rec = Nothing <=> userCache'.held = "none"
      /\ globusCache' \in [GlobusIDs -> Tokens \cup {0}]
  BY <1>1, <1>2 DEF IInv, Typed
<1>6. \A g \in GlobusIDs : globusCache'[g] = globusCache[g]
  BY <1>1
<1> QED BY <1>1, <1>2, <1>3, <1>4, <1>5, <1>6, ErasingPreserves

LEMMA EraseGlobusStep == ASSUME IInv, NEW t \in Threads, EraseGlobus(t) PROVE IInv'
<1> DEFINE c == call[t]
<1>1. /\ c.pc = "eraseGlobus"
      /\ globusCache' = [globusCache EXCEPT ![c.old.globus] = 0]
      /\ Goto(t, "eraseUser")
      /\ UNCHANGED <<db, userCache, tokenCache, calls, troubles, retired, left, stale, unclear>>
  BY DEF EraseGlobus
<1>2. (~stale => GlobusRight /\ c.old = db.rec /\ NoTokens) /\ GivenRecords' = GivenRecords
  BY <1>1, ErasingFacts DEF CachesRight, Erases
<1>3. /\ \A g \in GlobusIDs : globusCache'[g] # 0 => globusCache'[g] = globusCache[g]
      /\ \A g \in GlobusIDs : g = c.old.globus => globusCache'[g] = 0
      /\ globusCache' \in [GlobusIDs -> Tokens \cup {0}]
  BY <1>1 DEF IInv, Typed
<1>4. ASSUME ~stale PROVE NoGlobus'
  <2> SUFFICES ASSUME NEW g \in GlobusIDs \ left, globusCache'[g] # 0 PROVE FALSE
    BY <1>1 DEF NoGlobus
  <2>1. db.rec = [token |-> globusCache[g], globus |-> g]
    BY <1>2, <1>3, <1>4 DEF GlobusRight
  <2>2. c.old.globus = g
    BY <1>2, <1>4, <2>1
  <2> QED BY <1>3, <2>2
<1>5. NoTokens' = NoTokens
  BY <1>1 DEF NoTokens
<1>6. /\ userCache' \in [held : {"none", "expired", "live"}, rec : GivenRecords \cup {Nothing}]
      /\ userCache'.rec = Nothing <=> userCache'.held = "none"
      /\ tokenCache' \in [Tokens -> GlobusIDs \cup {"none"}]
  BY <1>1, <1>2 DEF IInv, Typed
<1>7. \A k \in Tokens : tokenCache'[k] = tokenCache[k]
  BY <1>1
<1> QED BY <1>1, <1>2, <1>3, <1>4, <1>5, <1>6, <1>7, ErasingPreserves

LEMMA EraseUserStep == ASSUME IInv, NEW t \in Threads, EraseUser(t) PROVE IInv'
<1>1. /\ call[t].pc = "eraseUser"
      /\ userCache' = [held |-> "none", rec |-> Nothing]
      /\ Goto(t, "deleteItem")
      /\ UNCHANGED <<db, tokenCache, globusCache, calls, troubles, retired, left, stale, unclear>>
  BY DEF EraseUser
<1>2. (~stale => NoTokens /\ NoGlobus) /\ GivenRecords' = GivenRecords
  BY <1>1, ErasingFacts DEF Erases
<1>3. NoTokens' = NoTokens /\ NoGlobus' = NoGlobus
  BY <1>1 DEF NoTokens, NoGlobus
<1>4. /\ userCache' \in [held : {"none", "expired", "live"}, rec : GivenRecords \cup {Nothing}]
      /\ userCache'.rec = Nothing <=> userCache'.held = "none"
      /\ tokenCache' \in [Tokens -> GlobusIDs \cup {"none"}]
      /\ globusCache' \in [GlobusIDs -> Tokens \cup {0}]
  BY <1>1, <1>2 DEF IInv, Typed
<1>5. /\ \A k \in Tokens : tokenCache'[k] = tokenCache[k]
      /\ \A g \in GlobusIDs : globusCache'[g] = globusCache[g]
  BY <1>1
<1> QED BY <1>1, <1>2, <1>3, <1>4, <1>5, ErasingPreserves

-----------------------------------------------------------------------------
\* A step that writes the item.
LEMMA WritingPreserves ==
    ASSUME IInv, NEW t \in Threads, NEW d, Moves(t, d), Changer(call[t]), ~Unwritten(d),
           UNCHANGED <<userCache, tokenCache, globusCache, calls, troubles, left, stale, unclear>>,
           db' \in [state : DBStates, rec : GivenRecords \cup {Nothing}],
           db'.rec = Nothing <=> db'.state \in {"gone", "reserved"},
           retired' \subseteq Given, d.pc \notin Erasing, ~Stores(d),
           ~unclear => \/ db'.state \in {"gone", "whole"}
                       \/ db'.state = "reserved" /\ d.pc = "put",
           d.pc # "idle" /\ Sure(call[t]) => Knows(d)',
           Rewriting(d) => d.pc = "cacheUser",
           ~stale => /\ Rewriting(d) => Rewrites(d)'
                     /\ ~Rewriting(d) => CachesRight' /\ NoTokens',
           ~unclear => Fresh(d)'
    PROVE  IInv'
<1> USE DEF IInv
<1> DEFINE c == call[t]
<1>1. StepOf(t, d) /\ call'[t] = d
  BY OthersStay DEF StepOf
<1>2. calls \in Nat /\ Given' = Given /\ GivenRecords' = GivenRecords /\ Calls' = Calls
  BY GivenStays DEF Typed
<1>3. Typed'
  <2>1. call' \in [Threads -> Calls]
    BY DEF Moves, Typed
  <2> QED BY <1>2, <2>1 DEF Typed
<1>4. d.pc # "idle" /\ Sure(d)' => Knows(d)'
  <2>1. d.pc # "idle" => Changer(d)
    BY <1>2, RecordFacts DEF Moves, Advance, Changer
  <2>2. d.pc # "idle" /\ Sure(d)' => Sure(c)
    BY <2>1 DEF Sure
  <2> QED BY <2>2
<1>5. Trusted' /\ (\A u \in Threads : ~Rewriting(call'[u])) => CachesRight'
  BY <1>1, TrustAfterWrite
<1>6. Erases(d)'
  BY DEF Erases, Erasing
<1>7. CaresFor(t, d)
  BY <1>4, <1>5, <1>6 DEF CaresFor
<1> QED BY <1>1, <1>3, <1>7, StepPreserves

\* What a thread knows that is about to write.
LEMMA WritingFacts ==
    ASSUME IInv, NEW t \in Threads, call[t].pc \in {"update", "reserve", "put", "deleteItem"}
    PROVE  LET c == call[t] IN
           /\ c \in Calls /\ Shaped(c) /\ calls \in Nat /\ Changer(c) /\ Active(t)
           /\ db.rec \in GivenRecords \cup {Nothing} /\ db.rec.token \in Given \cup {0}
           /\ db.state \in DBStates
           /\ Sure(c) => Knows(c)
           /\ ~stale \/ ~unclear => Sure(c)
           /\ ~stale => CachesRight /\ Erases(c)
           /\ retired \subseteq Given
<1> DEFINE c == call[t]
<1>1. /\ c \in Calls /\ Shaped(c) /\ calls \in Nat /\ Changer(c) /\ Active(t) /\ ~Rewriting(c)
      /\ db.rec \in GivenRecords \cup {Nothing} /\ db.state \in DBStates /\ retired \subseteq Given
  BY DEF IInv, Typed, CallsShaped, Shaped, Changer, Readers, Erasing, Rewriting, Filling
<1>2. db.rec.token \in Given \cup {0}
  BY <1>1, RecordFacts DEF GivenRecords
<1>3. Sure(c) => Knows(c)
  BY <1>1 DEF IInv, RecordKnown
<1>4. ~stale \/ ~unclear => Sure(c)
  BY <1>1 DEF Sure
<1>5. ~stale => CachesRight /\ Erases(c)
  BY <1>1, CachesReliable DEF Trusted, IInv, CachesKnown
<1> QED BY <1>1, <1>2, <1>3, <1>4, <1>5

\* Where no record is, none is cached.
LEMMA NothingCached ==
    ASSUME CachesRight, db.state \in {"gone", "reserved"}
    PROVE  NoTokens /\ NoGlobus /\ userCache.held # "live"
BY DEF CachesRight, UserRight, TokenRight, GlobusRight, NoTokens, NoGlobus, Indexed

LEMMA NothingCachedRight ==
    ASSUME NoTokens, NoGlobus, userCache.held # "live" PROVE CachesRight
BY DEF CachesRight, UserRight, TokenRight, GlobusRight, NoTokens, NoGlobus

LEMMA CacheEntries ==
    ASSUME CachesRight
    PROVE  /\ \A k \in Tokens : tokenCache[k] # "none" => k = db.rec.token
           /\ \A g \in GlobusIDs \ left : globusCache[g] # 0 => g = db.rec.globus
<1>1. ASSUME NEW k \in Tokens, tokenCache[k] # "none" PROVE k = db.rec.token
  <2>1. db.rec = [token |-> k, globus |-> tokenCache[k]]
    BY <1>1 DEF CachesRight, TokenRight
  <2> QED BY <2>1
<1>2. ASSUME NEW g \in GlobusIDs \ left, globusCache[g] # 0 PROVE g = db.rec.globus
  <2>1. db.rec = [token |-> globusCache[g], globus |-> g]
    BY <1>2 DEF CachesRight, GlobusRight
  <2> QED BY <2>1
<1> QED BY <1>1, <1>2

LEMMA UpdateStep == ASSUME IInv, NEW t \in Threads, Update(t) PROVE IInv'
<1> DEFINE c == call[t]
<1>1. /\ c.pc = "update"
      /\ db' = [state |-> IF db.state = "whole" THEN "whole" ELSE "partial", rec |-> c.new]
      /\ retired' = retired \cup ({db.rec.token} \ {0, c.new.token})
      /\ call' = [call EXCEPT ![t].pc = "cacheUser", ![t].next = "idle"]
      /\ UNCHANGED <<userCache, tokenCache, globusCache, calls, troubles, left, stale, unclear>>
  BY DEF Update
<1>2. /\ c \in Calls /\ Shaped(c) /\ calls \in Nat /\ Changer(c) /\ Active(t)
      /\ db.rec.token \in Given \cup {0}
      /\ ~stale \/ ~unclear => Sure(c)
      /\ Sure(c) => db.state = "whole" /\ db.rec = c.old
      /\ ~stale => CachesRight
      /\ retired \subseteq Given
      /\ c.op \in {"edit", "replace", "touch"} /\ c.old \in GivenRecords
      /\ c.new = Changed(c, c.old)
  BY <1>1, WritingFacts DEF Knows, Shaped
<1>3. c.new \in GivenRecords /\ c.new # Nothing
  BY <1>2, RecordFacts DEF Changed, GivenRecords, Shaped
<1>4. call' = [call EXCEPT ![t] = [c EXCEPT !.pc = "cacheUser", !.next = "idle"]]
  BY <1>1 DEF IInv, Typed
<1>5. PICK d \in Calls :
         /\ call' = [call EXCEPT ![t] = d] /\ d.pc = "cacheUser" /\ d.op = c.op
         /\ d.token = c.token /\ d.next = "idle" /\ d.new = c.new /\ d.old = c.old
         /\ d.globus = c.globus
  <2> DEFINE e == [c EXCEPT !.pc = "cacheUser", !.next = "idle"]
  <2>1. e \in Calls /\ e.pc = "cacheUser" /\ e.op = c.op /\ e.token = c.token
        /\ e.next = "idle" /\ e.new = c.new /\ e.old = c.old /\ e.globus = c.globus
    BY <1>2 DEF Calls, Labels
  <2> HIDE DEF e
  <2> QED BY <1>4, <2>1 DEF e
<1>6. Shaped(d)
  BY <1>2, <1>3, <1>5 DEF Shaped, Erasing, Filling, ByName, Ops
<1>7. Rewriting(d) /\ ~Unwritten(d) /\ ~Stores(d) /\ d.pc \notin Erasing
  BY <1>2, <1>5 DEF Rewriting, Changer, Readers, Filling, Unwritten, Stores, Erasing
<1>8. Moves(t, d)
  BY <1>2, <1>5, <1>6, <1>7 DEF Moves, Advance
<1>9. /\ db' \in [state : DBStates, rec : GivenRecords \cup {Nothing}]
      /\ db'.rec = Nothing <=> db'.state \in {"gone", "reserved"}
      /\ retired' \subseteq Given
  BY <1>1, <1>2, <1>3 DEF DBStates
<1>10. ~unclear => db'.state \in {"gone", "whole"}
  BY <1>1, <1>2
<1>11. Sure(c) => Knows(d)'
  BY <1>1, <1>2, <1>5 DEF Knows
<1>12. ASSUME ~stale PROVE Rewrites(d)'
  <2>1. CachesRight /\ db.rec = c.old
    BY <1>2, <1>12
  <2>2. \A k \in Tokens : tokenCache'[k] # "none" => k = d.old.token
    BY <1>1, <1>5, <2>1, CacheEntries
  <2>3. \A g \in GlobusIDs \ left' : globusCache'[g] # 0 => g = d.old.globus
    BY <1>1, <1>5, <2>1, CacheEntries
  <2> QED BY <1>5, <2>2, <2>3 DEF Rewrites
<1>13. Fresh(d)'
  BY <1>7 DEF Fresh
<1> QED BY <1>1, <1>2, <1>5, <1>7, <1>8, <1>9, <1>10, <1>11, <1>12, <1>13, WritingPreserves

LEMMA ReserveStep == ASSUME IInv, NEW t \in Threads, Reserve(t) PROVE IInv'
<1> DEFINE c == call[t]
<1>1. /\ c.pc = "reserve" /\ db' = [state |-> "reserved", rec |-> Nothing] /\ Goto(t, "put")
      /\ UNCHANGED <<userCache, tokenCache, globusCache, calls, troubles, retired, left, stale,
                     unclear>>
  BY DEF Reserve
<1>2. /\ c \in Calls /\ Shaped(c) /\ calls \in Nat /\ Changer(c) /\ Active(t)
      /\ ~stale => CachesRight /\ db.state = "gone"
      /\ retired \subseteq Given /\ c.op = "create" /\ c.token \in Given
  BY <1>1, WritingFacts DEF Knows, Shaped
<1>3. PICK d \in Calls :
         /\ call' = [call EXCEPT ![t] = d] /\ d.pc = "put" /\ d.op = c.op
         /\ d.token = c.token /\ d.globus = c.globus
  BY <1>1, <1>2, LabelMoves DEF Labels
<1>4. Shaped(d)
  BY <1>2, <1>3 DEF Shaped, Erasing, Filling, ByName, Ops
<1>5. ~Rewriting(d) /\ ~Unwritten(d) /\ ~Stores(d) /\ d.pc \notin Erasing
  BY <1>3 DEF Rewriting, Filling, Unwritten, Stores, Erasing
<1>6. Moves(t, d)
  BY <1>1, <1>2, <1>3, <1>4, <1>5 DEF Moves, Advance, Rewriting, Filling
<1>7. /\ db' \in [state : DBStates, rec : GivenRecords \cup {Nothing}]
      /\ db'.rec = Nothing /\ db'.state = "reserved"
  BY <1>1 DEF DBStates
<1>8. Knows(d)'
  BY <1>1, <1>3 DEF Knows, Filling
<1>9. ASSUME ~stale PROVE CachesRight' /\ NoTokens'
  <2>1. NoTokens /\ NoGlobus /\ userCache.held # "live"
    BY <1>2, <1>9, NothingCached
  <2>2. NoTokens' /\ NoGlobus' /\ userCache'.held # "live"
    BY <1>1, <2>1 DEF NoTokens, NoGlobus
  <2>3. CachesRight'
    BY <2>2 DEF CachesRight, UserRight, TokenRight, GlobusRight, NoTokens, NoGlobus
  <2> QED BY <2>2, <2>3
<1>10. ~unclear => Fresh(d)'
  <2>1. ~unclear => Fresh(c)
    BY DEF IInv, TokensFresh
  <2>2. ~Rewriting(c) /\ Changer(c) /\ c.token # 0 /\ db'.rec.token = 0
    BY <1>1, <1>2, RecordFacts DEF Rewriting, Filling
  <2> QED BY <1>1, <1>2, <1>3, <2>1, <2>2 DEF Fresh
<1> QED BY <1>1, <1>2, <1>3, <1>5, <1>6, <1>7, <1>8, <1>9, <1>10, WritingPreserves

LEMMA PutStep == ASSUME IInv, NEW t \in Threads, Put(t) PROVE IInv'
<1> DEFINE c == call[t]
           r == [token |-> c.token, globus |-> c.globus]
<1>1. /\ c.pc = "put" /\ db' = [state |-> "whole", rec |-> r]
      /\ call' = [call EXCEPT ![t].new = r, ![t].pc = "cacheUser", ![t].next = "idle"]
      /\ UNCHANGED <<userCache, tokenCache, globusCache, calls, troubles, retired, left, stale,
                     unclear>>
  BY DEF Put
<1>2. /\ c \in Calls /\ Shaped(c) /\ calls \in Nat /\ Changer(c) /\ Active(t)
      /\ ~stale => CachesRight /\ db.state = "reserved"
      /\ retired \subseteq Given /\ c.op = "create" /\ c.token \in Given /\ c.globus \in GlobusIDs
  BY <1>1, WritingFacts DEF Knows, Shaped
<1>3. r \in GivenRecords /\ r # Nothing
  BY <1>2, RecordFacts DEF GivenRecords
<1>4. call' = [call EXCEPT ![t] = [c EXCEPT !.new = r, !.pc = "cacheUser", !.next = "idle"]]
  BY <1>1 DEF IInv, Typed
<1>5. PICK d \in Calls :
         /\ call' = [call EXCEPT ![t] = d] /\ d.pc = "cacheUser" /\ d.op = c.op
         /\ d.token = c.token /\ d.next = "idle" /\ d.new = r /\ d.globus = c.globus
  <2> DEFINE e == [c EXCEPT !.new = r, !.pc = "cacheUser", !.next = "idle"]
  <2>1. e \in Calls /\ e.pc = "cacheUser" /\ e.op = c.op /\ e.token = c.token
        /\ e.next = "idle" /\ e.new = r /\ e.globus = c.globus
    BY <1>2, <1>3 DEF Calls, Labels
  <2> HIDE DEF e
  <2> QED BY <1>4, <2>1 DEF e
<1>6. Shaped(d)
  BY <1>2, <1>3, <1>5 DEF Shaped, Erasing, Filling, ByName, Ops
<1>7. Rewriting(d) /\ ~Unwritten(d) /\ ~Stores(d) /\ d.pc \notin Erasing
  BY <1>2, <1>5 DEF Rewriting, Changer, Readers, Filling, Unwritten, Stores, Erasing
<1>8. Moves(t, d)
  BY <1>2, <1>5, <1>6, <1>7 DEF Moves, Advance
<1>9. /\ db' \in [state : DBStates, rec : GivenRecords \cup {Nothing}]
      /\ db'.rec # Nothing /\ db'.state = "whole"
  BY <1>1, <1>3 DEF DBStates
<1>10. Knows(d)'
  BY <1>1, <1>5 DEF Knows
<1>11. ASSUME ~stale PROVE Rewrites(d)'
  <2>1. NoTokens /\ NoGlobus
    BY <1>2, <1>11, NothingCached
  <2> QED BY <1>1, <1>5, <2>1 DEF Rewrites, NoTokens, NoGlobus
<1>12. Fresh(d)'
  BY <1>7 DEF Fresh
<1> QED BY <1>1, <1>2, <1>5, <1>7, <1>8, <1>9, <1>10, <1>11, <1>12, WritingPreserves

LEMMA DeleteItemStep == ASSUME IInv, NEW t \in Threads, DeleteItem(t) PROVE IInv'
<1> DEFINE c == call[t]
<1>1. /\ c.pc = "deleteItem" /\ db' = [state |-> "gone", rec |-> Nothing] /\ Goto(t, "idle")
      /\ retired' = retired \cup ({db.rec.token} \ {0})
      /\ UNCHANGED <<userCache, tokenCache, globusCache, calls, troubles, left, stale, unclear>>
  BY DEF DeleteItem
<1>2. /\ Changer(c) /\ Active(t) /\ db.rec.token \in Given \cup {0}
      /\ ~stale => NoTokens /\ NoGlobus /\ userCache.held = "none"
      /\ retired \subseteq Given
  BY <1>1, WritingFacts DEF Erases
<1>3. Moves(t, Idle) /\ Idle.pc = "idle"
  BY <1>1, <1>2, IdleMoves
<1>4. ~Rewriting(Idle) /\ ~Unwritten(Idle) /\ ~Stores(Idle) /\ Idle.pc \notin Erasing
      /\ ~Changer(Idle)
  BY <1>3 DEF Rewriting, Changer, Unwritten, Stores, Erasing
<1>5. /\ db' \in [state : DBStates, rec : GivenRecords \cup {Nothing}]
      /\ db'.rec = Nothing /\ db'.state = "gone" /\ retired' \subseteq Given
  BY <1>1, <1>2 DEF DBStates
<1>6. ASSUME ~stale PROVE CachesRight' /\ NoTokens'
  <2>1. NoTokens' /\ NoGlobus' /\ userCache'.held # "live"
    BY <1>1, <1>2, <1>6 DEF NoTokens, NoGlobus
  <2>2. CachesRight'
    BY <2>1 DEF CachesRight, UserRight, TokenRight, GlobusRight, NoTokens, NoGlobus
  <2> QED BY <2>1, <2>2
<1>7. Fresh(Idle)'
  BY <1>4 DEF Fresh
<1> QED BY <1>1, <1>2, <1>3, <1>4, <1>5, <1>6, <1>7, WritingPreserves

-----------------------------------------------------------------------------
\* A call begins.
Starts(d) ==
    /\ d.pc = "getUser" => d.op \in {"look", "touch", "delete", "edit", "replace"}
    /\ d.pc = "scan" => d.op = "list"
    /\ d.pc = "findToken" => d.op \in {"findToken", "deleteSelf"}
    /\ d.pc = "findGlobus" => d.op \in {"findGlobus", "create"}
    /\ d.pc \in {"getUser", "scan", "findToken", "findGlobus"}
    /\ d.op \in {"edit", "create", "findGlobus"} => d.globus \in GlobusIDs
    /\ d.op \in {"findToken", "deleteSelf"} => d.token \in Given
    /\ d.op \in {"create", "replace"} => d.token = calls + 2
    /\ d.token \in Given \cup {0, calls + 2} /\ d.globus \in GlobusIDs \cup {"none"}
    /\ d.old = Nothing /\ d.new = Nothing /\ d.next = "idle"

BeginsWith(t, d) ==
    /\ ~Active(t) /\ call' = [call EXCEPT ![t] = d]
    /\ d \in [op : Ops, token : Nat, globus : GlobusIDs \cup {"none"}, old : {Nothing},
              new : {Nothing}, pc : Labels, next : {"idle"}]
    /\ Starts(d)
    /\ calls < MaxCalls /\ calls' = calls + 1
    /\ IF d.op \in Readers
       THEN stale' = (StillStale \/ Changing) /\ unclear' = unclear
       ELSE stale' = (StillStale \/ Busy) /\ unclear' = (StillUnclear \/ Changing \/ StillStale)
    /\ UNCHANGED <<db, userCache, tokenCache, globusCache, troubles, retired, left>>

LEMMA BeginBegins ==
    ASSUME IInv, NEW t \in Threads, NEW op \in Ops, NEW token \in Nat, NEW globus, NEW label,
           Begin(t, op, token, globus, label),
           LET d == [Idle EXCEPT !.op = op, !.token = token, !.globus = globus, !.pc = label]
           IN  Starts(d)
    PROVE  \E d : BeginsWith(t, d)
<1> DEFINE d == [Idle EXCEPT !.op = op, !.token = token, !.globus = globus, !.pc = label]
<1>1. calls \in Nat
  BY DEF IInv, Typed
<1>2. d.op = op /\ d.token = token /\ d.globus = globus /\ d.pc = label /\ d.old = Nothing
      /\ d.new = Nothing /\ d.next = "idle"
  BY DEF Idle
<1>3. globus \in GlobusIDs \cup {"none"} /\ label \in Labels
  BY <1>2 DEF Starts, Labels
<1>4. d \in [op : Ops, token : Nat, globus : GlobusIDs \cup {"none"}, old : {Nothing},
             new : {Nothing}, pc : Labels, next : {"idle"}]
  BY <1>3 DEF Idle
<1>5. /\ ~Active(t) /\ call' = [call EXCEPT ![t] = d] /\ calls < MaxCalls /\ calls' = calls + 1
      /\ IF op \in Readers
         THEN stale' = (StillStale \/ Changing) /\ unclear' = unclear
         ELSE stale' = (StillStale \/ Busy) /\ unclear' = (StillUnclear \/ Changing \/ StillStale)
      /\ UNCHANGED <<db, userCache, tokenCache, globusCache, troubles, retired, left>>
  BY DEF Begin
<1> QED BY <1>2, <1>4, <1>5 DEF BeginsWith

LEMMA BeginAnyBegins ==
    ASSUME IInv, NEW t \in Threads, BeginAny(t) PROVE \E d : BeginsWith(t, d)
<1>1. calls \in Nat /\ calls + 2 \in Nat /\ 0 \in Nat
  BY DEF IInv, Typed
<1>2. ASSUME NEW op \in {"look", "touch", "delete"}, Begin(t, op, 0, "none", "getUser")
      PROVE  \E d : BeginsWith(t, d)
  BY <1>1, <1>2, BeginBegins DEF Ops, Starts, Idle
<1>3. CASE Begin(t, "list", 0, "none", "scan")
  BY <1>1, <1>3, BeginBegins DEF Ops, Starts, Idle
<1>4. ASSUME NEW op \in {"findToken", "deleteSelf"}, NEW k \in 1 .. calls + 1,
             Begin(t, op, k, "none", "findToken")
      PROVE  \E d : BeginsWith(t, d)
  BY <1>1, <1>4, BeginBegins DEF Ops, Starts, Idle, Given
<1>5. ASSUME NEW g \in GlobusIDs, Begin(t, "edit", 0, g, "getUser")
      PROVE  \E d : BeginsWith(t, d)
  BY <1>1, <1>5, BeginBegins DEF Ops, Starts, Idle
<1>6. ASSUME NEW g \in GlobusIDs, Begin(t, "findGlobus", 0, g, "findGlobus")
      PROVE  \E d : BeginsWith(t, d)
  BY <1>1, <1>6, BeginBegins DEF Ops, Starts, Idle
<1>7. ASSUME NEW g \in GlobusIDs, Begin(t, "create", calls + 2, g, "findGlobus")
      PROVE  \E d : BeginsWith(t, d)
  BY <1>1, <1>7, BeginBegins DEF Ops, Starts, Idle
<1>8. CASE Begin(t, "replace", calls + 2, "none", "getUser")
  BY <1>1, <1>8, BeginBegins DEF Ops, Starts, Idle
<1> QED BY <1>2, <1>3, <1>4, <1>5, <1>6, <1>7, <1>8 DEF BeginAny

\* What was wrong can only be forgotten once nothing of it is left.
LEMMA BeginTrusts ==
    ASSUME IInv, NEW t \in Threads, NEW d, BeginsWith(t, d)
    PROVE  /\ call'[t] = d /\ \A u \in Threads : u # t => call'[u] = call[u]
           /\ Trusted' => Trusted \/ (~Cached /\ ~Busy)
           /\ ~stale' => ~stale \/ (~Cached /\ ~Busy)
           /\ Changing => stale' /\ (d.op \notin Readers => unclear')
           /\ Busy /\ stale => stale'
           /\ d.op \notin Readers /\ Busy => stale'
           /\ d.op \in Readers => unclear' = unclear
           /\ ~unclear' => ~unclear \/ db.state = "gone"
<1>1. call'[t] = d /\ \A u \in Threads : u # t => call'[u] = call[u]
  BY DEF BeginsWith, IInv, Typed
<1>2. ~stale' => ~stale \/ (~Cached /\ ~Busy)
  BY DEF BeginsWith, StillStale
<1>3. Changing => stale' /\ (d.op \notin Readers => unclear')
  <2>1. Changing => Busy
    BY DEF Changing, Busy
  <2> QED BY <2>1 DEF BeginsWith
<1>4. ASSUME NEW w \in Threads, ~unclear', Unwritten(call'[w])
      PROVE  Trusted \/ (~Cached /\ ~Busy)
  <2>1. CASE w = t
    <3>1. d.op \notin Readers
      BY <1>1, <1>4, <2>1 DEF Unwritten, Changer
    <3>2. ~StillStale
      BY <1>4, <3>1 DEF BeginsWith
    <3> QED BY <3>2 DEF StillStale, Trusted
  <2>2. CASE w # t
    <3>1. Unwritten(call[w]) /\ Changing
      BY <1>1, <1>4, <2>2 DEF Unwritten, Changer, Changing
    <3>2. d.op \in Readers
      BY <1>3, <1>4, <3>1
    <3>3. ~unclear
      BY <1>4, <3>2 DEF BeginsWith
    <3> QED BY <3>1, <3>3 DEF Trusted
  <2> QED BY <2>1, <2>2
<1>5. Trusted' => Trusted \/ (~Cached /\ ~Busy)
  <2>1. CASE ~stale'
    BY <1>2, <2>1 DEF Trusted
  <2>2. CASE ~unclear' /\ \E w \in Threads : Unwritten(call'[w])
    BY <1>4, <2>2
  <2> QED BY <2>1, <2>2 DEF Trusted
<1>6. Busy /\ stale => stale'
  BY DEF BeginsWith, StillStale
<1>7. ~unclear' => ~unclear \/ db.state = "gone"
  BY DEF BeginsWith, StillUnclear
<1> QED BY <1>1, <1>2, <1>3, <1>5, <1>6, <1>7 DEF BeginsWith

LEMMA BeginTyped ==
    ASSUME IInv, NEW t \in Threads, NEW d, BeginsWith(t, d)
    PROVE  Typed' /\ CallsShaped' /\ calls \in Nat /\ Given \subseteq Given'
           /\ GivenRecords \subseteq GivenRecords' /\ calls + 2 \notin Given /\ calls + 2 # 0
<1> USE DEF IInv
<1>1. calls \in Nat /\ calls + 2 \in Given' /\ Given \subseteq Given' /\ calls' \in 0 .. MaxCalls
      /\ calls + 2 \notin Given /\ calls + 2 # 0
  BY UserStoreAssumption DEF Typed, BeginsWith, Given
<1>2. GivenRecords \subseteq GivenRecords'
  BY <1>1 DEF GivenRecords
<1>3. Calls \subseteq Calls'
  BY <1>1, <1>2 DEF Calls
<1>4. d.token \in Given' \cup {0}
  BY <1>1 DEF BeginsWith, Starts
<1>5. d \in Calls'
  BY <1>4 DEF BeginsWith, Calls
<1>6. call' \in [Threads -> Calls']
  BY <1>3, <1>5 DEF BeginsWith, Typed
<1>7. unclear' \in BOOLEAN /\ stale' \in BOOLEAN
  BY DEF BeginsWith, Typed, StillStale, StillUnclear, Changing, Busy, Cached
<1>8. Typed'
  <2>1. /\ db' \in [state : DBStates, rec : GivenRecords' \cup {Nothing}]
        /\ db'.rec = Nothing <=> db'.state \in {"gone", "reserved"}
    BY <1>2 DEF BeginsWith, Typed
  <2>2. /\ userCache' \in [held : {"none", "expired", "live"}, rec : GivenRecords' \cup {Nothing}]
        /\ userCache'.rec = Nothing <=> userCache'.held = "none"
    BY <1>2 DEF BeginsWith, Typed
  <2>3. /\ tokenCache' \in [Tokens -> GlobusIDs \cup {"none"}]
        /\ globusCache' \in [GlobusIDs -> Tokens \cup {0}]
        /\ troubles' \in 0 .. MaxTroubles /\ retired' \subseteq Given' /\ left' \subseteq GlobusIDs
    BY <1>1 DEF BeginsWith, Typed
  <2> QED BY <1>1, <1>6, <1>7, <2>1, <2>2, <2>3 DEF Typed
<1>9. CallsShaped'
  <2> SUFFICES ASSUME NEW u \in Threads PROVE Shaped(call[u])'
    BY DEF CallsShaped
  <2>1. CASE u = t
    <3>1. call'[u] = d
      BY <2>1, BeginTrusts
    <3>2. d.op \in {"replace", "create", "findToken", "deleteSelf"} => d.token \in Given'
      BY <1>1 DEF BeginsWith, Starts
    <3>3. d.pc = "getUser" => d.op \in ByName
      BY DEF BeginsWith, Starts, ByName
    <3> QED BY <3>1, <3>2, <3>3 DEF BeginsWith, Starts, Shaped, Filling, Erasing
  <2>2. CASE u # t
    <3>1. call'[u] = call[u] /\ Shaped(call[u])
      BY <2>2, BeginTrusts DEF CallsShaped
    <3> QED BY <1>1, <1>2, <3>1 DEF Shaped, Changed
  <2> QED BY <2>1, <2>2
<1> QED BY <1>1, <1>2, <1>8, <1>9

LEMMA BeginStep == ASSUME IInv, NEW t \in Threads, NEW d, BeginsWith(t, d) PROVE IInv'
<1> USE DEF IInv
<1>1. /\ call'[t] = d /\ \A u \in Threads : u # t => call'[u] = call[u]
      /\ Trusted' => Trusted \/ (~Cached /\ ~Busy)
      /\ ~stale' => ~stale \/ (~Cached /\ ~Busy)
      /\ Changing => stale' /\ (d.op \notin Readers => unclear')
      /\ Busy /\ stale => stale'
      /\ d.op \notin Readers /\ Busy => stale'
      /\ d.op \in Readers => unclear' = unclear
      /\ ~unclear' => ~unclear \/ db.state = "gone"
  BY BeginTrusts
<1>2. /\ ~Active(t) /\ Starts(d)
      /\ UNCHANGED <<db, userCache, tokenCache, globusCache, troubles, retired, left>>
  BY DEF BeginsWith
<1>3. Typed' /\ CallsShaped' /\ calls \in Nat /\ calls + 2 \notin Given /\ calls + 2 # 0
  BY BeginTyped
<1>4. /\ d.pc \notin Filling \cup Erasing \cup {"reserve", "put", "found", "update", "idle"}
      /\ ~Rewriting(d) /\ ~Stores(d) /\ Erases(d)' /\ Knows(d)'
  <2>1. d.pc \in {"getUser", "scan", "findToken", "findGlobus"}
    BY <1>2 DEF Starts
  <2> QED BY <2>1 DEF Filling, Erasing, Rewriting, Stores, Erases, Knows
<1>5. \A u \in Threads : u # t /\ Changer(call[u]) => Changing
  BY DEF Changer, Changing
<1>6. \A u \in Threads : Active(u) => Busy
  BY DEF Busy
<1>7. CachesRight' = CachesRight /\ NoTokens' = NoTokens /\ Stored' = Stored
  BY <1>2 DEF CachesRight, UserRight, TokenRight, GlobusRight, Indexed, NoTokens, Stored
<1>8. MeetingsKnown'
  <2> SUFFICES ASSUME NEW u \in Threads, NEW v \in Threads, u # v, Active(v)', Changer(call'[u])
               PROVE  stale' /\ (Changer(call'[v]) => unclear')
    BY DEF MeetingsKnown
  <2>1. CASE u # t /\ v # t
    <3>1. call'[u] = call[u] /\ call'[v] = call[v] /\ Changing
      BY <1>1, <1>5, <2>1
    <3>2. stale' /\ (Changer(call[v]) => unclear)
      BY <1>1, <3>1 DEF MeetingsKnown
    <3> QED BY <1>1, <3>1, <3>2
  <2>2. CASE v = t
    <3>1. Changing
      BY <1>1, <1>5, <2>2
    <3> QED BY <1>1, <2>2, <3>1 DEF Changer
  <2>3. CASE u = t
    <3>1. call'[v] = call[v] /\ Busy /\ d.op \notin Readers
      BY <1>1, <1>6, <2>3 DEF Changer
    <3>2. Changer(call[v]) => Changing
      BY <1>5, <2>3
    <3> QED BY <1>1, <3>1, <3>2
  <2> QED BY <2>1, <2>2, <2>3
<1>9. RecordKnown'
  <2> SUFFICES ASSUME NEW u \in Threads, Active(u)', Sure(call[u])' PROVE Knows(call[u])'
    BY DEF RecordKnown
  <2>1. CASE u = t
    BY <1>1, <1>4, <2>1 DEF Knows
  <2>2. CASE u # t
    <3>1. call'[u] = call[u] /\ Active(u) /\ Busy
      BY <1>1, <1>6, <2>2
    <3>2. Sure(call[u])
      <4>1. CASE Changer(call[u])
        <5>1. stale' /\ ~unclear'
          BY <1>1, <1>5, <2>2, <3>1, <4>1 DEF Sure
        <5>2. ~unclear
          BY <1>1, <1>5, <2>2, <4>1, <5>1
        <5> QED BY <4>1, <5>2 DEF Sure
      <4>2. CASE ~Changer(call[u])
        BY <1>1, <3>1, <4>2 DEF Sure
      <4> QED BY <4>1, <4>2
    <3>3. Knows(call[u])
      BY <3>1, <3>2 DEF RecordKnown
    <3> QED BY <1>2, <3>1, <3>3 DEF Knows
  <2> QED BY <2>1, <2>2
<1>10. RecordShaped'
  <2>1. \A u \in Threads : At(u, "put") => call'[u].pc = "put"
    BY <1>1, <1>2, <1>3 DEF BeginsWith
  <2> QED BY <1>1, <1>2, <2>1 DEF RecordShaped
<1>11. ~Cached => CachesRight /\ NoTokens
  BY DEF Cached, CachesRight, UserRight, TokenRight, GlobusRight, NoTokens
<1>12. TrustedCaches'
  <2> SUFFICES ASSUME Trusted', \A u \in Threads : ~Rewriting(call'[u]) PROVE CachesRight
    BY <1>7 DEF TrustedCaches
  <2>1. \A u \in Threads : ~Rewriting(call[u])
    BY <1>1, <1>2 DEF Rewriting, Changer
  <2> QED BY <1>1, <1>11, <2>1 DEF TrustedCaches
<1>13. CachesKnown'
  <2> SUFFICES ASSUME ~stale'
               PROVE  /\ \A u \in Threads :
                            /\ Rewriting(call'[u]) => Rewrites(call[u])'
                            /\ Erases(call[u])'
                            /\ Stores(call'[u]) => Stored'
                      /\ KeysStored'
    BY DEF CachesKnown, Rewriting, Changer, Stores
  <2>1. CASE ~stale
    <3>1. KeysStored'
      <4>1. \A u \in Threads : Rewriting(call[u]) /\ At(u, "cacheUser") => call'[u] = call[u]
        BY <1>1, <1>2
      <4> QED BY <1>7, <2>1, <4>1 DEF CachesKnown, KeysStored
    <3>2. ASSUME NEW u \in Threads, u = t
          PROVE  ~Rewriting(call'[u]) /\ Erases(call[u])' /\ ~Stores(call'[u])
      BY <1>1, <1>4, <3>2 DEF Erases
    <3>3. ASSUME NEW u \in Threads, u # t
          PROVE  /\ Rewriting(call'[u]) => Rewrites(call[u])'
                 /\ Erases(call[u])'
                 /\ Stores(call'[u]) => Stored'
      <4>1. call'[u] = call[u] /\ (Rewriting(call[u]) => Rewrites(call[u])) /\ Erases(call[u])
            /\ (Stores(call[u]) => Stored)
        BY <1>1, <2>1, <3>3 DEF CachesKnown
      <4>2. Rewrites(call[u]) => Rewrites(call[u])'
        BY <1>2, <4>1 DEF Rewrites, UserRight, TokenRight
      <4>3. Erases(call[u]) => Erases(call[u])'
        BY <1>2, <4>1 DEF Erases, NoTokens, NoGlobus
      <4> QED BY <1>7, <4>1, <4>2, <4>3
    <3> QED BY <3>1, <3>2, <3>3
  <2>2. CASE ~Cached /\ ~Busy
    <3>1. KeysStored'
      BY <1>7, <1>11, <2>2 DEF KeysStored
    <3>2. ASSUME NEW u \in Threads
          PROVE  ~Rewriting(call'[u]) /\ Erases(call[u])' /\ ~Stores(call'[u])
      <4>1. CASE u = t
        BY <1>1, <1>4, <4>1 DEF Erases
      <4>2. CASE u # t
        BY <1>1, <1>6, <2>2, <4>2 DEF Rewriting, Changer, Erases, Stores
      <4> QED BY <4>1, <4>2
    <3> QED BY <3>1, <3>2
  <2> QED BY <1>1, <2>1, <2>2
<1>14. TokensFresh'
  <2> SUFFICES ASSUME ~unclear', NEW u \in Threads PROVE Fresh(call[u])'
    BY DEF TokensFresh
  <2>1. CASE u = t
    <3>1. db.rec.token \in Given \cup {0} /\ retired \subseteq Given
      BY <1>3, RecordFacts DEF Typed, GivenRecords
    <3>2. d.op \in {"create", "replace"} => d.token = calls + 2
      BY <1>2 DEF Starts
    <3> QED BY <1>1, <1>2, <1>3, <2>1, <3>1, <3>2 DEF Fresh
  <2>2. CASE u # t /\ Changer(call[u])
    <3>1. Fresh(call[u])
      BY <1>1, <1>5, <2>2 DEF TokensFresh
    <3> QED BY <1>1, <1>2, <2>2, <3>1 DEF Fresh
  <2>3. CASE u # t /\ ~Changer(call[u])
    BY <1>1, <2>3 DEF Fresh
  <2> QED BY <2>1, <2>2, <2>3
<1> QED BY <1>3, <1>8, <1>9, <1>10, <1>12, <1>13, <1>14

-----------------------------------------------------------------------------
LEMMA RestartStep == ASSUME IInv, Restart PROVE IInv'
<1> USE DEF IInv
<1>1. /\ call' = [t \in Threads |-> Idle]
      /\ userCache' = [held |-> "none", rec |-> Nothing]
      /\ tokenCache' = [k \in Tokens |-> "none"]
      /\ globusCache' = [g \in GlobusIDs |-> 0]
      /\ left' = {} /\ stale' = FALSE
      /\ unclear' = (unclear \/ \E t \in Threads : At(t, "put"))
      /\ UNCHANGED <<db, calls, retired>>
      /\ troubles < MaxTroubles /\ troubles' = troubles + 1
  BY DEF Restart, Trouble
<1>2. calls \in Nat /\ Given' = Given /\ GivenRecords' = GivenRecords /\ Calls' = Calls
      /\ troubles' \in 0 .. MaxTroubles /\ unclear' \in BOOLEAN
  BY <1>1, GivenStays, UserStoreAssumption DEF Typed
<1>3. /\ \A t \in Threads : call'[t] = Idle
      /\ Idle.pc = "idle" /\ Idle.op = "none" /\ Idle \in Calls /\ Shaped(Idle)'
      /\ ~Changer(Idle) /\ ~Unwritten(Idle) /\ ~Rewriting(Idle) /\ Erases(Idle)' /\ ~Stores(Idle)
  <2>1. Idle.pc = "idle" /\ Idle.op = "none" /\ Idle \in Calls
    BY <1>2, RecordFacts
  <2>2. Shaped(Idle)'
    BY <2>1 DEF Shaped, Filling, Erasing
  <2>3. ~Changer(Idle) /\ ~Unwritten(Idle) /\ ~Rewriting(Idle) /\ Erases(Idle)' /\ ~Stores(Idle)
    BY <2>1 DEF Changer, Unwritten, Rewriting, Erases, Stores
  <2> QED BY <1>1, <2>1, <2>2, <2>3
<1>4. Typed'
  BY <1>1, <1>2, <1>3 DEF Typed
<1>5. CallsShaped'
  BY <1>3 DEF CallsShaped, Shaped
<1>6. NoTokens' /\ CachesRight'
  BY <1>1 DEF NoTokens, CachesRight, UserRight, TokenRight, GlobusRight
<1>7. MeetingsKnown' /\ RecordKnown'
  BY <1>3 DEF MeetingsKnown, RecordKnown
<1>8. RecordShaped'
  BY <1>1 DEF RecordShaped
<1>9. TrustedCaches' /\ KeysStored'
  BY <1>6 DEF TrustedCaches, KeysStored
<1>10. CachesKnown'
  BY <1>3, <1>9 DEF CachesKnown, Erases
<1>11. TokensFresh'
  BY <1>3 DEF TokensFresh, Fresh
<1> QED BY <1>4, <1>5, <1>7, <1>8, <1>9, <1>10, <1>11

\* Entries that leave the caches disturb nothing.
LEMMA ExpireStep == ASSUME IInv, Expire PROVE IInv'
<1> USE DEF IInv
<1>1. UNCHANGED <<db, call, calls, troubles, retired, stale, unclear>>
  BY DEF Expire
<1>2. calls \in Nat /\ Given' = Given /\ GivenRecords' = GivenRecords /\ Calls' = Calls
  BY <1>1, GivenStays DEF Typed
<1>3. /\ userCache' \in [held : {"none", "expired", "live"}, rec : GivenRecords \cup {Nothing}]
      /\ userCache'.rec = userCache.rec
      /\ userCache'.held = "live" => userCache.held = "live"
      /\ userCache'.held = "none" <=> userCache.held = "none"
  BY DEF Expire, Typed
<1>4. /\ tokenCache' \in [Tokens -> GlobusIDs \cup {"none"}]
      /\ \A k \in Tokens : tokenCache'[k] # "none" => tokenCache'[k] = tokenCache[k]
  BY DEF Expire, Typed
<1>5. /\ globusCache' \in [GlobusIDs -> Tokens \cup {0}]
      /\ left' \subseteq GlobusIDs
      /\ \A g \in GlobusIDs : globusCache'[g] # 0 =>
            globusCache'[g] = globusCache[g] /\ (g \notin left' => g \notin left)
  BY DEF Expire, Typed
<1>6. Typed'
  BY <1>1, <1>2, <1>3, <1>4, <1>5 DEF Typed
<1>7. CallsShaped' /\ MeetingsKnown'
  <2>1. CallsShaped'
    BY <1>1, <1>2 DEF CallsShaped, Shaped, Changed
  <2>2. MeetingsKnown'
    BY <1>1 DEF MeetingsKnown
  <2> QED BY <2>1, <2>2
<1>8. Trusted' = Trusted
  BY <1>1 DEF Trusted
<1>9. \A t \in Threads : Sure(call[t])' = Sure(call[t]) /\ Knows(call[t])' = Knows(call[t])
                        /\ Fresh(call[t])' = Fresh(call[t])
  BY <1>1, <1>8 DEF Sure, Knows, Fresh
<1>10. RecordKnown' /\ RecordShaped' /\ TokensFresh'
  BY <1>1, <1>9 DEF RecordKnown, RecordShaped, TokensFresh
<1>11. /\ UserRight => UserRight'
       /\ TokenRight => TokenRight'
       /\ GlobusRight => GlobusRight'
  <2>1. UserRight => UserRight'
    BY <1>1, <1>3 DEF UserRight
  <2>2. TokenRight => TokenRight'
    BY <1>1, <1>4 DEF TokenRight
  <2>3. GlobusRight => GlobusRight'
    BY <1>1, <1>5 DEF GlobusRight, Indexed
  <2> QED BY <2>1, <2>2, <2>3
<1>12. TrustedCaches'
  BY <1>1, <1>8, <1>11 DEF TrustedCaches, CachesRight
<1>13. (NoTokens => NoTokens') /\ (NoGlobus => NoGlobus') /\ (Stored => Stored')
  BY <1>1, <1>3, <1>4, <1>5 DEF NoTokens, NoGlobus, Stored
<1>14. ASSUME NEW t \in Threads, Rewrites(call[t]) PROVE Rewrites(call[t])'
  BY <1>1, <1>4, <1>5, <1>11, <1>14 DEF Rewrites
<1>15. ASSUME NEW t \in Threads, Erases(call[t]) PROVE Erases(call[t])'
  BY <1>1, <1>3, <1>13, <1>15 DEF Erases
<1>16. KeysStored => KeysStored'
  BY <1>1, <1>13 DEF KeysStored
<1>17. CachesKnown'
  BY <1>1, <1>13, <1>14, <1>15, <1>16 DEF CachesKnown
<1> QED BY <1>6, <1>7, <1>10, <1>12, <1>17

LEMMA IInvInit == Init => IInv
<1> SUFFICES ASSUME Init PROVE IInv
  OBVIOUS
<1>1. calls = 0 /\ calls \in Nat /\ Given = {1}
  BY DEF Init, Given
<1>2. /\ \A t \in Threads : call[t] = Idle
      /\ Idle.pc = "idle" /\ Idle.op = "none" /\ Idle \in Calls
      /\ ~Changer(Idle) /\ ~Unwritten(Idle) /\ ~Rewriting(Idle) /\ Erases(Idle) /\ ~Stores(Idle)
  <2>1. Idle.pc = "idle" /\ Idle.op = "none" /\ Idle \in Calls
    BY <1>1, RecordFacts
  <2> QED BY <2>1 DEF Init, Changer, Unwritten, Rewriting, Erases, Stores
<1>3. /\ db \in [state : DBStates, rec : GivenRecords \cup {Nothing}]
      /\ db.rec = Nothing <=> db.state \in {"gone", "reserved"}
      /\ db.state \in {"gone", "whole"}
  <2>1. CASE db = [state |-> "gone", rec |-> Nothing]
    BY <2>1 DEF DBStates
  <2>2. ASSUME NEW g \in GlobusIDs,
               db = [state |-> "whole", rec |-> [token |-> 1, globus |-> g]]
        PROVE  /\ db \in [state : DBStates, rec : GivenRecords \cup {Nothing}]
               /\ db.rec # Nothing /\ db.state = "whole"
    <3>1. [token |-> 1, globus |-> g] \in GivenRecords
      BY <1>1 DEF GivenRecords
    <3>2. [token |-> 1, globus |-> g] # Nothing
      BY DEF Nothing
    <3> QED BY <2>2, <3>1, <3>2 DEF DBStates
  <2> QED BY <2>1, <2>2 DEF Init
<1>4. Typed
  <2>1. /\ userCache \in [held : {"none", "expired", "live"}, rec : GivenRecords \cup {Nothing}]
        /\ userCache.rec = Nothing <=> userCache.held = "none"
    BY DEF Init
  <2>2. call \in [Threads -> Calls] /\ calls \in 0 .. MaxCalls /\ troubles \in 0 .. MaxTroubles
    BY <1>2, UserStoreAssumption DEF Init
  <2>3. /\ tokenCache \in [Tokens -> GlobusIDs \cup {"none"}]
        /\ globusCache \in [GlobusIDs -> Tokens \cup {0}]
    BY DEF Init
  <2>4. retired \subseteq Given /\ left \subseteq GlobusIDs /\ stale \in BOOLEAN
        /\ unclear \in BOOLEAN
    BY DEF Init
  <2> QED BY <1>3, <2>1, <2>2, <2>3, <2>4 DEF Typed
<1>5. CallsShaped
  BY <1>2 DEF CallsShaped, Shaped, Filling, Erasing
<1>6. NoTokens /\ CachesRight
  BY DEF Init, NoTokens, CachesRight, UserRight, TokenRight, GlobusRight
<1>7. MeetingsKnown /\ RecordKnown /\ RecordShaped
  BY <1>2, <1>3 DEF MeetingsKnown, RecordKnown, RecordShaped
<1>8. TrustedCaches /\ KeysStored /\ TokensFresh
  BY <1>2, <1>6 DEF TrustedCaches, KeysStored, TokensFresh, Fresh
<1>9. CachesKnown
  BY <1>2, <1>8 DEF CachesKnown
<1> QED BY <1>4, <1>5, <1>7, <1>8, <1>9 DEF IInv

\* The records that are overwritten have been given.
LEMMA PastStays == ASSUME Inv, IInv', [Next]_vars PROVE PastGiven'
<1>1. past' \subseteq past \cup ({db.rec} \ {Nothing})
  <2>1. ASSUME NEW t \in Threads, Step(t) PROVE past' \subseteq past \cup ({db.rec} \ {Nothing})
    BY <2>1 DEF Step, GetUser, Proceed, FindToken, FindGlobus, Scan, CacheUser, DropToken,
       CacheToken, CacheGlobus, Update, NameInUse, Reserve, Put, FindCached, EraseToken,
       EraseGlobus, EraseUser, DeleteItem, Overwrite
  <2>2. ASSUME NEW t \in Threads, BeginAny(t) \/ Fail(t) \/ ReadsFormer(t) PROVE past' = past
    BY <2>2 DEF BeginAny, Begin, Fail, ReadsFormer
  <2>3. ASSUME Restart \/ Expire \/ UNCHANGED vars PROVE past' = past
    BY <2>3 DEF Restart, Expire
  <2> QED BY <2>1, <2>2, <2>3 DEF Next
<1>2. calls' \in Nat /\ calls \in Nat /\ calls' >= calls
  <2>1. calls' \in Nat /\ calls \in Nat
    BY DEF Inv, IInv, Typed
  <2>2. ASSUME NEW t \in Threads, Step(t) PROVE calls' = calls
    BY <2>2 DEF Step, GetUser, Proceed, FindToken, FindGlobus, Scan, CacheUser, DropToken,
       CacheToken, CacheGlobus, Update, NameInUse, Reserve, Put, FindCached, EraseToken,
       EraseGlobus, EraseUser, DeleteItem
  <2>3. ASSUME NEW t \in Threads, BeginAny(t) PROVE calls' = calls + 1
    BY <2>3 DEF BeginAny, Begin
  <2>4. ASSUME NEW t \in Threads, Fail(t) \/ ReadsFormer(t) PROVE calls' = calls
    BY <2>4 DEF Fail, ReadsFormer
  <2>5. ASSUME Restart \/ Expire \/ UNCHANGED vars PROVE calls' = calls
    BY <2>5 DEF Restart, Expire
  <2> QED BY <2>1, <2>2, <2>3, <2>4, <2>5 DEF Next
<1>3. GivenRecords \subseteq GivenRecords'
  BY <1>2 DEF GivenRecords, Given
<1>4. {db.rec} \ {Nothing} \subseteq GivenRecords
  BY DEF Inv, IInv, Typed
<1> QED BY <1>1, <1>3, <1>4 DEF PastGiven, Inv

LEMMA InvInit == Init => Inv
BY IInvInit DEF Init, Inv, PastGiven

LEMMA IInvNext == Inv /\ [Next]_vars => IInv'
<1> SUFFICES ASSUME Inv, [Next]_vars PROVE IInv'
  OBVIOUS
<1>0. IInv
  BY DEF Inv
<1> USE <1>0
<1>1. ASSUME NEW t \in Threads, BeginAny(t) PROVE IInv'
  BY <1>1, BeginAnyBegins, BeginStep
<1>2. ASSUME NEW t \in Threads, Step(t) PROVE IInv'
  BY <1>2, GetUserStep, ProceedStep, FindTokenStep, FindGlobusStep, ScanStep, CacheUserStep,
     DropTokenStep, CacheTokenStep, CacheGlobusStep, UpdateStep, NameInUseStep, ReserveStep,
     PutStep, FindCachedStep, EraseTokenStep, EraseGlobusStep, EraseUserStep, DeleteItemStep
     DEF Step
<1>3. ASSUME NEW t \in Threads, Fail(t) PROVE IInv'
  BY <1>3, FailStep
<1>7. ASSUME NEW t \in Threads, ReadsFormer(t) PROVE IInv'
  BY <1>7, ReadsFormerStep
<1>4. CASE Restart
  BY <1>4, RestartStep
<1>5. CASE Expire
  BY <1>5, ExpireStep
<1>6. CASE UNCHANGED vars
  <2>1. Given' = Given /\ GivenRecords' = GivenRecords /\ Calls' = Calls
    BY <1>6, GivenStays
  <2>2. Trusted' = Trusted /\ UserRight' = UserRight /\ TokenRight' = TokenRight
        /\ GlobusRight' = GlobusRight /\ NoTokens' = NoTokens /\ NoGlobus' = NoGlobus
        /\ Stored' = Stored
    BY <1>6 DEF Trusted, UserRight, TokenRight, GlobusRight, Indexed, NoTokens, NoGlobus, Stored
  <2>3. Typed' /\ CallsShaped' /\ MeetingsKnown'
    BY <1>6, <2>1 DEF IInv, Typed, CallsShaped, Shaped, Changed, MeetingsKnown
  <2>4. RecordKnown' /\ RecordShaped' /\ TrustedCaches' /\ TokensFresh'
    BY <1>6, <2>2 DEF IInv, RecordKnown, Sure, Knows, RecordShaped, TrustedCaches, CachesRight,
       TokensFresh, Fresh
  <2>5. CachesKnown'
    BY <1>6, <2>2 DEF IInv, CachesKnown, KeysStored, Rewrites, Erases
  <2> QED BY <2>3, <2>4, <2>5 DEF IInv
<1> QED BY <1>1, <1>2, <1>3, <1>4, <1>5, <1>6, <1>7 DEF Next

LEMMA InvNext == Inv /\ [Next]_vars => Inv'
BY IInvNext, PastStays DEF Inv

-----------------------------------------------------------------------------
\* The types, whatever the threads do (PersistentStore.cpp:714-1036).
THEOREM TypeCorrect == Spec => []TypeOK
<1>1. Inv => TypeOK
  <2> SUFFICES ASSUME IInv, PastGiven PROVE TypeOK
    BY DEF Inv
  <2>1. Given \subseteq Tokens /\ GivenRecords \subseteq Records
    BY TokensGiven DEF IInv, Typed
  <2>2. /\ db \in [state : DBStates, rec : Records \cup {Nothing}]
        /\ userCache \in [held : {"none", "expired", "live"}, rec : Records \cup {Nothing}]
    BY <2>1 DEF IInv, Typed
  <2>3. ASSUME NEW t \in Threads
        PROVE  /\ call[t].op \in Ops \cup {"none"}
               /\ call[t].token \in Tokens \cup {0} /\ call[t].globus \in GlobusIDs \cup {"none"}
               /\ call[t].old \in Records \cup {Nothing} /\ call[t].new \in Records \cup {Nothing}
    <3>1. call[t] \in Calls
      BY DEF IInv, Typed
    <3> QED BY <2>1, <3>1 DEF Calls
  <2> QED BY <2>1, <2>2, <2>3 DEF TypeOK, IInv, Typed, PastGiven
<1> QED BY <1>1, InvInit, InvNext, PTL DEF Spec

LEMMA WholeBetweenCalls == IInv => RecordsWhole
<1> SUFFICES ASSUME IInv, ~unclear, ~Changing PROVE db.state \in {"gone", "whole"}
  BY DEF RecordsWhole
<1>1. \A t \in Threads : ~At(t, "put")
  BY DEF IInv, CallsShaped, Shaped, Changing, Readers
<1> QED BY <1>1 DEF IInv, RecordShaped

\* Between calls there is no half-written item, unless changes have met or one
\* was misled by a stale or outdated record (PersistentStore.cpp:714-749,
\* 906-928).
THEOREM RecordsStayWhole == Spec => []RecordsWhole
<1>1. Inv => RecordsWhole
  BY WholeBetweenCalls DEF Inv
<1> QED BY <1>1, InvInit, InvNext, PTL DEF Spec

\* Between calls the three caches agree with the database, unless calls have met
\* or an outdated read was cached (PersistentStore.cpp:932-941, 946-966).
THEOREM CachesCoherent == Spec => []CachesAgree
<1>1. IInv => CachesAgree
  <2> SUFFICES ASSUME IInv, ~stale, ~unclear, ~Changing
               PROVE  /\ UserRight /\ TokenRight
                      /\ \A g \in GlobusIDs \ left : globusCache[g] # 0 =>
                            db.state = "whole" /\ db.rec = [token |-> globusCache[g], globus |-> g]
    BY DEF CachesAgree, UserRight, TokenRight
  <2>1. \A t \in Threads : ~Rewriting(call[t])
    BY DEF Rewriting, Changer, Changing
  <2>2. CachesRight
    BY <2>1 DEF IInv, TrustedCaches, Trusted
  <2>3. Indexed => db.state = "whole"
    BY WholeBetweenCalls DEF RecordsWhole, Indexed
  <2> QED BY <2>2, <2>3 DEF CachesRight, GlobusRight
<1>2. Inv => IInv
  BY DEF Inv
<1> QED BY <1>1, <1>2, InvInit, InvNext, PTL DEF Spec

-----------------------------------------------------------------------------
\* The state of the abstract account, and what a step means to it.
Kept ==
    IF unclear THEN "unclear" ELSE IF db.state \in {"gone", "reserved"} THEN "none" ELSE "account"
Keeps == Promise!Next \/ UNCHANGED <<Kept, db.rec, retired>>

LEMMA LosesKeeps == ASSUME unclear', retired \subseteq retired' PROVE Keeps
BY DEF Keeps, Promise!Next, Promise!Lose

\* A step that leaves the record alone.
LEMMA SameKeeps ==
    ASSUME db' = db, retired' = retired, unclear => unclear', unclear \in BOOLEAN,
           unclear' \in BOOLEAN
    PROVE  Keeps
<1>1. CASE unclear'
  BY <1>1, LosesKeeps
<1>2. CASE ~unclear'
  <2>1. ~unclear
    BY <1>2
  <2> QED BY <1>2, <2>1 DEF Keeps, Kept
<1> QED BY <1>1, <1>2

LEMMA AccountFacts ==
    ASSUME IInv, ~unclear
    PROVE  /\ db.state = "whole" => /\ db.rec \in Records /\ db.rec.token # 0
                                    /\ Promise!Exists
           /\ db.state \in {"gone", "reserved"} => db.rec = Nothing
           /\ db.state = "reserved" => \E t \in Threads : At(t, "put")
           /\ db.state \in {"gone", "reserved", "whole"}
<1>1. GivenRecords \subseteq Records /\ Nothing \notin GivenRecords
  BY TokensGiven, RecordFacts DEF IInv, Typed
<1>2. db.state = "whole" => db.rec \in Records
  BY <1>1 DEF IInv, Typed
<1>3. db.rec \in Records => db.rec.token # 0
  BY DEF Records, Tokens
<1>4. db.rec \in Records <=> db.rec \in Promise!Records
  BY DEF Records, Promise!Records
<1>5. db.state = "whole" => Promise!Exists
  BY <1>2, <1>4 DEF Promise!Exists
<1> QED BY <1>2, <1>3, <1>5 DEF IInv, Typed, RecordShaped

LEMMA UpdateKeeps == ASSUME IInv, ~unclear, NEW t \in Threads, Update(t) PROVE Keeps
<1> DEFINE c == call[t]
<1>1. /\ c.pc = "update" /\ unclear' = unclear
      /\ db' = [state |-> IF db.state = "whole" THEN "whole" ELSE "partial", rec |-> c.new]
      /\ retired' = retired \cup ({db.rec.token} \ {0, c.new.token})
  BY DEF Update
<1>2. /\ Shaped(c) /\ db.state = "whole" /\ db.rec = c.old /\ calls \in Nat
      /\ c.op \in {"edit", "replace", "touch"} /\ c.old \in GivenRecords
      /\ c.new = Changed(c, c.old) /\ Changer(c)
  BY <1>1, WritingFacts DEF Knows, Shaped
<1>3. /\ c.new \in GivenRecords /\ (c.op = "replace" => c.new.token = c.token)
      /\ c.op = "replace" => c.new.globus = c.old.globus
      /\ c.op # "replace" => c.new.token = c.old.token
  BY <1>2, RecordFacts DEF Changed, GivenRecords, Shaped
<1>4. Promise!Exists /\ db.rec.token # 0
  BY <1>2, AccountFacts
<1>5. db'.rec \in Promise!Records
  BY <1>1, <1>3, TokensGiven DEF IInv, Typed, Records, Promise!Records
<1>6. db'.state = "whole" /\ db'.rec = c.new
  BY <1>1, <1>2
<1>7. CASE c.op = "replace"
  <2>1. c.token \notin retired \cup {db.rec.token}
    BY <1>1, <1>2, <1>7 DEF IInv, TokensFresh, Fresh, Rewriting, Filling
  <2>2. retired' = retired \cup {db.rec.token}
    BY <1>1, <1>3, <1>4, <1>7, <2>1
  <2>3. db'.rec.token \notin retired' /\ db'.rec.globus = db.rec.globus
    BY <1>2, <1>3, <1>6, <1>7, <2>1, <2>2
  <2>4. Promise!Replace
    BY <1>1, <1>2, <1>4, <1>5, <1>6, <2>2, <2>3 DEF Promise!Replace
  <2> QED BY <2>4 DEF Keeps, Promise!Next
<1>8. CASE c.op # "replace"
  <2>1. db'.rec.token = db.rec.token
    BY <1>2, <1>3, <1>6, <1>8
  <2>2. retired' = retired
    BY <1>1, <1>6, <2>1
  <2>3. Promise!Edit
    BY <1>1, <1>2, <1>4, <1>5, <1>6, <2>1, <2>2 DEF Promise!Edit
  <2> QED BY <2>3 DEF Keeps, Promise!Next
<1> QED BY <1>7, <1>8

LEMMA ReserveKeeps == ASSUME IInv, ~unclear, NEW t \in Threads, Reserve(t) PROVE Keeps
<1>1. db' = [state |-> "reserved", rec |-> Nothing] /\ retired' = retired /\ unclear' = unclear
      /\ call[t].pc = "reserve"
  BY DEF Reserve
<1>2. db.state = "gone"
  BY <1>1, WritingFacts DEF Knows
<1>3. db.rec = Nothing
  BY <1>2, AccountFacts
<1> QED BY <1>1, <1>2, <1>3 DEF Keeps, Kept

LEMMA PutKeeps == ASSUME IInv, ~unclear, NEW t \in Threads, Put(t) PROVE Keeps
<1> DEFINE c == call[t]
<1>1. /\ c.pc = "put" /\ retired' = retired /\ unclear' = unclear
      /\ db' = [state |-> "whole", rec |-> [token |-> c.token, globus |-> c.globus]]
  BY DEF Put
<1>2. /\ db.state = "reserved" /\ c.op = "create" /\ c.token \in Given /\ c.globus \in GlobusIDs
      /\ Changer(c)
  BY <1>1, WritingFacts DEF Knows, Shaped
<1>3. c.token \notin retired
  BY <1>1, <1>2 DEF IInv, TokensFresh, Fresh, Rewriting, Filling
<1>4. db'.rec \in Promise!Records
  BY <1>1, <1>2, TokensGiven DEF IInv, Typed, Promise!Records
<1>5. Promise!Create
  BY <1>1, <1>2, <1>3, <1>4 DEF Promise!Create
<1> QED BY <1>5 DEF Keeps, Promise!Next

LEMMA DeleteItemKeeps == ASSUME IInv, ~unclear, NEW t \in Threads, DeleteItem(t) PROVE Keeps
<1>1. /\ call[t].pc = "deleteItem" /\ unclear' = unclear
      /\ db' = [state |-> "gone", rec |-> Nothing]
      /\ retired' = retired \cup ({db.rec.token} \ {0})
  BY DEF DeleteItem
<1>2. db.state # "reserved"
  <2> SUFFICES ASSUME NEW u \in Threads, At(u, "put") PROVE FALSE
    BY AccountFacts
  <2>1. u # t /\ Changer(call[t]) /\ Changer(call[u])
    BY <1>1, WritingFacts
  <2> QED BY <2>1, Alone DEF IInv
<1>3. CASE db.state = "whole"
  <2>1. Promise!Exists /\ db.rec.token # 0
    BY <1>3, AccountFacts
  <2>2. Promise!Delete
    BY <1>1, <2>1 DEF Promise!Delete
  <2> QED BY <2>2 DEF Keeps, Promise!Next
<1>4. CASE db.state = "gone"
  <2>1. db.rec = Nothing /\ Nothing.token = 0
    BY <1>4, AccountFacts DEF Nothing
  <2>2. retired' = retired /\ db'.rec = db.rec
    BY <1>1, <2>1
  <2> QED BY <1>1, <1>4, <2>2 DEF Keeps, Kept
<1> QED BY <1>2, <1>3, <1>4, AccountFacts

LEMMA BeginKeeps == ASSUME IInv, NEW t \in Threads, NEW d, BeginsWith(t, d) PROVE Keeps
<1>1. db' = db /\ retired' = retired
  BY DEF BeginsWith
<1>2. unclear \in BOOLEAN /\ unclear' \in BOOLEAN
  BY BeginTyped DEF IInv, Typed
<1>3. ~unclear' => ~unclear \/ db.state = "gone"
  BY BeginTrusts
<1>4. CASE unclear => unclear'
  BY <1>1, <1>2, <1>4, SameKeeps
<1>5. CASE unclear /\ ~unclear'
  <2>1. Promise!Recover
    BY <1>1, <1>3, <1>5 DEF Promise!Recover
  <2> QED BY <2>1 DEF Keeps, Promise!Next
<1> QED BY <1>4, <1>5

LEMMA StepKeeps == ASSUME IInv, IInv', NEW t \in Threads, Step(t) PROVE Keeps
<1>1. unclear \in BOOLEAN /\ unclear' \in BOOLEAN
  BY DEF IInv, Typed
<1>2. CASE Update(t) \/ Reserve(t) \/ Put(t) \/ DeleteItem(t)
  <2>1. CASE unclear
    <3>1. unclear' /\ retired \subseteq retired'
      BY <1>2, <2>1 DEF Update, Reserve, Put, DeleteItem
    <3> QED BY <3>1, LosesKeeps
  <2>2. CASE ~unclear
    BY <1>2, <2>2, UpdateKeeps, ReserveKeeps, PutKeeps, DeleteItemKeeps
  <2> QED BY <2>1, <2>2
<1>3. CASE ~(Update(t) \/ Reserve(t) \/ Put(t) \/ DeleteItem(t))
  <2>1. db' = db /\ retired' = retired /\ unclear' = unclear
    BY <1>3 DEF Step, GetUser, Proceed, FindToken, FindGlobus, Scan, CacheUser, DropToken,
       CacheToken, CacheGlobus, NameInUse, FindCached, EraseToken, EraseGlobus, EraseUser
  <2> QED BY <1>1, <2>1, SameKeeps
<1> QED BY <1>2, <1>3

\* The handlers keep the promise of Account: no update is lost and no replaced
\* token comes back, unless changes meet or one of them acts on a stale or
\* outdated record (UserCommands.cpp:591, 1234-1236, 1270-1273).
THEOREM KeepsPromise == Spec => AccountSpec
<1>1. ASSUME Init PROVE Promise!Init
  <2>1. IInv
    BY <1>1, IInvInit
  <2>2. db.state \in {"gone", "whole"} /\ ~unclear /\ retired = {}
    BY <1>1 DEF Init
  <2>3. db.state = "whole" => Promise!Exists
    BY <2>1, <2>2, AccountFacts
  <2> QED BY <2>2, <2>3 DEF Promise!Init
<1>2. ASSUME IInv, IInv', [Next]_vars
      PROVE  [Promise!Next]_<<Kept, db.rec, retired>>
  <2>1. unclear \in BOOLEAN /\ unclear' \in BOOLEAN
    BY <1>2 DEF IInv, Typed
  <2>2. ASSUME NEW t \in Threads, BeginAny(t) PROVE Keeps
    BY <1>2, <2>2, BeginAnyBegins, BeginKeeps
  <2>3. ASSUME NEW t \in Threads, Step(t) PROVE Keeps
    BY <1>2, <2>3, StepKeeps
  <2>4. ASSUME NEW t \in Threads, Fail(t) \/ ReadsFormer(t) PROVE Keeps
    <3>1. db' = db /\ retired' = retired
      BY <2>4 DEF Fail, ReadsFormer
    <3>2. unclear => unclear'
      <4>1. CASE Fail(t)
        BY <4>1 DEF Fail
      <4>2. CASE ReadsFormer(t)
        <5>1. ASSUME NEW x \in BOOLEAN, unclear' = (unclear \/ x) PROVE unclear => unclear'
          BY <5>1
        <5> QED BY <4>2, <5>1 DEF ReadsFormer
      <4> QED BY <2>4, <4>1, <4>2
    <3> QED BY <2>1, <3>1, <3>2, SameKeeps
  <2>5. ASSUME Restart PROVE Keeps
    <3>1. db' = db /\ retired' = retired /\ (unclear => unclear')
      BY <2>5 DEF Restart
    <3> QED BY <2>1, <3>1, SameKeeps
  <2>6. ASSUME Expire PROVE Keeps
    <3>1. db' = db /\ retired' = retired /\ (unclear => unclear')
      BY <2>6 DEF Expire
    <3> QED BY <2>1, <3>1, SameKeeps
  <2>7. ASSUME UNCHANGED vars PROVE Keeps
    BY <2>1, <2>7, SameKeeps
  <2> QED BY <1>2, <2>2, <2>3, <2>4, <2>5, <2>6, <2>7 DEF Next, Keeps
<1>3. Promise!Init /\ [][Promise!Next]_<<Kept, db.rec, retired>> => AccountSpec
  BY DEF AccountSpec, Promise!Spec, Kept
<1>4. Inv => IInv
  BY DEF Inv
<1> QED BY <1>1, <1>2, <1>3, <1>4, InvInit, InvNext, PTL DEF Spec
=============================================================================
