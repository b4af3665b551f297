----------------------- MODULE UnixIDAllocation_proofs -----------------------
(***************************************************************************)
(* Theorems about UnixIDAllocation for every set of workers and names,     *)
(* every range of IDs and every set of requested IDs.                      *)
(***************************************************************************)
EXTENDS UnixIDScan, TLAPS

(***************************************************************************)
(* TypeOK is inductive: in particular the hint never leaves the range that *)
(* allocateUnixID hands out (PersistentStore.cpp:676-678).                 *)
(***************************************************************************)
LEMMA NextIDInRange == ASSUME NEW id \in IDRange PROVE NextID(id) \in IDRange
  BY RangeAssumption DEF NextID, IDRange

\* Every step preserves the types.
LEMMA TypeStep == ASSUME TypeOK, [Next]_vars PROVE TypeOK'
<1> USE RangeAssumption, RequestAssumption
<1> IDRange \subseteq AnyID /\ 0 \in AnyID /\ MinID \in IDRange
  BY DEF AnyID, IDRange
<1> Absent \in Record
  BY DEF Absent, Record
<1>1. ASSUME NEW w \in Workers, NEW n \in Names, NEW t \in Targets, Begin(w, n, t)
      PROVE  TypeOK'
  BY <1>1 DEF TypeOK, Begin, Goto, Working
<1>2. ASSUME NEW w \in Workers, CheckName(w) PROVE TypeOK'
  BY <1>2 DEF TypeOK, CheckName, Goto, Working, Resting, locals
<1>3. ASSUME NEW w \in Workers, ReadHint(w) PROVE TypeOK'
  BY <1>3 DEF TypeOK, ReadHint, HintReads, Goto, Working
<1>4. ASSUME NEW w \in Workers, CheckAvailability(w) PROVE TypeOK'
  BY <1>4 DEF TypeOK, CheckAvailability, Goto, Working, Resting, locals
<1>5. ASSUME NEW w \in Workers, Reserve(w) PROVE TypeOK'
  <2>1. NewHint(w) \in IDRange /\ Wanted(w) \in AnyID
    BY NextIDInRange DEF TypeOK, NewHint, Wanted, AnyID
  <2>2. \A f, c \in BOOLEAN : [id |-> Wanted(w), full |-> f, chosen |-> c] \in Record
    BY <2>1 DEF Record
  <2>3. (target[w] # 0) \in BOOLEAN /\ (NewHint(w) <= hint) \in BOOLEAN
    OBVIOUS
  <2>4. CASE hint = initial[w]
    <3>1. table' \in [Names -> Record] /\ hint' \in IDRange
      BY <1>5, <2>1, <2>2, <2>4 DEF TypeOK, Reserve
    <3>2. pc' \in [Workers -> Resting \cup Working]
      BY <1>5, <2>4 DEF TypeOK, Reserve, Goto, Working
    <3>3. lapped' \in BOOLEAN
      BY <1>5, <2>4 DEF Reserve
    <3> QED BY <1>5, <3>1, <3>2, <3>3 DEF TypeOK, Reserve, locals
  <2>5. CASE hint # initial[w]
    BY <1>5, <2>5 DEF TypeOK, Reserve, Goto, Working, locals
  <2> QED BY <2>4, <2>5
<1>6. ASSUME NEW w \in Workers, RereadSpecific(w) PROVE TypeOK'
  BY <1>6 DEF TypeOK, RereadSpecific, Goto, Working, locals
<1>7. ASSUME NEW w \in Workers, RereadOrdinary(w) PROVE TypeOK'
  <2>1. NextID(try[w]) \in IDRange /\ HintReads \subseteq IDRange
    BY NextIDInRange DEF TypeOK, HintReads
  <2> QED BY <1>7, <2>1 DEF TypeOK, RereadOrdinary, Goto, Working, Resting
<1>8. ASSUME NEW w \in Workers, PutRecord(w) PROVE TypeOK'
  <2>1. [id |-> Wanted(w), full |-> TRUE, chosen |-> target[w] # 0] \in Record
    BY DEF TypeOK, Wanted, Record, AnyID
  <2> QED BY <1>8, <2>1 DEF TypeOK, PutRecord, Goto, Resting, locals
<1>9. ASSUME NEW w \in Workers, ReserveRefused(w) PROVE TypeOK'
  BY <1>9 DEF TypeOK, ReserveRefused, Goto, Working, locals
<1>10. ASSUME NEW w \in Workers, CallFails(w) PROVE TypeOK'
  BY <1>10 DEF TypeOK, CallFails, Goto, Resting, locals
<1>11. CASE Crash
  BY <1>11 DEF TypeOK, Crash, Resting, locals
<1>12. ASSUME NEW n \in Names, Remove(n) PROVE TypeOK'
  BY <1>12 DEF TypeOK, Remove, locals
<1>13. ASSUME NEW n \in Names, PropagateRecord(n) PROVE TypeOK'
  <2>1. table[n].id \in AnyID
    BY DEF TypeOK, Record
  <2> QED BY <1>13, <2>1 DEF TypeOK, PropagateRecord, locals
<1>14. CASE PropagateHint
  BY <1>14 DEF TypeOK, PropagateHint, locals
<1>15. CASE UNCHANGED vars
  BY <1>15 DEF TypeOK, vars
<1> QED
  BY <1>1, <1>2, <1>3, <1>4, <1>5, <1>6, <1>7, <1>8, <1>9, <1>10, <1>11, <1>12,
     <1>13, <1>14, <1>15 DEF Next, Proceed

LEMMA InitTypes == Init => TypeOK
<1>1. MinID \in IDRange /\ 0 \in AnyID /\ 0 \in 0 .. MaxRequests
  BY RangeAssumption, RequestAssumption DEF IDRange, AnyID
<1>2. Absent \in Record
  BY <1>1 DEF Absent, Record
<1> QED BY <1>1, <1>2 DEF Init, TypeOK, Resting

\* TypeOK holds in every reachable state (the types of the calls' locals, of
\* the table and of the hint record in PersistentStore.cpp:581-758).
THEOREM TypeCorrect == Spec => []TypeOK
BY InitTypes, TypeStep, PTL DEF Spec

-----------------------------------------------------------------------------
(***************************************************************************)
(* Uniqueness of the IDs allocateUnixID chooses.  The invariant: as long   *)
(* as the hint has not wrapped around, every such ID, in the table or held *)
(* by a call between its reservation and its PutItem, is below the hint,   *)
(* and belongs to one record and one call.  The compare-and-set of the     *)
(* hint keeps it: a reservation that succeeds without wrapping takes an ID *)
(* at or above the hint and moves the hint past it.                        *)
(***************************************************************************)
Ordinary(n) == table[n].id # 0 /\ ~table[n].chosen
Holding(w) == pc[w] = "put" /\ target[w] = 0

BelowHint ==
  /\ \A n \in Names : Ordinary(n) => table[n].id < hint
  /\ \A w \in Workers : Holding(w) => try[w] < hint
RecordsDiffer ==
  \A m, n \in Names :
     Ordinary(m) /\ Ordinary(n) /\ table[m].id = table[n].id => m = n
HeldByOne ==
  \A v, w \in Workers :
     Holding(v) /\ Holding(w) /\ try[v] = try[w] => v = w
HeldForItsName ==
  \A w \in Workers, n \in Names :
     Holding(w) /\ Ordinary(n) /\ table[n].id = try[w] => name[w] = n

FirstLap == ~lapped => BelowHint /\ RecordsDiffer /\ HeldByOne /\ HeldForItsName

\* A step that changes no record, no local of a holding call and not the
\* hint, and adds no holding call, keeps the invariant.
LEMMA FirstLapFrame ==
  ASSUME TypeOK, FirstLap, UNCHANGED <<table, hint, lapped>>,
         \A w \in Workers : Holding(w)' =>
            Holding(w) /\ name'[w] = name[w] /\ try'[w] = try[w]
  PROVE  FirstLap'
  BY DEF FirstLap, BelowHint, RecordsDiffer, HeldByOne, HeldForItsName, Ordinary

\* Every step preserves FirstLap: a reservation that succeeds has compared the
\* hint with its candidate, so the ID it takes lies at or above the hint.
LEMMA FirstLapStep == ASSUME TypeOK, FirstLap, [Next]_vars PROVE FirstLap'
<1> USE RangeAssumption, RequestAssumption
<1>1. ASSUME NEW w \in Workers, NEW n \in Names, NEW t \in Targets, Begin(w, n, t)
      PROVE  FirstLap'
  <2>1. \A v \in Workers : Holding(v)' => v # w
    BY <1>1 DEF TypeOK, Begin, Goto, Holding
  <2> QED BY <1>1, <2>1, FirstLapFrame DEF TypeOK, Begin, Goto, Holding
<1>2. ASSUME NEW w \in Workers, CheckName(w) PROVE FirstLap'
  BY <1>2, FirstLapFrame DEF TypeOK, CheckName, Goto, Holding, locals
<1>3. ASSUME NEW w \in Workers, ReadHint(w) PROVE FirstLap'
  BY <1>3, FirstLapFrame DEF TypeOK, ReadHint, Goto, Holding
<1>4. ASSUME NEW w \in Workers, CheckAvailability(w) PROVE FirstLap'
  BY <1>4, FirstLapFrame DEF TypeOK, CheckAvailability, Goto, Holding, locals
<1>5. ASSUME NEW w \in Workers, Reserve(w) PROVE FirstLap'
  <2>1. CASE hint # initial[w]
    BY <1>5, <2>1, FirstLapFrame DEF TypeOK, Reserve, Goto, Holding, locals
  <2>2. CASE hint = initial[w] /\ target[w] # 0
    <3>1. /\ UNCHANGED <<hint, lapped, name, try, target>>
          /\ pc' = [pc EXCEPT ![w] = "put"]
          /\ table' = [table EXCEPT ![name[w]] =
                [id |-> Wanted(w), full |-> FALSE, chosen |-> TRUE]]
      BY <1>5, <2>2 DEF TypeOK, Reserve, Goto, NewHint, locals
    <3>2. \A v \in Workers : Holding(v)' => Holding(v)
      BY <2>2, <3>1 DEF TypeOK, Holding
    <3>3. \A n \in Names : Ordinary(n)' => Ordinary(n) /\ table'[n] = table[n]
      BY <3>1 DEF TypeOK, Ordinary
    <3> QED
      BY <3>1, <3>2, <3>3
      DEF FirstLap, BelowHint, RecordsDiffer, HeldByOne, HeldForItsName
  <2>3. CASE hint = initial[w] /\ target[w] = 0
    <3> SUFFICES ASSUME ~lapped'
                 PROVE  (BelowHint /\ RecordsDiffer /\ HeldByOne /\ HeldForItsName)'
      BY DEF FirstLap
    <3>1. /\ UNCHANGED <<name, try, target>>
          /\ pc' = [pc EXCEPT ![w] = "put"]
          /\ table' = [table EXCEPT ![name[w]] =
                [id |-> try[w], full |-> FALSE, chosen |-> FALSE]]
          /\ hint' = NextID(try[w])
          /\ ~lapped /\ ~(NextID(try[w]) <= hint)
      BY <1>5, <2>3 DEF TypeOK, Reserve, Goto, NewHint, Wanted, locals
    <3>2. try[w] \in Nat /\ hint \in Nat /\ hint <= try[w] /\ hint' = try[w] + 1
      BY <3>1 DEF TypeOK, NextID, IDRange
    <3>3. BelowHint /\ RecordsDiffer /\ HeldByOne /\ HeldForItsName
      BY <3>1 DEF FirstLap
    <3>4. \A v \in Workers : Holding(v)' => v = w \/ (Holding(v) /\ try[v] < hint)
      BY <3>1, <3>3 DEF TypeOK, Holding, BelowHint
    <3>5. \A n \in Names : Ordinary(n)' =>
             \/ n = name[w] /\ table'[n].id = try[w]
             \/ n # name[w] /\ Ordinary(n) /\ table'[n].id = table[n].id
                /\ table[n].id < hint
      BY <3>1, <3>3 DEF TypeOK, Ordinary, BelowHint
    <3>6. \A v \in Workers : try[v] \in Nat
      BY DEF TypeOK, IDRange
    <3>7. \A n \in Names : table[n].id \in Nat
      <4>1. AnyID \subseteq Nat
        BY DEF AnyID, IDRange
      <4>2. \A n \in Names : table[n].id \in AnyID
        BY DEF TypeOK, Record
      <4> QED BY <4>1, <4>2
    <3>8. BelowHint'
      BY <3>1, <3>2, <3>4, <3>5, <3>6, <3>7 DEF BelowHint
    <3>9. RecordsDiffer'
      BY <3>2, <3>3, <3>5, <3>7 DEF RecordsDiffer
    <3>10. HeldByOne'
      BY <3>1, <3>2, <3>3, <3>4, <3>6 DEF HeldByOne
    <3>11. HeldForItsName'
      BY <3>1, <3>2, <3>3, <3>4, <3>5, <3>6, <3>7 DEF HeldForItsName
    <3> QED BY <3>8, <3>9, <3>10, <3>11
  <2> QED BY <2>1, <2>2, <2>3
<1>6. ASSUME NEW w \in Workers, RereadSpecific(w) PROVE FirstLap'
  BY <1>6, FirstLapFrame DEF TypeOK, RereadSpecific, Goto, Holding, locals
<1>7. ASSUME NEW w \in Workers, RereadOrdinary(w) PROVE FirstLap'
  BY <1>7, FirstLapFrame DEF TypeOK, RereadOrdinary, Goto, Holding
<1>8. ASSUME NEW w \in Workers, PutRecord(w) PROVE FirstLap'
  <2>1. /\ UNCHANGED <<hint, lapped, name, try, target>>
        /\ pc' = [pc EXCEPT ![w] = "created"]
        /\ table' = [table EXCEPT ![name[w]] =
              [id |-> Wanted(w), full |-> TRUE, chosen |-> target[w] # 0]]
        /\ pc[w] = "put"
    BY <1>8 DEF PutRecord, Goto, locals
  <2>2. \A v \in Workers : Holding(v)' => Holding(v) /\ v # w
    BY <2>1 DEF TypeOK, Holding
  <2>3. \A n \in Names : Ordinary(n)' =>
           \/ n = name[w] /\ Holding(w) /\ table'[n].id = try[w]
           \/ n # name[w] /\ Ordinary(n) /\ table'[n].id = table[n].id
    BY <2>1 DEF TypeOK, Ordinary, Holding, Wanted
  <2> SUFFICES ASSUME ~lapped'
               PROVE  (BelowHint /\ RecordsDiffer /\ HeldByOne /\ HeldForItsName)'
    BY DEF FirstLap
  <2>4. BelowHint /\ RecordsDiffer /\ HeldByOne /\ HeldForItsName
    BY <2>1 DEF FirstLap
  <2>5. BelowHint'
    BY <2>1, <2>2, <2>3, <2>4 DEF BelowHint
  <2>6. RecordsDiffer'
    BY <2>1, <2>3, <2>4 DEF RecordsDiffer, HeldForItsName
  <2>7. HeldByOne'
    BY <2>1, <2>2, <2>4 DEF HeldByOne
  <2>8. HeldForItsName'
    BY <2>1, <2>2, <2>3, <2>4 DEF HeldForItsName, HeldByOne
  <2> QED BY <2>5, <2>6, <2>7, <2>8
<1>9. ASSUME NEW w \in Workers, ReserveRefused(w) PROVE FirstLap'
  BY <1>9, FirstLapFrame DEF TypeOK, ReserveRefused, Goto, Holding, locals
<1>10. ASSUME NEW w \in Workers, CallFails(w) PROVE FirstLap'
  BY <1>10, FirstLapFrame DEF TypeOK, CallFails, Goto, Holding, locals
<1>11. CASE Crash
  BY <1>11, FirstLapFrame DEF TypeOK, Crash, Holding, Working, locals
<1>12. ASSUME NEW n \in Names, Remove(n) PROVE FirstLap'
  <2>1. /\ UNCHANGED <<hint, lapped, name, try, target, pc>>
        /\ \A m \in Names : Ordinary(m)' => Ordinary(m) /\ table'[m] = table[m]
    BY <1>12 DEF TypeOK, Remove, Ordinary, Absent, locals
  <2> QED
    BY <2>1
    DEF FirstLap, BelowHint, RecordsDiffer, HeldByOne, HeldForItsName, Holding
<1>13. ASSUME NEW n \in Names, PropagateRecord(n) PROVE FirstLap'
  BY <1>13, FirstLapFrame DEF PropagateRecord, Holding, locals
<1>14. CASE PropagateHint
  BY <1>14, FirstLapFrame DEF PropagateHint, Holding, locals
<1>15. CASE UNCHANGED vars
  BY <1>15, FirstLapFrame DEF vars, Holding
<1> QED
  BY <1>1, <1>2, <1>3, <1>4, <1>5, <1>6, <1>7, <1>8, <1>9, <1>10, <1>11, <1>12,
     <1>13, <1>14, <1>15 DEF Next, Proceed

\* Two records share an ID that allocateUnixID chose for both only after the
\* hint has wrapped around the whole range (PersistentStore.cpp:669-697).
THEOREM OrdinaryUnique == Spec => []OrdinaryIDsUnique
<1>1. Init => FirstLap
  BY DEF Init, FirstLap, BelowHint, RecordsDiffer, HeldByOne, HeldForItsName,
         Ordinary, Holding, Absent
<1>2. FirstLap => OrdinaryIDsUnique
  BY DEF FirstLap, RecordsDiffer, Ordinary, OrdinaryIDsUnique, SameID
<1> QED BY <1>1, <1>2, TypeCorrect, FirstLapStep, PTL DEF Spec

-----------------------------------------------------------------------------
(***************************************************************************)
(* One call at a time on fresh reads.  The invariant follows the call: once *)
(* it has seen its name free the name stays free until it reserves, an ID   *)
(* it has seen available stays available until it reserves it, and what it  *)
(* has reserved is nobody else's until its PutItem.                         *)
(***************************************************************************)
Sequential == ~Lagging /\ \A v, w \in Workers : v = w

NameStaysFree == \A w \in Workers :
  pc[w] \in {"hint", "check", "reserve", "reread"} => table[name[w]].id = 0
WantedStaysFree == \A w \in Workers :
  pc[w] = "reserve" => \A n \in Names : table[n].id # Wanted(w)
ReservationIsOwn == \A w \in Workers :
  pc[w] = "put" =>
     /\ table[name[w]].id \in {0, Wanted(w)}
     /\ \A n \in Names : n # name[w] => table[n].id # Wanted(w)

SeqInv == IDsUnique /\ NameStaysFree /\ WantedStaysFree /\ ReservationIsOwn

\* The ID a call reserves is one of the table's IDs.
LEMMA WantedIsAnID ==
  ASSUME TypeOK, NEW w \in Workers PROVE Wanted(w) \in AnyID \ {0}
<1>1. try[w] \in IDRange /\ try[w] # 0
  BY RangeAssumption DEF TypeOK, IDRange
<1> QED BY <1>1 DEF TypeOK, Wanted, AnyID

\* A step that leaves the table alone, and moves calls no further than to
\* points where less is required of them, keeps the invariant.
LEMMA SeqFrame ==
  ASSUME TypeOK, SeqInv, UNCHANGED table,
         \A w \in Workers :
            \/ pc'[w] \in Resting \cup {"name"}
            \/ /\ pc'[w] \in {"hint", "check", "reread"}
               /\ pc[w] \in {"hint", "check", "reserve", "reread"}
               /\ name'[w] = name[w]
            \/ /\ pc'[w] = pc[w] /\ name'[w] = name[w]
               /\ target'[w] = target[w] /\ try'[w] = try[w]
  PROVE  SeqInv'
<1>1. IDsUnique'
  BY DEF SeqInv, IDsUnique, SameID
<1>2. NameStaysFree'
  BY DEF SeqInv, NameStaysFree, Resting
<1>3. WantedStaysFree'
  BY DEF SeqInv, WantedStaysFree, Resting, Wanted
<1>4. ReservationIsOwn'
  BY DEF SeqInv, ReservationIsOwn, Resting, Wanted
<1> QED BY <1>1, <1>2, <1>3, <1>4 DEF SeqInv

\* Every step of one worker on fresh reads preserves SeqInv.
LEMMA SeqStep ==
  ASSUME TypeOK, SeqInv, Sequential, [Next]_vars PROVE SeqInv'
<1>1. ASSUME NEW w \in Workers, NEW n \in Names, NEW t \in Targets, Begin(w, n, t)
      PROVE  SeqInv'
  BY <1>1, SeqFrame DEF TypeOK, Begin, Goto, Sequential
<1>2. ASSUME NEW w \in Workers, CheckName(w) PROVE SeqInv'
  <2>1. /\ UNCHANGED <<table, name, target, try>>
        /\ pc' = [pc EXCEPT ![w] =
              IF table[name[w]].id = 0 THEN "hint" ELSE "rejected"]
    BY <1>2 DEF CheckName, NameReads, Sequential, Goto, locals
  <2>2. CASE table[name[w]].id # 0
    BY <2>1, <2>2, SeqFrame DEF TypeOK, Resting, Sequential
  <2>3. CASE table[name[w]].id = 0
    <3>1. \A v \in Workers : v = w /\ pc'[v] = "hint"
      BY <2>1, <2>3 DEF TypeOK, Sequential
    <3>2. IDsUnique'
      BY <2>1 DEF SeqInv, IDsUnique, SameID
    <3> QED
      BY <2>1, <2>3, <3>1, <3>2
      DEF SeqInv, NameStaysFree, WantedStaysFree, ReservationIsOwn
  <2> QED BY <2>2, <2>3
<1>3. ASSUME NEW w \in Workers, ReadHint(w) PROVE SeqInv'
  BY <1>3, SeqFrame DEF TypeOK, ReadHint, Goto, Sequential
<1>4. ASSUME NEW w \in Workers, CheckAvailability(w) PROVE SeqInv'
  <2>1. CASE ~Available(Wanted(w))
    BY <1>4, <2>1, SeqFrame
    DEF TypeOK, CheckAvailability, Goto, Sequential, Resting, locals
  <2>2. CASE Available(Wanted(w))
    <3>1. /\ UNCHANGED <<table, name, target, try>>
          /\ pc[w] = "check" /\ pc' = [pc EXCEPT ![w] = "reserve"]
      BY <1>4, <2>2 DEF CheckAvailability, Goto, locals
    <3>2. \A n \in Names : table[n].id # Wanted(w)
      BY <2>2 DEF Available, Sequential
    <3> QED
      BY <3>1, <3>2
      DEF TypeOK, SeqInv, IDsUnique, SameID, NameStaysFree, WantedStaysFree,
          ReservationIsOwn, Wanted, Sequential
  <2> QED BY <2>1, <2>2
<1>5. ASSUME NEW w \in Workers, Reserve(w) PROVE SeqInv'
  <2>1. CASE hint # initial[w]
    BY <1>5, <2>1, SeqFrame DEF TypeOK, Reserve, Goto, Sequential, locals
  <2>2. CASE hint = initial[w]
    <3>1. /\ UNCHANGED <<name, target, try>> /\ Wanted(w)' = Wanted(w)
          /\ pc[w] = "reserve" /\ pc' = [pc EXCEPT ![w] = "put"]
          /\ table' = [table EXCEPT ![name[w]] =
                [id |-> Wanted(w), full |-> FALSE, chosen |-> target[w] # 0]]
      BY <1>5, <2>2 DEF Reserve, Goto, Wanted, locals
    <3>2. \A n \in Names : table[n].id # Wanted(w)
      BY <3>1 DEF SeqInv, WantedStaysFree
    <3>3. /\ table'[name[w]].id = Wanted(w)
          /\ \A n \in Names : n # name[w] => table'[n].id = table[n].id
      BY <3>1 DEF TypeOK
    <3>4. IDsUnique'
      BY <3>2, <3>3 DEF SeqInv, IDsUnique, SameID
    <3>5. \A v \in Workers : v = w /\ pc'[v] = "put"
      BY <3>1 DEF TypeOK, Sequential
    <3>6. ReservationIsOwn'
      BY <3>1, <3>2, <3>3, <3>5 DEF ReservationIsOwn
    <3> QED
      BY <3>4, <3>5, <3>6 DEF SeqInv, NameStaysFree, WantedStaysFree
  <2> QED BY <2>1, <2>2
<1>6. ASSUME NEW w \in Workers, RereadSpecific(w) PROVE SeqInv'
  BY <1>6, SeqFrame DEF TypeOK, RereadSpecific, Goto, Sequential, locals
<1>7. ASSUME NEW w \in Workers, RereadOrdinary(w) PROVE SeqInv'
  BY <1>7, SeqFrame DEF TypeOK, RereadOrdinary, Goto, Sequential, Resting
<1>8. ASSUME NEW w \in Workers, PutRecord(w) PROVE SeqInv'
  <2>1. /\ UNCHANGED <<name, target, try>> /\ Wanted(w)' = Wanted(w)
        /\ pc[w] = "put" /\ pc' = [pc EXCEPT ![w] = "created"]
        /\ table' = [table EXCEPT ![name[w]] =
              [id |-> Wanted(w), full |-> TRUE, chosen |-> target[w] # 0]]
    BY <1>8 DEF PutRecord, Goto, Wanted, locals
  <2>2. \A n \in Names : n # name[w] => table[n].id # Wanted(w)
    BY <2>1 DEF SeqInv, ReservationIsOwn
  <2>3. /\ table'[name[w]].id = Wanted(w)
        /\ \A n \in Names : n # name[w] => table'[n].id = table[n].id
    BY <2>1 DEF TypeOK
  <2>4. IDsUnique'
    BY <2>2, <2>3 DEF SeqInv, IDsUnique, SameID
  <2>5. \A v \in Workers : v = w /\ pc'[v] = "created"
    BY <2>1 DEF TypeOK, Sequential
  <2> QED
    BY <2>4, <2>5
    DEF SeqInv, NameStaysFree, WantedStaysFree, ReservationIsOwn
<1>9. ASSUME NEW w \in Workers, ReserveRefused(w) PROVE SeqInv'
  BY <1>9, SeqFrame DEF TypeOK, ReserveRefused, Goto, Sequential, locals
<1>10. ASSUME NEW w \in Workers, CallFails(w) PROVE SeqInv'
  BY <1>10, SeqFrame DEF TypeOK, CallFails, Goto, Sequential, Resting, locals
<1>11. CASE Crash
  BY <1>11, SeqFrame DEF TypeOK, Crash, Resting, locals
<1>12. ASSUME NEW n \in Names, Remove(n) PROVE SeqInv'
  <2>1. UNCHANGED <<pc, name, target, try>> /\ \A w \in Workers : Wanted(w)' = Wanted(w)
    BY <1>12 DEF Remove, Wanted, locals
  <2>2. \A m \in Names : table'[m].id = table[m].id \/ table'[m].id = 0
    BY <1>12 DEF TypeOK, Remove, Absent
  <2>3. \A w \in Workers : Wanted(w) # 0 /\ name[w] \in Names
    BY WantedIsAnID DEF TypeOK
  <2> QED
    BY <2>1, <2>2, <2>3
    DEF SeqInv, IDsUnique, SameID, NameStaysFree, WantedStaysFree, ReservationIsOwn
<1>13. ASSUME NEW n \in Names, PropagateRecord(n) PROVE SeqInv'
  BY <1>13 DEF PropagateRecord, Sequential
<1>14. CASE PropagateHint
  BY <1>14 DEF PropagateHint, Sequential
<1>15. CASE UNCHANGED vars
  BY <1>15, SeqFrame DEF vars
<1> QED
  BY <1>1, <1>2, <1>3, <1>4, <1>5, <1>6, <1>7, <1>8, <1>9, <1>10, <1>11, <1>12,
     <1>13, <1>14, <1>15 DEF Next, Proceed

\* SeqInv holds in the empty table.
LEMMA SeqInit == Init => SeqInv
  BY DEF Init, SeqInv, IDsUnique, SameID, NameStaysFree, WantedStaysFree,
         ReservationIsOwn, Absent

\* With one call at a time on fresh reads no two records share an ID, with
\* requested IDs, deletions and any number of turns around the range
\* (PersistentStore.cpp:599-712).
THEOREM SequentialUnique ==
  ASSUME Sequential PROVE Spec => []IDsUnique
<1>1. SeqInv => IDsUnique
  BY DEF SeqInv
<1> QED BY <1>1, SeqInit, SeqStep, TypeCorrect, PTL DEF Spec

-----------------------------------------------------------------------------
\* Every step of the sequential allocation is a step of the registry.
LEMMA RegistryStep ==
  ASSUME TypeOK, SeqInv, Sequential, [Next]_vars
  PROVE  [Registry!Next]_([n \in Names |-> table[n].id])
<1> DEFINE assigned == [n \in Names |-> table[n].id]
<1>1. ASSUME NEW w \in Workers, NEW f, NEW c,
             table' = [table EXCEPT ![name[w]] =
                         [id |-> Wanted(w), full |-> f, chosen |-> c]],
             table[name[w]].id \in {0, Wanted(w)},
             \A n \in Names : n # name[w] => table[n].id # Wanted(w)
      PROVE  [Registry!Next]_assigned
  <2>1. name[w] \in Names /\ Wanted(w) \in AnyID \ {0}
    BY WantedIsAnID DEF TypeOK
  <2>2. assigned' = [assigned EXCEPT ![name[w]] = Wanted(w)]
    BY <1>1, <2>1 DEF TypeOK, Record
  <2>3. CASE table[name[w]].id = Wanted(w)
    BY <2>1, <2>2, <2>3
  <2>4. CASE table[name[w]].id = 0
    <3>1. assigned[name[w]] = 0 /\ \A m \in Names : assigned[m] # Wanted(w)
      BY <1>1, <2>1, <2>4
    <3> QED BY <2>1, <2>2, <3>1 DEF Registry!Next, Registry!Assign
  <2> QED BY <1>1, <2>3, <2>4
<1>2. ASSUME NEW w \in Workers, Reserve(w) PROVE [Registry!Next]_assigned
  <2>1. CASE hint # initial[w]
    BY <1>2, <2>1 DEF Reserve
  <2>2. CASE hint = initial[w]
    <3>1. table[name[w]].id = 0 /\ \A n \in Names : table[n].id # Wanted(w)
      BY <1>2 DEF Reserve, SeqInv, NameStaysFree, WantedStaysFree
    <3>2. table' = [table EXCEPT ![name[w]] =
             [id |-> Wanted(w), full |-> FALSE, chosen |-> target[w] # 0]]
      BY <1>2, <2>2 DEF Reserve
    <3> QED BY <1>1, <3>1, <3>2
  <2> QED BY <2>1, <2>2
<1>3. ASSUME NEW w \in Workers, PutRecord(w) PROVE [Registry!Next]_assigned
  <2>1. /\ table[name[w]].id \in {0, Wanted(w)}
        /\ \A n \in Names : n # name[w] => table[n].id # Wanted(w)
    BY <1>3 DEF PutRecord, SeqInv, ReservationIsOwn
  <2>2. table' = [table EXCEPT ![name[w]] =
           [id |-> Wanted(w), full |-> TRUE, chosen |-> target[w] # 0]]
    BY <1>3 DEF PutRecord
  <2> QED BY <1>1, <2>1, <2>2
<1>4. ASSUME NEW n \in Names, Remove(n) PROVE [Registry!Next]_assigned
  <2>1. assigned' = [assigned EXCEPT ![n] = 0] /\ assigned[n] # 0
    BY <1>4 DEF TypeOK, Remove, Absent
  <2>2. Registry!Release(n)
    BY <2>1 DEF Registry!Release
  <2> QED BY <2>2 DEF Registry!Next
<1>5. CASE UNCHANGED table
  BY <1>5
<1> QED
  BY <1>2, <1>3, <1>4, <1>5
  DEF Next, Proceed, Begin, CheckName, ReadHint, CheckAvailability,
      RereadSpecific, RereadOrdinary, ReserveRefused, CallFails, Crash,
      PropagateRecord, PropagateHint, vars

\* One call at a time on fresh reads, the allocation implements the registry:
\* a record gets an ID once, an ID nobody has, and keeps it until it is
\* deleted (PersistentStore.cpp:669-745).
THEOREM SequentialImplementsRegistry ==
  ASSUME Sequential PROVE Spec => RegistrySpec
<1>1. Init => Registry!Init
  BY DEF Init, Registry!Init, Absent
<1>2. TypeOK /\ SeqInv /\ [Next]_vars => [Registry!Next]_([n \in Names |-> table[n].id])
  BY RegistryStep
<1> QED
  BY <1>1, <1>2, SeqInit, SeqStep, TypeCorrect, PTL DEF Spec, RegistrySpec, Registry!Spec

-----------------------------------------------------------------------------
(***************************************************************************)
(* Exhaustion.  The invariant: of the IDs that have been free since the    *)
(* call began its scan, none is among the candidates between the first one *)
(* and the present one, which the scan has left behind.                    *)
(***************************************************************************)
\* id is from first on, and before last, in the order of NextID.
Between(first, last, id) ==
    IF first <= last THEN first <= id /\ id < last ELSE first <= id \/ id < last

FreeIsFree ==
    /\ freeThroughout \in [Workers -> SUBSET IDRange]
    /\ \A w \in Workers : freeThroughout[w] \subseteq FreeIDs

\* What is left of the free IDs when worker w has come to where it is.
LeftBehind(w) ==
    /\ pc[w] \in {"check", "reserve", "reread"} /\ target[w] = 0 =>
          \A id \in freeThroughout[w] :
             ~Between(initial[w], try[w], id) /\ (pc[w] = "reread" => id # try[w])
    /\ pc[w] = "exhausted" => freeThroughout[w] = {}

ScanInv == FreeIsFree /\ \A w \in Workers : LeftBehind(w)

\* The candidate is added at the end, until the scan is back where it began.
LEMMA BetweenNext ==
    ASSUME NEW first \in IDRange, NEW last \in IDRange, NEW id \in IDRange, id # last,
           ~Between(first, last, id)
    PROVE  NextID(last) # first /\ ~Between(first, NextID(last), id)
<1>1. /\ first \in Nat /\ last \in Nat /\ id \in Nat /\ MinID <= first /\ MinID <= last
      /\ MinID <= id /\ first < MaxID /\ last < MaxID /\ id < MaxID
  BY RangeAssumption DEF IDRange
<1>2. CASE last + 1 = MaxID
  BY <1>1, <1>2, RangeAssumption DEF NextID, Between
<1>3. CASE last + 1 # MaxID
  BY <1>1, <1>3, RangeAssumption DEF NextID, Between
<1> QED BY <1>2, <1>3

LEMMA BetweenNone ==
    ASSUME NEW first \in IDRange, NEW id \in IDRange PROVE ~Between(first, first, id)
BY RangeAssumption DEF IDRange, Between

LEMMA FreeStep ==
    ASSUME TypeOK, ScanInv, ScanNext
    PROVE  /\ FreeIsFree'
           /\ \A w \in Workers :
                 /\ pc[w] # "hint" => freeThroughout'[w] \subseteq freeThroughout[w] \ PassedOver(w)
                 /\ freeThroughout'[w] \subseteq FreeIDs'
<1>1. freeThroughout' = [w \in Workers |->
          IF pc[w] = "hint" THEN FreeIDs'
          ELSE (freeThroughout[w] \ PassedOver(w)) \cap FreeIDs']
  BY DEF ScanNext
<1>2. FreeIDs' \subseteq IDRange
  BY DEF FreeIDs
<1> QED BY <1>1, <1>2 DEF FreeIsFree, ScanInv

\* A step of another worker, or of none, leaves less behind, if anything.
LEMMA OthersLeave ==
    ASSUME TypeOK, ScanInv, ScanNext, NEW w \in Workers, pc'[w] = pc[w],
           target'[w] = target[w], initial'[w] = initial[w], try'[w] = try[w]
    PROVE  LeftBehind(w)'
<1>1. CASE pc[w] = "hint"
  BY <1>1 DEF LeftBehind
<1>2. CASE pc[w] # "hint"
  <2>1. freeThroughout'[w] \subseteq freeThroughout[w]
    BY <1>2, FreeStep
  <2> QED BY <2>1 DEF LeftBehind, ScanInv
<1> QED BY <1>1, <1>2

\* A worker that is not scanning has nothing to say.
LEMMA NotScanning ==
    ASSUME NEW w \in Workers, pc'[w] \notin {"check", "reserve", "reread", "exhausted"}
    PROVE  LeftBehind(w)'
BY DEF LeftBehind

LEMMA OwnStep ==
    ASSUME TypeOK, TypeOK', ScanInv, ScanNext, ~Lagging, NEW w \in Workers,
           Proceed(w) \/ ReserveRefused(w)
    PROVE  LeftBehind(w)'
<1>1. /\ pc[w] # "hint" => freeThroughout'[w] \subseteq freeThroughout[w] \ PassedOver(w)
      /\ freeThroughout'[w] \subseteq FreeIDs' /\ freeThroughout'[w] \subseteq IDRange
      /\ initial[w] \in IDRange /\ try[w] \in IDRange
      /\ initial'[w] \in IDRange /\ try'[w] \in IDRange
      /\ LeftBehind(w)
  BY FreeStep DEF FreeIsFree, TypeOK, ScanInv
<1>2. CASE CheckName(w)
  BY <1>2, NotScanning DEF CheckName, Goto, TypeOK
<1>3. CASE ReadHint(w)
  <2>1. pc'[w] = "check" /\ initial'[w] = try'[w]
    BY <1>3 DEF ReadHint, Goto, TypeOK
  <2>2. \A id \in freeThroughout'[w] : ~Between(initial'[w], try'[w], id)
    BY <1>1, <2>1, BetweenNone
  <2> QED BY <2>1, <2>2 DEF LeftBehind
<1>4. CASE CheckAvailability(w)
  <2>1. pc[w] = "check" /\ UNCHANGED <<target, initial, try, table>>
    BY <1>4 DEF CheckAvailability, locals
  <2>2. CASE pc'[w] = "reserve"
    BY <1>1, <2>1, <2>2 DEF LeftBehind
  <2>3. CASE pc'[w] = "rejected"
    BY <2>3, NotScanning
  <2>4. CASE pc'[w] = "reread" /\ target[w] = 0 /\ ~Available(try[w])
    <3>1. try[w] \notin FreeIDs'
      BY <2>1, <2>4 DEF Available, FreeIDs
    <3> QED BY <1>1, <2>1, <2>4, <3>1 DEF LeftBehind
  <2>5. CASE target[w] # 0 /\ pc'[w] # "exhausted"
    BY <2>1, <2>5 DEF LeftBehind
  <2> QED BY <1>4, <2>2, <2>3, <2>4, <2>5 DEF CheckAvailability, Goto, TypeOK, Wanted
<1>5. CASE Reserve(w) \/ ReserveRefused(w)
  <2>1. pc[w] = "reserve" /\ pc'[w] \in {"put", "reread"} /\ UNCHANGED <<target, initial, try>>
    BY <1>5 DEF Reserve, ReserveRefused, locals, Goto, TypeOK
  <2>2. CASE pc'[w] = "put"
    BY <2>2, NotScanning
  <2>3. CASE pc'[w] = "reread"
    <3>1. try[w] \notin freeThroughout'[w]
      BY <1>1, <2>1, <2>3 DEF PassedOver
    <3> QED BY <1>1, <2>1, <2>3, <3>1 DEF LeftBehind
  <2> QED BY <2>1, <2>2, <2>3
<1>6. CASE RereadSpecific(w)
  BY <1>6 DEF RereadSpecific, LeftBehind, Goto, TypeOK, locals
<1>7. CASE RereadOrdinary(w)
  <2>1. /\ pc[w] = "reread" /\ target[w] = 0 /\ target' = target
        /\ \A id \in freeThroughout'[w] :
              id \in freeThroughout[w] /\ ~Between(initial[w], try[w], id) /\ id # try[w]
    BY <1>1, <1>7 DEF RereadOrdinary, LeftBehind
  <2>2. CASE NextID(try[w]) = initial[w] /\ pc'[w] = "exhausted"
    <3>1. \A id \in freeThroughout'[w] : FALSE
      BY <1>1, <2>1, <2>2, BetweenNext
    <3> QED BY <2>2, <3>1 DEF LeftBehind
  <2>3. CASE pc'[w] = "check" /\ try'[w] = NextID(try[w]) /\ initial'[w] = initial[w]
    <3>1. \A id \in freeThroughout'[w] : ~Between(initial'[w], try'[w], id)
      BY <1>1, <2>1, <2>3, BetweenNext
    <3> QED BY <2>3, <3>1 DEF LeftBehind
  <2>4. CASE pc'[w] = "check" /\ try'[w] = initial'[w]
    <3>1. \A id \in freeThroughout'[w] : ~Between(initial'[w], try'[w], id)
      BY <1>1, <2>4, BetweenNone
    <3> QED BY <2>4, <3>1 DEF LeftBehind
  <2> QED BY <1>7, <2>2, <2>3, <2>4 DEF RereadOrdinary, Goto, TypeOK
<1>8. CASE PutRecord(w)
  BY <1>8, NotScanning DEF PutRecord, Goto, TypeOK
<1> QED BY <1>2, <1>3, <1>4, <1>5, <1>6, <1>7, <1>8 DEF Proceed

LEMMA ScanStep ==
    ASSUME TypeOK, TypeOK', ScanInv, ~Lagging, [ScanNext]_scanVars PROVE ScanInv'
<1>1. CASE UNCHANGED scanVars
  BY <1>1 DEF scanVars, vars, ScanInv, FreeIsFree, FreeIDs, LeftBehind
<1>2. CASE ScanNext
  <2>1. FreeIsFree'
    BY <1>2, FreeStep
  <2> SUFFICES ASSUME NEW v \in Workers PROVE LeftBehind(v)'
    BY <2>1 DEF ScanInv
  <2>2. ASSUME NEW w \in Workers, NEW n \in Names, NEW t \in Targets, Begin(w, n, t)
        PROVE  LeftBehind(v)'
    <3>1. CASE v = w
      BY <2>2, <3>1, NotScanning DEF Begin, Goto, TypeOK
    <3>2. CASE v # w
      BY <1>2, <2>2, <3>2, OthersLeave DEF Begin, Goto, TypeOK
    <3> QED BY <3>1, <3>2
  <2>3. ASSUME NEW w \in Workers, Proceed(w) \/ ReserveRefused(w) PROVE LeftBehind(v)'
    <3>1. CASE v = w
      BY <1>2, <2>3, <3>1, OwnStep
    <3>2. CASE v # w
      <4>1. pc'[v] = pc[v] /\ target'[v] = target[v] /\ initial'[v] = initial[v]
            /\ try'[v] = try[v]
        BY <2>3, <3>2 DEF Proceed, CheckName, ReadHint, CheckAvailability, Reserve,
           RereadSpecific, RereadOrdinary, PutRecord, ReserveRefused, Goto, TypeOK, locals
      <4> QED BY <1>2, <4>1, OthersLeave
    <3> QED BY <3>1, <3>2
  <2>4. ASSUME NEW w \in Workers, CallFails(w) PROVE LeftBehind(v)'
    <3>1. CASE v = w
      BY <2>4, <3>1, NotScanning DEF CallFails, Goto, TypeOK
    <3>2. CASE v # w
      BY <1>2, <2>4, <3>2, OthersLeave DEF CallFails, Goto, TypeOK, locals
    <3> QED BY <3>1, <3>2
  <2>5. CASE Crash
    <3>1. CASE pc[v] \in Working
      BY <2>5, <3>1, NotScanning DEF Crash
    <3>2. CASE pc[v] \notin Working
      BY <1>2, <2>5, <3>2, OthersLeave DEF Crash, locals
    <3> QED BY <3>1, <3>2
  <2>6. ASSUME UNCHANGED <<pc, target, initial, try>> PROVE LeftBehind(v)'
    BY <1>2, <2>6, OthersLeave
  <2>7. ASSUME NEW n \in Names, Remove(n) \/ PropagateRecord(n) PROVE LeftBehind(v)'
    BY <2>6, <2>7 DEF Remove, PropagateRecord, locals
  <2>8. CASE PropagateHint
    BY <2>6, <2>8 DEF PropagateHint, locals
  <2> QED BY <1>2, <2>2, <2>3, <2>4, <2>5, <2>7, <2>8 DEF ScanNext, Next
<1> QED BY <1>1, <1>2

\* With fresh reads, whatever the number of calls, an allocation gives up only
\* if each ID has been taken at some moment of its scan or the database has
\* refused it (PersistentStore.cpp:675-696).
THEOREM ExhaustedForAReason == ASSUME ~Lagging PROVE ScanSpec => []ExhaustionIsReal
<1>1. ScanInit => TypeOK /\ ScanInv
  <2>1. ScanInit => TypeOK
    BY InitTypes DEF ScanInit
  <2>2. ScanInit => ScanInv
    BY DEF ScanInit, Init, ScanInv, FreeIsFree, FreeIDs, LeftBehind
  <2> QED BY <2>1, <2>2
<1>2. TypeOK /\ ScanInv /\ [ScanNext]_scanVars => TypeOK' /\ ScanInv'
  <2>1. [ScanNext]_scanVars => [Next]_vars
    BY DEF ScanNext, scanVars
  <2> QED BY <2>1, TypeStep, ScanStep
<1>3. ScanInv => ExhaustionIsReal
  BY DEF ScanInv, LeftBehind, ExhaustionIsReal
<1> QED BY <1>1, <1>2, <1>3, PTL DEF ScanSpec
=============================================================================
