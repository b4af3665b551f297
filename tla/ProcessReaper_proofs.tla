------------------------ MODULE ProcessReaper_proofs ------------------------
(***************************************************************************)
(* Theorems about ProcessReaper for every set of callers and pids.         *)
(***************************************************************************)
EXTENDS ProcessReaper, TLAPS

(***************************************************************************)
(* The inductive invariant: who can have a record of a child, and in which *)
(* of the three places (kernel, reaper, table) its status is.              *)
(***************************************************************************)
Active(c) == pc[c] # "idle"
Owner(c) == pc[c] \in {"waiting", "erase"}
Alive(p) == proc[p].state # "none"

\* A pid belongs to one command.
PidsUsedOnce ==
    /\ \A c \in Callers : Active(c) => pid[c] \in usedPids
    /\ \A c, d \in Callers : c # d /\ Active(c) /\ Active(d) => pid[c] # pid[d]
    /\ \A p \in Pids :
          Alive(p) \/ ReaperHolds(p) \/ processTable[p].present => p \in usedPids

\* The kernel, or the reaper, has the status of the command's own child.
OwnStatus ==
    /\ \A p \in Pids : ReaperHolds(p) => ~Alive(p)
    /\ \A c \in Callers :
          /\ Active(c) /\ Alive(pid[c]) => proc[pid[c]].status = run[c]
          /\ Active(c) /\ ReaperHolds(pid[c]) => reaped.status = run[c]

\* What the table says of the child of a caller without a handle...
ForkedRecord ==
    \A c \in Callers : pc[c] = "forked" =>
       /\ processTable[pid[c]].present =>
             /\ processTable[pid[c]].handle = {}
             /\ processTable[pid[c]].status = run[c]
             /\ ~Alive(pid[c]) /\ ~ReaperHolds(pid[c])
       /\ ~processTable[pid[c]].present => Alive(pid[c]) \/ ReaperHolds(pid[c])

\* ... and of one with a handle.
HandleRecord ==
    /\ \A c \in Callers : Owner(c) =>
          /\ processTable[pid[c]].present => processTable[pid[c]].handle = {c}
          /\ hasExitStatus[c] <=> ~processTable[pid[c]].present
          /\ hasExitStatus[c] =>
                exitStatusValue[c] = run[c] /\ ~Alive(pid[c]) /\ ~ReaperHolds(pid[c])
          /\ ~hasExitStatus[c] => Alive(pid[c]) \/ ReaperHolds(pid[c])
          /\ Locked(pid[c]) => exitStatusValue[c] = run[c]
    /\ \A p \in Pids, c \in Callers :
          c \in processTable[p].handle => Owner(c) /\ pid[c] = p

\* Records do not outlive their child and the making of its handle.
RecordsEnd ==
    \A p \in Pids : processTable[p].present =>
       \/ ReaperHolds(p) \/ Alive(p)
       \/ \E c \in Callers : pc[c] = "forked" /\ pid[c] = p

\* A child without a record is still to be given its handle.
UnrecordedIsForked ==
    \A p \in Pids : (Alive(p) \/ ReaperHolds(p)) /\ ~processTable[p].present =>
       \E c \in Callers : pc[c] = "forked" /\ pid[c] = p

AbsentRecords == \A p \in Pids : ~processTable[p].present => processTable[p] = NoRecord

\* The reaper finishes a record it found a handle in.
FinishHasHandle == reaper = "finish" => processTable[reaped.pid].handle # {}

\* The conjunction of the above is inductive.
IInv ==
    /\ TypeOK
    /\ PidsUsedOnce
    /\ OwnStatus
    /\ ForkedRecord
    /\ HandleRecord
    /\ RecordsEnd
    /\ UnrecordedIsForked
    /\ AbsentRecords
    /\ FinishHasHandle

-----------------------------------------------------------------------------
\* Every step preserves the types.
LEMMA TypeStep == ASSUME TypeOK, [Next]_vars PROVE TypeOK'
<1> USE RunsAssumption DEF Goto, CallerStates, ReaperStates, Statuses, Process,
       ProcessRecord, callerVars, handleVars, kernelVars, reaperVars
<1>0. NoRecord \in ProcessRecord
  BY DEF NoRecord
<1>1. ASSUME NEW c \in Callers, Fork(c) PROVE TypeOK'
  BY <1>1 DEF TypeOK, Fork
<1>2. ASSUME NEW c \in Callers, ConstructHandle(c) PROVE TypeOK'
  BY <1>0, <1>2 DEF TypeOK, ConstructHandle
<1>3. ASSUME NEW c \in Callers, Collect(c) \/ Abandon(c) PROVE TypeOK'
  BY <1>3 DEF TypeOK, Collect, Abandon
<1>4. ASSUME NEW c \in Callers, EraseHandle(c) PROVE TypeOK'
  <2>1. processTable[pid[c]] \in ProcessRecord
    BY DEF TypeOK
  <2>2. [processTable[pid[c]] EXCEPT !.handle = {}] \in ProcessRecord
    BY <2>1
  <2>3. processTable' \in [Pids -> ProcessRecord]
    BY <1>0, <1>4, <2>1, <2>2 DEF TypeOK, EraseHandle
  <2> QED BY <1>4, <2>3 DEF TypeOK, EraseHandle
<1>5. ASSUME NEW p \in Pids, ChildExits(p) PROVE TypeOK'
  BY <1>5 DEF TypeOK, ChildExits
<1>6. CASE handleSIGCHLD
  BY <1>6 DEF TypeOK, handleSIGCHLD
<1>7. CASE TestFlag \/ WaitpidFindsNone \/ ClearFlag
  BY <1>7 DEF TypeOK, TestFlag, WaitpidFindsNone, ClearFlag
<1>8. CASE WaitpidReaps
  <2>1. PICK p \in Pids :
           /\ reaped' = [pid |-> p, status |-> proc[p].status]
           /\ proc' = [proc EXCEPT ![p].state = "none"]
    BY <1>8 DEF WaitpidReaps, Zombies
  <2>2. proc[p] \in Process
    BY DEF TypeOK
  <2>3. proc' \in [Pids -> Process] /\ reaped' \in [pid : Pids, status : Statuses]
    BY <2>1, <2>2 DEF TypeOK
  <2> QED BY <1>8, <2>3 DEF TypeOK, WaitpidReaps
<1>9. CASE RecordStatus
  <2>1. reaped.pid \in Pids /\ reaped.status \in Statuses
    BY DEF TypeOK
  <2>2. [present |-> TRUE, handle |-> {}, status |-> reaped.status] \in ProcessRecord
    BY <2>1
  <2>3. processTable' \in [Pids -> ProcessRecord]
    BY <1>0, <1>9, <2>1, <2>2 DEF TypeOK, RecordStatus
  <2>4. exitStatusValue' \in [Callers -> Statuses]
    BY <1>9, <2>1 DEF TypeOK, RecordStatus
  <2> QED BY <1>9, <2>3, <2>4 DEF TypeOK, RecordStatus
<1>10. CASE FinishRecord
  BY <1>0, <1>10 DEF TypeOK, FinishRecord
<1>11. CASE UNCHANGED vars
  BY <1>11 DEF TypeOK, vars
<1> QED
  BY <1>1, <1>2, <1>3, <1>4, <1>5, <1>6, <1>7, <1>8, <1>9, <1>10, <1>11
     DEF Next, Proceed, Reap

\* Every step preserves the invariant.
LEMMA InvStep == ASSUME IInv, [Next]_vars PROVE IInv'
<1>0. TypeOK'
  BY TypeStep DEF IInv
<1> USE DEF IInv, TypeOK, PidsUsedOnce, OwnStatus, ForkedRecord, HandleRecord,
       RecordsEnd, UnrecordedIsForked, AbsentRecords,
       FinishHasHandle, Goto, Active, Owner, Alive, Locked, ReaperHolds, NoRecord,
       Statuses, ProcessRecord, Process, callerVars, handleVars, kernelVars, reaperVars
<1> USE RunsAssumption
<1>1. ASSUME NEW c \in Callers, Fork(c) PROVE IInv'
  <2>1. PidsUsedOnce'
    BY <1>0, <1>1, SMTT(30) DEF Fork
  <2>2. OwnStatus'
    BY <1>0, <1>1, SMTT(30) DEF Fork
  <2>3. ForkedRecord'
    BY <1>0, <1>1, SMTT(30) DEF Fork
  <2>4. HandleRecord'
    BY <1>0, <1>1, SMTT(30) DEF Fork
  <2>5. RecordsEnd'
    BY <1>0, <1>1, SMTT(30) DEF Fork
  <2>6. UnrecordedIsForked'
    BY <1>0, <1>1, SMTT(30) DEF Fork
  <2>7. AbsentRecords'
    BY <1>0, <1>1, SMTT(30) DEF Fork
  <2>8. FinishHasHandle'
    BY <1>0, <1>1, SMTT(30) DEF Fork
  <2> QED BY <1>0, <2>1, <2>2, <2>3, <2>4, <2>5, <2>6, <2>7, <2>8
<1>2. ASSUME NEW c \in Callers, ConstructHandle(c) PROVE IInv'
  <2>1. PidsUsedOnce'
    BY <1>0, <1>2, SMTT(30) DEF ConstructHandle
  <2>2. OwnStatus'
    BY <1>0, <1>2, SMTT(30) DEF ConstructHandle
  <2>3. ForkedRecord'
    BY <1>0, <1>2, SMTT(30) DEF ConstructHandle
  <2>4. HandleRecord'
    BY <1>0, <1>2, SMTT(30) DEF ConstructHandle
  <2>5. RecordsEnd'
    BY <1>0, <1>2, SMTT(30) DEF ConstructHandle
  <2>6. UnrecordedIsForked'
    BY <1>0, <1>2, SMTT(30) DEF ConstructHandle
  <2>7. AbsentRecords'
    <3> SUFFICES ASSUME NEW p \in Pids, ~processTable'[p].present
                 PROVE  processTable'[p] = NoRecord
      BY DEF AbsentRecords
    <3>1. CASE p = pid[c]
      BY <1>2, <3>1 DEF ConstructHandle
    <3>2. CASE p # pid[c]
      <4>1. processTable'[p] = processTable[p]
        BY <1>2, <3>2 DEF ConstructHandle
      <4> QED BY <4>1 DEF IInv, AbsentRecords
    <3> QED BY <3>1, <3>2
  <2>8. FinishHasHandle'
    BY <1>0, <1>2, SMTT(30) DEF ConstructHandle
  <2> QED BY <1>0, <2>1, <2>2, <2>3, <2>4, <2>5, <2>6, <2>7, <2>8
<1>3. ASSUME NEW c \in Callers, Collect(c) \/ Abandon(c) PROVE IInv'
  <2>1. PidsUsedOnce'
    <3>1. pid' = pid /\ usedPids' = usedPids /\ proc' = proc /\ processTable' = processTable
          /\ reaper' = reaper /\ reaped' = reaped
      BY <1>3 DEF Collect, Abandon
    <3>2. \A d \in Callers : Active(d)' <=> Active(d)
      BY <1>3 DEF Collect, Abandon
    <3> QED BY <3>1, <3>2
  <2>2. OwnStatus'
    BY <1>0, <1>3, SMTT(30) DEF Collect, Abandon
  <2>3. ForkedRecord'
    BY <1>0, <1>3, SMTT(30) DEF Collect, Abandon
  <2>4. HandleRecord'
    <3>1. UNCHANGED <<pid, run, handleVars, processTable, proc, reaper, reaped>>
      BY <1>3 DEF Collect, Abandon
    <3>2. \A d \in Callers : Owner(d)' <=> Owner(d)
      BY <1>3 DEF Collect, Abandon
    <3> QED BY <3>1, <3>2
  <2>5. RecordsEnd'
    BY <1>0, <1>3, SMTT(30) DEF Collect, Abandon
  <2>6. UnrecordedIsForked'
    BY <1>0, <1>3, SMTT(30) DEF Collect, Abandon
  <2>7. AbsentRecords'
    BY <1>0, <1>3, SMTT(30) DEF Collect, Abandon
  <2>8. FinishHasHandle'
    BY <1>0, <1>3, SMTT(30) DEF Collect, Abandon
  <2> QED BY <1>0, <2>1, <2>2, <2>3, <2>4, <2>5, <2>6, <2>7, <2>8
<1>4. ASSUME NEW c \in Callers, EraseHandle(c) PROVE IInv'
  <2>1. PidsUsedOnce'
    BY <1>0, <1>4, SMTT(30) DEF EraseHandle
  <2>2. OwnStatus'
    BY <1>0, <1>4, SMTT(30) DEF EraseHandle
  <2>3. ForkedRecord'
    BY <1>0, <1>4, SMTT(30) DEF EraseHandle
  <2>4. HandleRecord'
    BY <1>0, <1>4, SMTT(30) DEF EraseHandle
  <2>5. RecordsEnd'
    BY <1>0, <1>4, SMTT(30) DEF EraseHandle
  <2>6. UnrecordedIsForked'
    BY <1>0, <1>4, SMTT(30) DEF EraseHandle
  <2>7. AbsentRecords'
    <3> SUFFICES ASSUME NEW p \in Pids, ~processTable'[p].present
                 PROVE  processTable'[p] = NoRecord
      BY DEF AbsentRecords
    <3>1. CASE p = pid[c]
      <4>1. CASE processTable[p].handle # {c}
        BY <1>4, <3>1, <4>1 DEF EraseHandle
      <4>2. CASE processTable[p].handle = {c} /\ hasExitStatus[c]
        BY <1>4, <3>1, <4>2 DEF EraseHandle
      <4>3. CASE processTable[p].handle = {c} /\ ~hasExitStatus[c]
        <5>1. processTable'[p] = [processTable[p] EXCEPT !.handle = {}]
          BY <1>4, <3>1, <4>3 DEF EraseHandle
        <5>2. processTable[p].present
          BY <1>4, <3>1, <4>3 DEF EraseHandle
        <5> QED BY <5>1, <5>2
      <4> QED BY <4>1, <4>2, <4>3
    <3>2. CASE p # pid[c]
      <4>1. processTable'[p] = processTable[p]
        BY <1>4, <3>2 DEF EraseHandle
      <4> QED BY <4>1 DEF IInv, AbsentRecords
    <3> QED BY <3>1, <3>2
  <2>8. FinishHasHandle'
    BY <1>0, <1>4, SMTT(30) DEF EraseHandle
  <2> QED BY <1>0, <2>1, <2>2, <2>3, <2>4, <2>5, <2>6, <2>7, <2>8
<1>5. ASSUME NEW p \in Pids, ChildExits(p) PROVE IInv'
  <2>1. PidsUsedOnce'
    BY <1>0, <1>5, SMTT(30) DEF ChildExits
  <2>2. OwnStatus'
    BY <1>0, <1>5, SMTT(30) DEF ChildExits
  <2>3. ForkedRecord'
    BY <1>0, <1>5, SMTT(30) DEF ChildExits
  <2>4. HandleRecord'
    BY <1>0, <1>5, SMTT(30) DEF ChildExits
  <2>5. RecordsEnd'
    BY <1>0, <1>5, SMTT(30) DEF ChildExits
  <2>6. UnrecordedIsForked'
    BY <1>0, <1>5, SMTT(30) DEF ChildExits
  <2>7. AbsentRecords'
    BY <1>0, <1>5, SMTT(30) DEF ChildExits
  <2>8. FinishHasHandle'
    BY <1>0, <1>5, SMTT(30) DEF ChildExits
  <2> QED BY <1>0, <2>1, <2>2, <2>3, <2>4, <2>5, <2>6, <2>7, <2>8
<1>6. CASE handleSIGCHLD
  BY <1>0, <1>6, SMTT(30) DEF handleSIGCHLD
<1>7. CASE TestFlag \/ WaitpidFindsNone \/ ClearFlag
  BY <1>0, <1>7, SMTT(30) DEF TestFlag, WaitpidFindsNone, ClearFlag
<1>8. CASE WaitpidReaps
  <2>1. PidsUsedOnce'
    BY <1>0, <1>8, SMTT(30) DEF WaitpidReaps, Zombies
  <2>2. OwnStatus'
    BY <1>0, <1>8, SMTT(30) DEF WaitpidReaps, Zombies
  <2>3. ForkedRecord'
    BY <1>0, <1>8, SMTT(30) DEF WaitpidReaps, Zombies
  <2>4. HandleRecord'
    BY <1>0, <1>8, SMTT(30) DEF WaitpidReaps, Zombies
  <2>5. RecordsEnd'
    BY <1>0, <1>8, SMTT(30) DEF WaitpidReaps, Zombies
  <2>6. UnrecordedIsForked'
    BY <1>0, <1>8, SMTT(30) DEF WaitpidReaps, Zombies
  <2>7. AbsentRecords'
    BY <1>0, <1>8, SMTT(30) DEF WaitpidReaps, Zombies
  <2>8. FinishHasHandle'
    BY <1>0, <1>8, SMTT(30) DEF WaitpidReaps, Zombies
  <2> QED BY <1>0, <2>1, <2>2, <2>3, <2>4, <2>5, <2>6, <2>7, <2>8
<1>9. CASE RecordStatus
  <2>1. PidsUsedOnce'
    BY <1>0, <1>9, SMTT(30) DEF RecordStatus
  <2>2. OwnStatus'
    BY <1>0, <1>9, SMTT(30) DEF RecordStatus
  <2>3. ForkedRecord'
    BY <1>0, <1>9, SMTT(30) DEF RecordStatus
  <2>4. HandleRecord'
    <3> DEFINE record == processTable[reaped.pid]
    <3>1. CASE record.handle = {}
      <4>1. ASSUME NEW d \in Callers, Owner(d), pid[d] = reaped.pid PROVE FALSE
        <5>1. ReaperHolds(pid[d])
          BY <1>9, <4>1 DEF RecordStatus
        <5>2. ~hasExitStatus[d] /\ processTable[pid[d]].present
          BY <4>1, <5>1
        <5>3. processTable[pid[d]].handle = {d}
          BY <4>1, <5>2
        <5> QED BY <3>1, <4>1, <5>3
      <4>2. /\ \A p \in Pids : p # reaped.pid => processTable'[p] = processTable[p]
            /\ processTable'[reaped.pid].handle = {}
            /\ exitStatusValue' = exitStatusValue /\ reaper' = "waitpid"
        BY <1>9, <3>1 DEF RecordStatus
      <4>3. UNCHANGED <<pc, pid, run, hasExitStatus, proc, reaped>>
        BY <1>9 DEF RecordStatus
      <4>4. \A d \in Callers : Owner(d) => processTable'[pid[d]] = processTable[pid[d]]
        BY <4>1, <4>2
      <4>5. \A d \in Callers : Owner(d) => ReaperHolds(pid[d])' = ReaperHolds(pid[d])
        BY <4>1, <4>2, <4>3
      <4>6. \A d \in Callers : ~Locked(pid[d])'
        BY <4>2
      <4>7. ASSUME NEW p \in Pids, NEW d \in Callers, d \in processTable'[p].handle
            PROVE  Owner(d) /\ pid[d] = p
        BY <4>2, <4>7
      <4> QED BY <4>2, <4>3, <4>4, <4>5, <4>6, <4>7
    <3>2. CASE record.handle # {}
      BY <1>0, <1>9, <3>2, SMTT(30) DEF RecordStatus
    <3> QED BY <3>1, <3>2
  <2>5. RecordsEnd'
    <3> SUFFICES ASSUME NEW p \in Pids, processTable'[p].present
                 PROVE  \/ ReaperHolds(p)' \/ Alive(p)'
                        \/ \E c \in Callers : pc'[c] = "forked" /\ pid'[c] = p
      BY DEF RecordsEnd
    <3>1. CASE p = reaped.pid
      BY <1>0, <1>9, <3>1, SMTT(30) DEF RecordStatus
    <3>2. CASE p # reaped.pid
      BY <1>0, <1>9, <3>2, SMTT(30) DEF RecordStatus
    <3> QED BY <3>1, <3>2
  <2>6. UnrecordedIsForked'
    BY <1>0, <1>9, SMTT(30) DEF RecordStatus
  <2>7. AbsentRecords'
    BY <1>0, <1>9, SMTT(30) DEF RecordStatus
  <2>8. FinishHasHandle'
    BY <1>0, <1>9, SMTT(30) DEF RecordStatus
  <2> QED BY <1>0, <2>1, <2>2, <2>3, <2>4, <2>5, <2>6, <2>7, <2>8
<1>10. CASE FinishRecord
  <2>1. PidsUsedOnce'
    BY <1>0, <1>10, SMTT(30) DEF FinishRecord
  <2>2. OwnStatus'
    BY <1>0, <1>10, SMTT(30) DEF FinishRecord
  <2>3. ForkedRecord'
    BY <1>0, <1>10, SMTT(30) DEF FinishRecord
  <2>4. HandleRecord'
    BY <1>0, <1>10, SMTT(30) DEF FinishRecord
  <2>5. RecordsEnd'
    BY <1>0, <1>10, SMTT(30) DEF FinishRecord
  <2>6. UnrecordedIsForked'
    BY <1>0, <1>10, SMTT(30) DEF FinishRecord
  <2>7. AbsentRecords'
    <3> SUFFICES ASSUME NEW p \in Pids, ~processTable'[p].present
                 PROVE  processTable'[p] = NoRecord
      BY DEF AbsentRecords
    <3>1. CASE p = reaped.pid
      BY <1>10, <3>1 DEF FinishRecord
    <3>2. CASE p # reaped.pid
      <4>1. processTable'[p] = processTable[p]
        BY <1>10, <3>2 DEF FinishRecord
      <4> QED BY <4>1 DEF IInv, AbsentRecords
    <3> QED BY <3>1, <3>2
  <2>8. FinishHasHandle'
    BY <1>0, <1>10, SMTT(30) DEF FinishRecord
  <2> QED BY <1>0, <2>1, <2>2, <2>3, <2>4, <2>5, <2>6, <2>7, <2>8
<1>11. CASE UNCHANGED vars
  BY <1>0, <1>11, SMTT(30) DEF vars
<1> QED
  BY <1>1, <1>2, <1>3, <1>4, <1>5, <1>6, <1>7, <1>8, <1>9, <1>10, <1>11
     DEF Next, Proceed, Reap

\* The invariant holds when the program starts.
LEMMA InitInv == ASSUME Init PROVE IInv
<1> USE RunsAssumption DEF Init, Statuses
<1>1. NoRecord \in ProcessRecord /\ [state |-> "none", status |-> 0] \in Process
  BY DEF NoRecord, ProcessRecord, Process
<1>2. processTable \in [Pids -> ProcessRecord] /\ proc \in [Pids -> Process]
  BY <1>1
<1>3. run \in [Callers -> Statuses] /\ exitStatusValue \in [Callers -> Statuses]
  OBVIOUS
<1>4. reaped \in [pid : Pids, status : Statuses]
  OBVIOUS
<1>5. TypeOK
  BY <1>2, <1>3, <1>4 DEF TypeOK, CallerStates, ReaperStates
<1> QED
  BY <1>5 DEF IInv, PidsUsedOnce, OwnStatus, ForkedRecord, HandleRecord, RecordsEnd,
     UnrecordedIsForked, AbsentRecords, FinishHasHandle, Active, Owner, Alive,
     Locked, ReaperHolds, NoRecord

\* Hence the invariant holds in every reachable state.
LEMMA Invariance == Spec => []IInv
<1>1. Init => IInv
  BY InitInv
<1>2. IInv /\ [Next]_vars => IInv'
  BY InvStep
<1> QED BY <1>1, <1>2, PTL DEF Spec

\* Types of the handles, the table and the reaper in every reachable state
\* (Process.cpp:226-390).
THEOREM TypeCorrect == Spec => []TypeOK
<1>1. IInv => TypeOK
  BY DEF IInv
<1> QED BY Invariance, <1>1, PTL

\* runCommand returns the status of its own child, for every number of
\* callers and however the child, the reaper and the handle's constructor
\* interleave (Process.cpp:226-253, 363-374, 587-588).
THEOREM StatusBelongsToCommand == Spec => []StatusIsOwn
<1>1. IInv => StatusIsOwn
  BY DEF IInv, HandleRecord, Owner, StatusIsOwn, Collecting
<1> QED BY Invariance, <1>1, PTL

\* No exit status is lost between waitpid and its handle (Process.cpp:340-377).
THEOREM StatusKept == Spec => []StatusNotLost
<1>1. IInv => StatusNotLost
  BY DEF IInv, HandleRecord, ForkedRecord, Owner, Alive, StatusNotLost
<1> QED BY Invariance, <1>1, PTL

\* processTable does not grow without bound, and a handle never meets the
\* record of another (Process.cpp:298-310).
THEOREM TableStaysClean == Spec => []TableClean
<1>1. IInv => TableClean
  BY DEF IInv, HandleRecord, RecordsEnd, Owner, Alive, TableClean
<1> QED BY Invariance, <1>1, PTL
=============================================================================
