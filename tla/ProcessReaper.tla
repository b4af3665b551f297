---------------------------- MODULE ProcessReaper ----------------------------
(***************************************************************************)
(* External commands and the collection of their exit statuses             *)
(* (src/src/Process.cpp: runCommand, the ProcessHandle constructor and     *)
(* destructor, reapProcesses, startReaper).  A caller forks a child and    *)
(* waits for its handle to be given a status; the reaper thread collects   *)
(* the statuses from the kernel.  They meet in processTable, each of whose *)
(* operations is atomic for one pid.                                       *)
(***************************************************************************)
EXTENDS Naturals

CONSTANTS
    Callers,   \* threads that run commands
    Pids,
    MaxRuns    \* bound: number of commands run in a behaviour

ASSUME RunsAssumption == MaxRuns \in Nat

VARIABLES
    pc,               \* control point of each caller
    run,              \* history: the number of the command it runs
    pid,              \* child: the pid fork gave it
    hasExitStatus,    \* the fields of its ProcessHandle
    exitStatusValue,
    processTable,     \* see ProcessRecord
    proc,             \* the kernel's processes: see Process
    usedPids,         \* pids the kernel has given out
    signal,           \* a SIGCHLD is pending
    reapFlag,
    reaper,           \* control point of the reaper thread
    reaped,           \* what its waitpid returned: pid and status
    runs              \* number of commands started so far

callerVars == <<pc, run, pid>>
handleVars == <<hasExitStatus, exitStatusValue>>
kernelVars == <<proc, usedPids, signal>>
reaperVars == <<reapFlag, reaper, reaped>>
vars == <<callerVars, handleVars, processTable, kernelVars, reaperVars, runs>>

\* Every command has an exit status of its own: its number.  0 stands for
\* the value a handle or a record has before it is given one.
Statuses == 0 .. MaxRuns

Process == [state : {"none", "running", "zombie"}, status : Statuses]

\* handle is empty where the code has a null pointer.
ProcessRecord == [present : BOOLEAN, handle : SUBSET Callers, status : Statuses]
NoRecord == [present |-> FALSE, handle |-> {}, status |-> 0]

CallerStates == {"idle", "forked", "waiting", "erase"}
ReaperStates == {"test", "waitpid", "record", "finish", "clear"}

Goto(c, label) == pc' = [pc EXCEPT ![c] = label]

Init ==
    /\ pc = [c \in Callers |-> "idle"]
    /\ run = [c \in Callers |-> 0]
    /\ pid \in [Callers -> Pids]
    /\ hasExitStatus = [c \in Callers |-> FALSE]
    /\ exitStatusValue = [c \in Callers |-> 0]
    /\ processTable = [p \in Pids |-> NoRecord]
    /\ proc = [p \in Pids |-> [state |-> "none", status |-> 0]]
    /\ usedPids = {}
    /\ signal = FALSE
    /\ reapFlag = FALSE
    /\ reaper = "test"
    /\ reaped \in [pid : Pids, status : {0}]
    /\ runs = 0
-----------------------------------------------------------------------------
\* startProcessAsync forks.  The kernel does not give out a pid twice within
\* the behaviours considered here.
Fork(c) ==
    /\ pc[c] = "idle"
    /\ runs < MaxRuns
    /\ \E p \in Pids \ usedPids :
          /\ pid' = [pid EXCEPT ![c] = p]
          /\ proc' = [proc EXCEPT ![p] = [state |-> "running", status |-> runs + 1]]
          /\ usedPids' = usedPids \cup {p}
    /\ runs' = runs + 1
    /\ run' = [run EXCEPT ![c] = runs + 1]
    /\ Goto(c, "forked")
    /\ UNCHANGED <<handleVars, processTable, signal, reaperVars>>

\* The reaper is inside the table's lock on p from "record" to "finish".
Locked(p) == reaper = "finish" /\ reaped.pid = p

\* Mutant of ConstructHandle: the status in the record is not taken over.
ConstructHandleDefault(c) ==
    /\ pc[c] = "forked"
    /\ ~Locked(pid[c])
    /\ IF processTable[pid[c]].present
       THEN /\ processTable' = [processTable EXCEPT ![pid[c]] = NoRecord]
            /\ hasExitStatus' = [hasExitStatus EXCEPT ![c] = TRUE]
            /\ exitStatusValue' = [exitStatusValue EXCEPT ![c] = 0]
       ELSE /\ processTable' = [processTable EXCEPT ![pid[c]] =
                  [present |-> TRUE, handle |-> {c}, status |-> 0]]
            /\ hasExitStatus' = [hasExitStatus EXCEPT ![c] = FALSE]
            /\ exitStatusValue' = [exitStatusValue EXCEPT ![c] = 0]
    /\ Goto(c, "waiting")
    /\ UNCHANGED <<run, pid, kernelVars, reaperVars, runs>>

\* Mutant of ConstructHandle: the record is not erased.
ConstructHandleKeep(c) ==
    /\ pc[c] = "forked"
    /\ ~Locked(pid[c])
    /\ IF processTable[pid[c]].present
       THEN /\ hasExitStatus' = [hasExitStatus EXCEPT ![c] = TRUE]
            /\ exitStatusValue' = [exitStatusValue EXCEPT ![c] =
                                     processTable[pid[c]].status]
            /\ UNCHANGED processTable
       ELSE /\ processTable' = [processTable EXCEPT ![pid[c]] =
                  [present |-> TRUE, handle |-> {c}, status |-> 0]]
            /\ hasExitStatus' = [hasExitStatus EXCEPT ![c] = FALSE]
            /\ exitStatusValue' = [exitStatusValue EXCEPT ![c] = 0]
    /\ Goto(c, "waiting")
    /\ UNCHANGED <<run, pid, kernelVars, reaperVars, runs>>

\* The constructor of ProcessHandle, uprase_fn: a child that has been reaped
\* already has left its status in the table; otherwise the handle goes there.
ConstructHandle(c) ==
    /\ pc[c] = "forked"
    /\ ~Locked(pid[c])
    /\ LET record == processTable[pid[c]]
       IN /\ processTable' = [processTable EXCEPT ![pid[c]] =
                IF record.present THEN NoRecord
                ELSE [present |-> TRUE, handle |-> {c}, status |-> 0]]
          /\ hasExitStatus' = [hasExitStatus EXCEPT ![c] = record.present]
          /\ exitStatusValue' = [exitStatusValue EXCEPT ![c] = record.status]
    /\ Goto(c, "waiting")
    /\ UNCHANGED <<run, pid, kernelVars, reaperVars, runs>>

\* collectChildOutput ends: done() is true and exitStatus() is the result.
\* The SIGTERM that ~ProcessHandle now sends finds no child.
Collect(c) ==
    /\ pc[c] = "waiting"
    /\ hasExitStatus[c]
    /\ Goto(c, "erase")
    /\ UNCHANGED <<run, pid, handleVars, processTable, kernelVars, reaperVars, runs>>

\* The handle is destroyed before its child has ended (an exception unwinds
\* runCommand): SIGTERM, and the child ends now or later.
Abandon(c) ==
    /\ pc[c] = "waiting"
    /\ ~hasExitStatus[c]
    /\ Goto(c, "erase")
    /\ UNCHANGED <<run, pid, handleVars, processTable, kernelVars, reaperVars, runs>>

\* ~ProcessHandle, erase_fn: the record of a child not yet reaped stays
\* behind, without its handle.
EraseHandle(c) ==
    /\ pc[c] = "erase"
    /\ ~Locked(pid[c])
    /\ LET record == processTable[pid[c]]
       IN processTable' = [processTable EXCEPT ![pid[c]] =
             IF record.handle # {c} THEN record
             ELSE IF hasExitStatus[c] THEN NoRecord
             ELSE [record EXCEPT !.handle = {}]]
    /\ Goto(c, "idle")
    /\ UNCHANGED <<run, pid, handleVars, kernelVars, reaperVars, runs>>
-----------------------------------------------------------------------------
\* The kernel: a child ends and SIGCHLD becomes pending.
ChildExits(p) ==
    /\ proc[p].state = "running"
    /\ proc' = [proc EXCEPT ![p].state = "zombie"]
    /\ signal' = TRUE
    /\ UNCHANGED <<callerVars, handleVars, processTable, usedPids, reaperVars, runs>>

handleSIGCHLD ==
    /\ signal
    /\ signal' = FALSE
    /\ reapFlag' = TRUE
    /\ UNCHANGED <<callerVars, handleVars, processTable, proc, usedPids, reaper,
                   reaped, runs>>

\* reapProcesses returns at once, every millisecond, while the flag is down.
TestFlag ==
    /\ reaper = "test"
    /\ reapFlag
    /\ reaper' = "waitpid"
    /\ UNCHANGED <<callerVars, handleVars, processTable, kernelVars, reapFlag,
                   reaped, runs>>

Zombies == {p \in Pids : proc[p].state = "zombie"}

\* Mutant of WaitpidReaps: the exit status is not extracted by WEXITSTATUS.
WaitpidReapsRaw ==
    /\ reaper = "waitpid"
    /\ \E p \in Zombies :
          /\ reaped' = [pid |-> p, status |-> 256 * proc[p].status]
          /\ proc' = [proc EXCEPT ![p].state = "none"]
    /\ reaper' = "record"
    /\ UNCHANGED <<callerVars, handleVars, processTable, usedPids, signal,
                   reapFlag, runs>>

\* waitpid returns a child that has ended: the kernel forgets it.
WaitpidReaps ==
    /\ reaper = "waitpid"
    /\ \E p \in Zombies :
          /\ reaped' = [pid |-> p, status |-> proc[p].status]
          /\ proc' = [proc EXCEPT ![p].state = "none"]
    /\ reaper' = "record"
    /\ UNCHANGED <<callerVars, handleVars, processTable, usedPids, signal,
                   reapFlag, runs>>

\* waitpid returns 0 or ECHILD.
WaitpidFindsNone ==
    /\ reaper = "waitpid"
    /\ Zombies = {}
    /\ reaper' = "clear"
    /\ UNCHANGED <<callerVars, handleVars, processTable, kernelVars, reapFlag,
                   reaped, runs>>

ClearFlag ==
    /\ reaper = "clear"
    /\ reapFlag' = FALSE
    /\ reaper' = "test"
    /\ UNCHANGED <<callerVars, handleVars, processTable, kernelVars, reaped, runs>>

\* Mutant of RecordStatus: only a record that is there is looked at.
RecordStatusUpdate ==
    /\ reaper = "record"
    /\ IF processTable[reaped.pid].handle # {}
       THEN /\ exitStatusValue' = [c \in Callers |->
                 IF c \in processTable[reaped.pid].handle THEN reaped.status
                 ELSE exitStatusValue[c]]
            /\ reaper' = "finish"
            /\ UNCHANGED processTable
       ELSE /\ processTable' = [processTable EXCEPT ![reaped.pid] = NoRecord]
            /\ reaper' = "waitpid"
            /\ UNCHANGED exitStatusValue
    /\ UNCHANGED <<callerVars, hasExitStatus, kernelVars, reapFlag, reaped, runs>>

\* uprase_fn: without a record the status is left in the table for the
\* handle to come; a record without a handle is erased; otherwise
\* setExitStatus writes the value before it announces it.
RecordStatus ==
    /\ reaper = "record"
    /\ LET record == processTable[reaped.pid]
       IN \/ /\ ~record.present
             /\ processTable' = [processTable EXCEPT ![reaped.pid] =
                   [present |-> TRUE, handle |-> {}, status |-> reaped.status]]
             /\ reaper' = "waitpid"
             /\ UNCHANGED exitStatusValue
          \/ /\ record.present /\ record.handle = {}
             /\ processTable' = [processTable EXCEPT ![reaped.pid] = NoRecord]
             /\ reaper' = "waitpid"
             /\ UNCHANGED exitStatusValue
          \/ /\ record.present /\ record.handle # {}
             /\ exitStatusValue' = [c \in Callers |->
                   IF c \in record.handle THEN reaped.status ELSE exitStatusValue[c]]
             /\ reaper' = "finish"
             /\ UNCHANGED processTable
    /\ UNCHANGED <<callerVars, hasExitStatus, kernelVars, reapFlag, reaped, runs>>

\* The rest of setExitStatus, and the record is erased.
FinishRecord ==
    /\ reaper = "finish"
    /\ hasExitStatus' = [c \in Callers |->
          hasExitStatus[c] \/ c \in processTable[reaped.pid].handle]
    /\ processTable' = [processTable EXCEPT ![reaped.pid] = NoRecord]
    /\ reaper' = "waitpid"
    /\ UNCHANGED <<callerVars, exitStatusValue, kernelVars, reapFlag, reaped, runs>>

Reap ==
    \/ TestFlag
    \/ WaitpidReaps
    \/ WaitpidFindsNone
    \/ ClearFlag
    \/ RecordStatus
    \/ FinishRecord

Proceed(c) ==
    \/ ConstructHandle(c)
    \/ Collect(c)
    \/ EraseHandle(c)

Next ==
    \/ \E c \in Callers : Fork(c) \/ Proceed(c) \/ Abandon(c)
    \/ \E p \in Pids : ChildExits(p)
    \/ handleSIGCHLD
    \/ Reap

Spec == Init /\ [][Next]_vars

\* Threads run, commands end and signals are delivered.
Fairness ==
    /\ \A c \in Callers : WF_vars(Proceed(c))
    /\ \A p \in Pids : WF_vars(ChildExits(p))
    /\ WF_vars(handleSIGCHLD)
    /\ WF_vars(Reap)

FairSpec == Spec /\ Fairness
-----------------------------------------------------------------------------
\* Types; a handle's record names one handle.
TypeOK ==
    /\ pc \in [Callers -> CallerStates]
    /\ run \in [Callers -> Statuses]
    /\ pid \in [Callers -> Pids]
    /\ hasExitStatus \in [Callers -> BOOLEAN]
    /\ exitStatusValue \in [Callers -> Statuses]
    /\ processTable \in [Pids -> ProcessRecord]
    /\ proc \in [Pids -> Process]
    /\ usedPids \subseteq Pids
    /\ signal \in BOOLEAN /\ reapFlag \in BOOLEAN
    /\ reaper \in ReaperStates
    /\ reaped \in [pid : Pids, status : Statuses]
    /\ runs \in 0 .. MaxRuns

Collecting(c) == pc[c] = "waiting" /\ hasExitStatus[c]

\* The status runCommand returns is that of its own child, whether the child
\* was reaped before or after its handle was made and however the reader of
\* the handle races setExitStatus (Process.cpp:226-253, 326-329, 363-374).
StatusIsOwn == \A c \in Callers : Collecting(c) => exitStatusValue[c] = run[c]

ReaperHolds(p) == reaper \in {"record", "finish"} /\ reaped.pid = p

\* A status nobody has collected yet is never lost: the kernel still has it,
\* or the reaper has it in hand, or it lies in the table for the handle to
\* come (Process.cpp:340-377).
StatusNotLost ==
    \A c \in Callers :
       pc[c] = "forked" \/ (pc[c] = "waiting" /\ ~hasExitStatus[c]) =>
          \/ proc[pid[c]].state # "none"
          \/ ReaperHolds(pid[c])
          \/ /\ pc[c] = "forked"
             /\ processTable[pid[c]].present
             /\ processTable[pid[c]].status = run[c]

\* The table keeps no record of a child that has been reaped and whose handle
\* is gone, and a handle being destroyed finds its own record or none: the
\* branch ~ProcessHandle marks "Is this reachable?" is not
\* (Process.cpp:298-310).
TableClean ==
    /\ \A p \in Pids : processTable[p].present =>
          \/ ReaperHolds(p) \/ proc[p].state # "none"
          \/ \E c \in Callers : pc[c] = "forked" /\ pid[c] = p
    /\ \A c \in Callers :
          pc[c] \in {"waiting", "erase"} /\ processTable[pid[c]].present =>
             processTable[pid[c]].handle = {c}

\* Every command ends and its exit status is collected (Process.h: "Reap any
\* child processes which have exited").
CommandsEnd == \A c \in Callers : pc[c] = "waiting" ~> pc[c] = "idle"
=============================================================================
