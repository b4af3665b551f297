------------------------------- MODULE LockFile -------------------------------
(***************************************************************************)
(* The lock file of the provisioner (src/src/sync_users.cpp: LockFile,     *)
(* processExists).  The constructor reads the file, then truncates it, then*)
(* writes its process ID when the stream is closed: three steps, between   *)
(* which another process may take its own.  The destructor unlinks the     *)
(* file, whoever wrote it.                                                 *)
(***************************************************************************)
EXTENDS Naturals

CONSTANT Instances    \* processes of sync_users, which stand for their PIDs

VARIABLES
    file,     \* "absent", "empty", or the PID in it
    stage,    \* where each process is; "off": there is no such process
    doubt     \* history: constructors have overlapped, or a PID was not
              \* written, since the processes now there were last alone

lockVars == <<file, stage, doubt>>

ASSUME PidAssumption == "absent" \notin Instances /\ "empty" \notin Instances

Stages == {"off", "test", "open", "write", "inside", "unlink"}
Move(i, label) == stage' = [stage EXCEPT ![i] = label]

\* Between the test and the end of the write.
Acquiring(i) == stage[i] \in {"open", "write"}
Holding(i) == stage[i] \in {"inside", "unlink"}

LockInit ==
    /\ file \in {"absent", "empty"} \cup Instances
    /\ stage = [i \in Instances |-> "off"]
    /\ doubt = FALSE

\* A process starts; if it is the only one, what went before is over.
Launch(i) ==
    /\ stage[i] = "off"
    /\ Move(i, "test")
    /\ doubt' = (doubt /\ \E j \in Instances \ {i} : stage[j] # "off")
    /\ UNCHANGED file

\* Mutant of TestFile: no test whether the process exists.
TestFileForgetful(i) ==
    /\ stage[i] = "test"
    /\ Move(i, "open")
    /\ doubt' = (doubt \/ \E j \in Instances \ {i} : Acquiring(j))
    /\ UNCHANGED file

\* There is no file, nothing in it, or the PID of no process.  The reading of
\* the PID and kill(pid,0) are one step: what comes between them is another
\* constructor, and that they overlap is noted all the same.
TestFile(i) ==
    /\ stage[i] = "test"
    /\ file \in Instances => stage[file] = "off"
    /\ Move(i, "open")
    /\ doubt' = (doubt \/ \E j \in Instances \ {i} : Acquiring(j))
    /\ UNCHANGED file

\* The PID is that of a process, of sync_users or of another program.
Refuse(i) ==
    /\ stage[i] = "test"
    /\ file \in Instances
    /\ Move(i, "off")
    /\ UNCHANGED <<file, doubt>>

OpenFile(i) ==
    /\ stage[i] = "open"
    /\ file' = "empty"
    /\ Move(i, "write")
    /\ UNCHANGED doubt

WritePid(i) ==
    /\ stage[i] = "write"
    /\ file' = i
    /\ Move(i, "inside")
    /\ UNCHANGED doubt

\* The stream is tested before it is flushed: a failure then goes unnoticed.
LosePid(i) ==
    /\ stage[i] = "write"
    /\ Move(i, "inside")
    /\ doubt' = TRUE
    /\ UNCHANGED file

\* The file cannot be opened: log_fatal.
OpenFails(i) ==
    /\ stage[i] = "open"
    /\ Move(i, "off")
    /\ UNCHANGED <<file, doubt>>

Leave(i) ==
    /\ stage[i] = "inside"
    /\ Move(i, "unlink")
    /\ UNCHANGED <<file, doubt>>

\* ~LockFile.
Unlink(i) ==
    /\ stage[i] = "unlink"
    /\ file' = "absent"
    /\ Move(i, "off")
    /\ UNCHANGED doubt

\* The process is killed, or terminates without unwinding its stack.
Vanish(i) ==
    /\ stage[i] # "off"
    /\ Move(i, "off")
    /\ UNCHANGED <<file, doubt>>

Acquire(i) ==
    TestFile(i) \/ Refuse(i) \/ OpenFile(i) \/ WritePid(i) \/ LosePid(i) \/ OpenFails(i)

LockNext == \E i \in Instances : Launch(i) \/ Acquire(i) \/ Leave(i) \/ Unlink(i) \/ Vanish(i)

LockSpec == LockInit /\ [][LockNext]_lockVars
-----------------------------------------------------------------------------
LockTypeOK ==
    /\ file \in {"absent", "empty"} \cup Instances
    /\ stage \in [Instances -> Stages]
    /\ doubt \in BOOLEAN

\* One provisioner at a time (sync_users.cpp:211-212), as long as no two
\* constructors have overlapped since they were last alone, whatever PIDs
\* killed processes have left in the file.
Exclusive ==
    ~doubt => \A i, j \in Instances : Holding(i) /\ Holding(j) => i = j
=============================================================================
