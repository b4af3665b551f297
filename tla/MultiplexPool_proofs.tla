------------------------- MODULE MultiplexPool_proofs -------------------------
(***************************************************************************)
(* Proofs about MultiplexPool, for any number of workers and any nesting   *)
(* of bundles.                                                             *)
(***************************************************************************)
EXTENDS MultiplexPool, TLAPS

USE DEF vars, pool, handlers

\* The tasks in the queue are calls that have been pushed and not taken.
Queue ==
    /\ \A i \in 1 .. Len(tasks) : status[tasks[i]] = "queued"
    /\ \A i, j \in 1 .. Len(tasks) : tasks[i] = tasks[j] => i = j

\* A worker runs a call nobody else runs.
Workplace ==
    /\ \A w \in Workers : worker[w] = "run" => status[running[w]] = "handling"
    /\ \A v, w \in Workers :
          worker[v] = "run" /\ worker[w] = "run" /\ running[v] = running[w] => v = w

\* A bundle has pushed its first calls and has got the results of the first
\* of them.
Progress ==
    \A c \in Calls :
       /\ \A k \in 1 .. Width(c) : k > sent[c] <=> status[Parts[c][k]] = "new"
       /\ \A k \in 1 .. Width(c) : k <= got[c] => status[Parts[c][k]] = "answered"

\* It does so while it is being handled, and to the end.
Course ==
    /\ \A c \in Calls : status[c] \in {"new", "queued"} => sent[c] = 0
    /\ \A c \in Calls : status[c] = "answered" => got[c] = Width(c)
    /\ \A c \in owes : status[c] = "handling"

IInv == TypeOK /\ Queue /\ Workplace /\ Progress /\ Course

-----------------------------------------------------------------------------
\* The calls a bundle asks for.
LEMMA PartType ==
    ASSUME NEW c \in Calls
    PROVE  /\ Width(c) \in Nat
           /\ \A k \in 1 .. Width(c) : Parts[c][k] \in Calls /\ Parts[c][k] \in PartsOf(c)
           /\ \A p \in PartsOf(c) : \E k \in 1 .. Width(c) : p = Parts[c][k]
<1>1. Parts[c] \in Seq(Calls)
    BY PartsAssumption
<1> QED BY <1>1 DEF Width, PartsOf

\* A call is asked for in one place (PartsAssumption).
LEMMA PartUnique ==
    ASSUME NEW b \in Calls, NEW c \in Calls, NEW i \in 1 .. Width(b), NEW j \in 1 .. Width(c),
           Parts[b][i] = Parts[c][j]
    PROVE  b = c /\ i = j
BY PartsAssumption DEF Width

LEMMA PoolInit == Init => IInv
<1> SUFFICES ASSUME Init PROVE IInv
    OBVIOUS
<1>1. TypeOK
  <2>1. tasks \in Seq(Calls)
      BY DEF Init
  <2>2. \A c \in Calls : got[c] <= sent[c] /\ sent[c] <= Width(c)
      BY PartType DEF Init
  <2> QED BY <2>1, <2>2 DEF Init, TypeOK
<1>2. Queue /\ Workplace /\ Course
    BY DEF Init, Queue, Workplace, Course
<1>3. Progress
    BY PartType DEF Init, Progress
<1> QED BY <1>1, <1>2, <1>3 DEF IInv

\* The first task and the rest of the queue.
LEMMA QueueEnds ==
    ASSUME tasks \in Seq(Calls), tasks # <<>>
    PROVE  /\ Head(tasks) = tasks[1] /\ 1 \in 1 .. Len(tasks) /\ Head(tasks) \in Calls
           /\ Tail(tasks) \in Seq(Calls)
           /\ Len(Tail(tasks)) = Len(tasks) - 1
           /\ \A i \in 1 .. Len(Tail(tasks)) :
                 i + 1 \in 1 .. Len(tasks) /\ Tail(tasks)[i] = tasks[i + 1]
OBVIOUS

LEMMA QueueGrows ==
    ASSUME tasks \in Seq(Calls), NEW c \in Calls
    PROVE  /\ Append(tasks, c) \in Seq(Calls)
           /\ Len(Append(tasks, c)) = Len(tasks) + 1
           /\ Append(tasks, c)[Len(tasks) + 1] = c
           /\ \A i \in 1 .. Len(tasks) : Append(tasks, c)[i] = tasks[i]
OBVIOUS

-----------------------------------------------------------------------------
(* The steps that preserve the invariant, one by one. *)

\* What is sent is a client's own request, which no bundle asks for.
LEMMA SubmitStep == ASSUME IInv, NEW c \in Calls, Submit(c) PROVE IInv'
<1> USE DEF IInv, Submit
<1>1. TypeOK'
    BY DEF TypeOK
<1>2. \A b \in Calls : \A k \in 1 .. Width(b) : Parts[b][k] # c
    BY PartType DEF Top, Parents
<1>3. \A d \in Calls : d # c => status'[d] = status[d]
    BY DEF TypeOK
<1>4. status'[c] = "handling" /\ status[c] = "new"
    BY DEF TypeOK
<1>5. \A i \in 1 .. Len(tasks) : tasks[i] \in Calls
    BY DEF TypeOK
<1>6. Queue'
    BY <1>3, <1>4, <1>5 DEF Queue
<1>7. Workplace'
    BY <1>3, <1>4 DEF Workplace, TypeOK
<1>8. Progress'
    BY <1>2, <1>3, PartType DEF Progress
<1>9. Course'
    BY <1>3, <1>4 DEF Course, TypeOK
<1> QED BY <1>1, <1>6, <1>7, <1>8, <1>9

\* What is pushed has been nowhere before.
LEMMA PushStep == ASSUME IInv, NEW c \in Calls, Push(c) PROVE IInv'
<1> DEFINE n == sent[c] + 1
           part == Parts[c][n]
<1> USE DEF IInv
<1>0. /\ status[c] = "handling" /\ c \notin owes /\ sent[c] < Width(c)
      /\ tasks' = Append(tasks, part)
      /\ status' = [status EXCEPT ![part] = "queued"]
      /\ sent' = [sent EXCEPT ![c] = @ + 1]
      /\ owes' = owes \cup {c}
      /\ UNCHANGED <<worker, running, stop, got, outcome>>
    BY DEF Push
<1>1. sent[c] \in Nat /\ Width(c) \in Nat /\ n \in 1 .. Width(c)
    BY <1>0, PartType DEF TypeOK
<1>2. part \in Calls /\ status[part] = "new" /\ part # c
    BY <1>0, <1>1, PartType DEF Progress
<1>3. \A d \in Calls : d # part => status'[d] = status[d]
    BY <1>0, <1>2 DEF TypeOK
<1>4. status'[part] = "queued"
    BY <1>0, <1>2 DEF TypeOK
<1>5. TypeOK'
  <2>1. tasks' \in Seq(Calls)
      BY <1>0, <1>2, QueueGrows DEF TypeOK
  <2>2. \A d \in Calls : got'[d] <= sent'[d] /\ sent'[d] <= Width(d)
      BY <1>0, <1>1 DEF TypeOK
  <2> HIDE DEF part, n
  <2> QED BY <1>0, <1>1, <1>2, <2>1, <2>2 DEF TypeOK
<1>6. Queue'
  <2> HIDE DEF part, n
  <2>1. \A i \in 1 .. Len(tasks) : tasks[i] \in Calls /\ tasks[i] # part
      BY <1>2 DEF Queue, TypeOK
  <2>2. \A i \in 1 .. Len(tasks') :
           \/ i \in 1 .. Len(tasks) /\ tasks'[i] = tasks[i]
           \/ i = Len(tasks) + 1 /\ tasks'[i] = part
      BY <1>0, <1>2, QueueGrows DEF TypeOK
  <2> QED BY <1>3, <1>4, <2>1, <2>2 DEF Queue
<1>7. Workplace'
    BY <1>0, <1>2, <1>3 DEF Workplace, TypeOK
<1>8. Progress'
  <2>1. ASSUME NEW d \in Calls, NEW k \in 1 .. Width(d), <<d, k>> # <<c, n>>
        PROVE  Parts[d][k] # part
      BY <2>1, <1>1, PartUnique
  <2>2. sent'[c] = n /\ \A d \in Calls : d # c => sent'[d] = sent[d]
      BY <1>0 DEF TypeOK
  <2>3. ASSUME NEW d \in Calls, NEW k \in 1 .. Width(d)
        PROVE  k > sent'[d] <=> status'[Parts[d][k]] = "new"
    <3>1. CASE <<d, k>> = <<c, n>>
        BY <3>1, <1>1, <1>4, <2>2
    <3>2. CASE <<d, k>> # <<c, n>>
      <4>1. status'[Parts[d][k]] = status[Parts[d][k]]
          BY <3>2, <2>1, <1>3, PartType
      <4>2. k > sent'[d] <=> k > sent[d]
        <5>1. CASE d = c
            BY <3>2, <5>1, <1>1, <2>2
        <5>2. CASE d # c
            BY <5>2, <2>2
        <5> QED BY <5>1, <5>2
      <4> QED BY <4>1, <4>2 DEF Progress
    <3> QED BY <3>1, <3>2
  <2>4. ASSUME NEW d \in Calls, NEW k \in 1 .. Width(d), k <= got'[d]
        PROVE  status'[Parts[d][k]] = "answered"
      BY <2>4, <1>0, <1>2, <1>3, PartType DEF Progress
  <2> QED BY <2>3, <2>4 DEF Progress
<1>9. Course'
  <2> HIDE DEF part, n
  <2>1. \A d \in Calls : d # c => sent'[d] = sent[d]
      BY <1>0 DEF TypeOK
  <2>2. sent[part] = 0
      BY <1>2 DEF Course
  <2>3. status'[c] = "handling"
      BY <1>0, <1>2, <1>3
  <2> QED BY <1>0, <1>2, <1>3, <1>4, <2>1, <2>2, <2>3 DEF Course, TypeOK
<1> QED BY <1>5, <1>6, <1>7, <1>8, <1>9

\* Waking a worker, and going to sleep, change no call.
LEMMA WakeStep ==
    ASSUME IInv, UNCHANGED <<tasks, running, status, sent, got, outcome>>,
           owes' \subseteq owes, stop' \in BOOLEAN,
           worker' \in [Workers -> {"test", "asleep", "run", "ended"}],
           \A w \in Workers : worker'[w] = "run" => worker[w] = "run"
    PROVE  IInv'
BY DEF IInv, TypeOK, Queue, Workplace, Progress, Course

LEMMA NotifyStep == ASSUME IInv, NEW c \in Calls, Notify(c) PROVE IInv'
<1>1. worker' \in [Workers -> {"test", "asleep", "run", "ended"}]
      /\ \A w \in Workers : worker'[w] = "run" => worker[w] = "run"
    BY DEF Notify, IInv, TypeOK
<1> QED BY <1>1, WakeStep DEF Notify, IInv, TypeOK

LEMMA IdleWorkerStep == ASSUME IInv, NEW w \in Workers, Wait(w) \/ End(w) PROVE IInv'
<1>1. worker' \in [Workers -> {"test", "asleep", "run", "ended"}]
      /\ \A v \in Workers : worker'[v] = "run" => worker[v] = "run"
    BY DEF Wait, End, IInv, TypeOK
<1> QED BY <1>1, WakeStep DEF Wait, End, IInv, TypeOK

LEMMA StopStep == ASSUME IInv, Stop PROVE IInv'
<1>1. worker' \in [Workers -> {"test", "asleep", "run", "ended"}]
      /\ \A v \in Workers : worker'[v] = "run" => worker[v] = "run"
    BY DEF Stop, IInv, TypeOK
<1> QED BY <1>1, WakeStep DEF Stop, IInv, TypeOK

LEMMA GetStep == ASSUME IInv, NEW c \in Calls, Get(c) PROVE IInv'
<1> USE DEF IInv, Get
<1>1. got[c] \in Nat /\ Width(c) \in Nat
    BY PartType DEF TypeOK
<1>2. got'[c] = got[c] + 1 /\ \A d \in Calls : d # c => got'[d] = got[d]
    BY DEF TypeOK
<1>3. TypeOK'
  <2>1. \A d \in Calls : got'[d] <= sent'[d] /\ sent'[d] <= Width(d)
      BY <1>1, <1>2 DEF TypeOK
  <2> QED BY <2>1, <1>1 DEF TypeOK
<1>4. Queue' /\ Workplace'
    BY DEF Queue, Workplace
<1>5. Progress'
    BY <1>1, <1>2 DEF Progress
<1>6. Course'
    BY <1>2 DEF Course
<1> QED BY <1>3, <1>4, <1>5, <1>6

\* A call that returns was nowhere else: its worker is free again.
LEMMA ReturnStep == ASSUME IInv, NEW c \in Calls, Return(c) PROVE IInv'
<1> USE DEF IInv
<1>0. /\ status[c] = "handling" /\ c \notin owes /\ sent[c] = Width(c) /\ got[c] = Width(c)
      /\ status' = [status EXCEPT ![c] = "answered"]
      /\ worker' = [w \in Workers |->
                      IF worker[w] = "run" /\ running[w] = c THEN "test" ELSE worker[w]]
      /\ UNCHANGED <<tasks, running, stop, sent, owes, got>>
      /\ \E o \in {"ok", "threw"} : outcome' = [outcome EXCEPT ![c] = o]
    BY DEF Return
<1>1. status'[c] = "answered" /\ \A d \in Calls : d # c => status'[d] = status[d]
    BY <1>0 DEF TypeOK
<1>2. \A w \in Workers : worker'[w] = "run" => worker[w] = "run" /\ running[w] # c
    BY <1>0
<1>3. TypeOK'
  <2>1. outcome' \in [Calls -> {"none", "ok", "threw"}]
      BY <1>0 DEF TypeOK
  <2>2. worker' \in [Workers -> {"test", "asleep", "run", "ended"}]
      BY <1>0 DEF TypeOK
  <2> QED BY <1>0, <2>1, <2>2 DEF TypeOK
<1>4. Queue'
  <2>1. \A i \in 1 .. Len(tasks) : tasks[i] \in Calls /\ tasks[i] # c
      BY <1>0 DEF Queue, TypeOK
  <2> QED BY <1>0, <1>1, <2>1 DEF Queue
<1>5. Workplace'
    BY <1>0, <1>1, <1>2 DEF Workplace, TypeOK
<1>6. Progress'
    BY <1>0, <1>1, PartType DEF Progress
<1>7. Course'
    BY <1>0, <1>1 DEF Course, TypeOK
<1> QED BY <1>3, <1>4, <1>5, <1>6, <1>7

\* A worker that takes the first task is the only one to have it.
LEMMA TakeTaskStep == ASSUME IInv, NEW w \in Workers, TakeTask(w) PROVE IInv'
<1> DEFINE head == Head(tasks)
<1> USE DEF IInv
<1>0. /\ worker[w] = "test" /\ tasks # <<>>
      /\ worker' = [worker EXCEPT ![w] = "run"]
      /\ running' = [running EXCEPT ![w] = head]
      /\ tasks' = Tail(tasks)
      /\ status' = [status EXCEPT ![head] = "handling"]
      /\ UNCHANGED <<stop, sent, owes, got, outcome>>
    BY DEF TakeTask
<1>1. /\ tasks \in Seq(Calls) /\ Len(tasks) \in Nat
      /\ head = tasks[1] /\ 1 \in 1 .. Len(tasks) /\ head \in Calls
      /\ Len(tasks') = Len(tasks) - 1 /\ tasks' \in Seq(Calls)
      /\ \A i \in 1 .. Len(tasks') : i + 1 \in 1 .. Len(tasks) /\ tasks'[i] = tasks[i + 1]
    BY <1>0, QueueEnds DEF TypeOK
<1> HIDE DEF head
<1>2. status[head] = "queued"
    BY <1>1 DEF Queue
<1>3. status'[head] = "handling" /\ \A d \in Calls : d # head => status'[d] = status[d]
    BY <1>0, <1>1 DEF TypeOK
<1>4. TypeOK'
    BY <1>0, <1>1 DEF TypeOK
<1>5. Queue'
  <2>1. \A i \in 1 .. Len(tasks') :
           tasks'[i] \in Calls /\ tasks'[i] # head /\ status[tasks'[i]] = "queued"
    <3>1. ASSUME NEW i \in 1 .. Len(tasks')
          PROVE  tasks'[i] \in Calls /\ tasks'[i] # head /\ status[tasks'[i]] = "queued"
      <4>1. i + 1 \in 1 .. Len(tasks) /\ i + 1 # 1 /\ tasks'[i] = tasks[i + 1]
          BY <1>1
      <4> QED BY <1>1, <4>1 DEF Queue, TypeOK
    <3> QED BY <3>1
  <2>2. \A i, j \in 1 .. Len(tasks') : tasks'[i] = tasks'[j] => i = j
      BY <1>1 DEF Queue
  <2> QED BY <1>1, <1>3, <2>1, <2>2 DEF Queue
<1>6. Workplace'
  <2>1. \A v \in Workers \ {w} : worker'[v] = worker[v] /\ running'[v] = running[v]
      BY <1>0 DEF TypeOK
  <2>2. running'[w] = head
      BY <1>0 DEF TypeOK
  <2>3. \A v \in Workers : worker[v] = "run" => running[v] # head /\ running[v] \in Calls
      BY <1>2 DEF Workplace, TypeOK
  <2> QED BY <1>3, <2>1, <2>2, <2>3 DEF Workplace
<1>7. Progress'
    BY <1>0, <1>2, <1>3, PartType DEF Progress
<1>8. Course'
    BY <1>0, <1>1, <1>2, <1>3 DEF Course, TypeOK
<1> QED BY <1>4, <1>5, <1>6, <1>7, <1>8

LEMMA PoolStep == IInv /\ [Next]_vars => IInv'
<1> SUFFICES ASSUME IInv, [Next]_vars PROVE IInv'
    OBVIOUS
<1>1. CASE UNCHANGED vars
    BY <1>1 DEF IInv, TypeOK, Queue, Workplace, Progress, Course
<1>2. ASSUME NEW c \in Calls, Submit(c) \/ Handle(c) PROVE IInv'
    BY <1>2, SubmitStep, PushStep, NotifyStep, GetStep, ReturnStep DEF Handle
<1>3. ASSUME NEW w \in Workers, Work(w) PROVE IInv'
    BY <1>3, TakeTaskStep, IdleWorkerStep DEF Work
<1> QED BY <1>1, <1>2, <1>3, StopStep DEF Next

THEOREM PoolInvariant == Spec => []IInv
BY PoolInit, PoolStep, PTL DEF Spec

-----------------------------------------------------------------------------
\* Every variable keeps its type, and no bundle gets more results than it has
\* pushed tasks (ciconnect_service.cpp, multiplex).
THEOREM TypeCorrect == Spec => []TypeOK
BY PoolInvariant, PTL DEF IInv

\* No call is run by two workers, nor run and still queued (ThreadPool.h).
THEOREM TasksRunOnce == Spec => []RunOnce
<1>1. IInv => RunOnce
  <2> SUFFICES ASSUME IInv PROVE RunOnce
      OBVIOUS
  <2>1. ASSUME NEW w \in Workers, NEW i \in 1 .. Len(tasks), worker[w] = "run"
        PROVE  tasks[i] # running[w]
      BY <2>1 DEF IInv, Queue, Workplace
  <2> QED BY <2>1 DEF IInv, Workplace, RunOnce
<1> QED BY PoolInvariant, <1>1, PTL

\* While a task is queued or runs, the handler whose local vector it refers to
\* has not returned (ciconnect_service.cpp, multiplex).
LEMMA NoOrphans == IInv => RequestsOutliveTasks
<1> SUFFICES ASSUME IInv, NEW c \in Calls, NEW p \in PartsOf(c),
                    status[p] \in {"queued", "handling"}
             PROVE  status[c] = "handling"
    BY DEF RequestsOutliveTasks
<1>1. PICK k \in 1 .. Width(c) : p = Parts[c][k]
    BY PartType
<1>2. ~ (k > sent[c]) /\ ~ (k <= got[c])
    BY <1>1 DEF IInv, Progress
<1>3. k \in Nat /\ k >= 1 /\ k <= Width(c)
    BY PartType
<1>4. sent[c] # 0 /\ got[c] # Width(c)
    BY <1>2, <1>3 DEF IInv, TypeOK
<1> QED BY <1>4 DEF IInv, Course, TypeOK

THEOREM NoTaskOrphaned == Spec => []RequestsOutliveTasks
BY PoolInvariant, NoOrphans, PTL

-----------------------------------------------------------------------------
(* The pool implements BundleService. *)

\* The two modules speak of the same bundles.
LEMMA SameParts ==
    \A c \in Calls : Service!PartsOf(c) = PartsOf(c) /\ Service!Parents(c) = Parents(c)
BY DEF Service!PartsOf, Service!Parents, PartsOf, Parents

\* A queued call is to the client one that has not begun.
Seen(s) ==
    CASE s \in {"new", "queued"} -> "new"
      [] s = "handling"          -> "started"
      [] OTHER                   -> "answered"

LEMMA SeenStatus == ServiceStatus = [c \in Calls |-> Seen(status[c])]
BY DEF ServiceStatus, Seen

LEMMA SeenValues ==
    /\ Seen("new") = "new" /\ Seen("queued") = "new"
    /\ Seen("handling") = "started" /\ Seen("answered") = "answered"
BY DEF Seen

\* A change of one call's status is at most a change of one call.
LEMMA SeenChange ==
    ASSUME status \in [Calls -> {"new", "queued", "handling", "answered"}],
           NEW c \in Calls, NEW s, status' = [status EXCEPT ![c] = s]
    PROVE  ServiceStatus' = [ServiceStatus EXCEPT ![c] = Seen(s)]
BY SeenStatus DEF ServiceStatus, Seen

\* A call begins while the bundle that asks for it is being handled.
LEMMA ServiceStart ==
    ASSUME IInv, NEW c \in Calls, status[c] \in {"new", "queued"},
           \A b \in Parents(c) : status[b] = "handling",
           status' = [status EXCEPT ![c] = "handling"]
    PROVE  Service!Start(c)
<1>1. ServiceStatus[c] = "new"
    BY SeenStatus, SeenValues
<1>2. \A b \in Parents(c) : ServiceStatus[b] = "started"
    BY SeenStatus, SeenValues DEF Parents
<1>3. ServiceStatus' = [ServiceStatus EXCEPT ![c] = Seen("handling")]
    BY SeenChange DEF IInv, TypeOK
<1> QED BY <1>1, <1>2, <1>3, SameParts, SeenValues DEF Service!Start

\* It is answered when all that it asked for has been.
LEMMA ServiceAnswer == ASSUME IInv, NEW c \in Calls, Return(c) PROVE Service!Answer(c)
<1>1. ServiceStatus[c] = "started"
    BY SeenStatus, SeenValues DEF Return
<1>2. \A p \in PartsOf(c) : ServiceStatus[p] = "answered"
  <2>1. ASSUME NEW p \in PartsOf(c) PROVE p \in Calls /\ status[p] = "answered"
    <3>1. PICK k \in 1 .. Width(c) : p = Parts[c][k]
        BY PartType
    <3> QED BY <3>1, PartType DEF Return, IInv, Progress
  <2> QED BY <2>1, SeenStatus, SeenValues
<1>3. ServiceStatus' = [ServiceStatus EXCEPT ![c] = Seen("answered")]
    BY SeenChange DEF IInv, TypeOK, Return
<1> QED BY <1>1, <1>2, <1>3, SameParts, SeenValues DEF Service!Answer

\* Pushing a call changes nothing for the client.
LEMMA ServicePush == ASSUME IInv, NEW c \in Calls, Push(c) PROVE ServiceStatus' = ServiceStatus
<1> DEFINE n == sent[c] + 1
           part == Parts[c][n]
<1>1. n \in 1 .. Width(c)
    BY PartType DEF Push, IInv, TypeOK
<1>2. part \in Calls /\ status[part] = "new"
    BY <1>1, PartType DEF IInv, TypeOK, Progress
<1>3. status' = [status EXCEPT ![part] = "queued"]
    BY DEF Push
<1> HIDE DEF part, n
<1>4. ServiceStatus' = [ServiceStatus EXCEPT ![part] = Seen("queued")]
    BY <1>2, <1>3, SeenChange DEF IInv, TypeOK
<1>5. ServiceStatus[part] = Seen("queued")
    BY <1>2, SeenStatus, SeenValues
<1> QED BY <1>2, <1>4, <1>5, SeenStatus

\* Every step of the pool is one of the service or leaves it alone.
LEMMA ServiceStep == IInv /\ [Next]_vars => [Service!Next]_ServiceStatus
<1> SUFFICES ASSUME IInv, [Next]_vars PROVE [Service!Next]_ServiceStatus
    OBVIOUS
<1>1. CASE UNCHANGED status
    BY <1>1 DEF ServiceStatus
<1>2. ASSUME NEW c \in Calls, Submit(c) PROVE Service!Start(c)
    BY <1>2, ServiceStart DEF Submit, Top
<1>3. ASSUME NEW c \in Calls, Push(c) PROVE ServiceStatus' = ServiceStatus
    BY <1>3, ServicePush
<1>4. ASSUME NEW c \in Calls, Notify(c) \/ Get(c) PROVE UNCHANGED status
    BY <1>4 DEF Notify, Get
<1>5. ASSUME NEW c \in Calls, Return(c) PROVE Service!Answer(c)
    BY <1>5, ServiceAnswer
<1>6. ASSUME NEW w \in Workers, TakeTask(w) PROVE \E c \in Calls : Service!Start(c)
  <2>1. Head(tasks) = tasks[1] /\ 1 \in 1 .. Len(tasks) /\ Head(tasks) \in Calls
      BY <1>6, QueueEnds DEF TakeTask, IInv, TypeOK
  <2>2. status[Head(tasks)] = "queued"
      BY <2>1 DEF IInv, Queue
  <2>3. \A b \in Parents(Head(tasks)) : status[b] = "handling"
      BY <2>2, NoOrphans DEF RequestsOutliveTasks, Parents
  <2> QED BY <1>6, <2>1, <2>2, <2>3, ServiceStart DEF TakeTask
<1>7. ASSUME NEW w \in Workers, Wait(w) \/ End(w) PROVE UNCHANGED status
    BY <1>7 DEF Wait, End
<1>8. Stop => UNCHANGED status
    BY DEF Stop
<1>9. UNCHANGED vars => UNCHANGED status
    OBVIOUS
<1> QED BY <1>1, <1>2, <1>3, <1>4, <1>5, <1>6, <1>7, <1>8, <1>9
        DEF Next, Handle, Work, Service!Next

\* To a client, every call is made at most once, those of a bundle only while
\* it is being handled, and a bundle is answered when all of its calls have
\* been (ciconnect_service.cpp, multiplex).
THEOREM PoolImplementsService == Spec => ServiceSpec
<1>1. Init => Service!Init
    BY SeenStatus, SeenValues DEF Init, Service!Init
<1> QED BY PoolInvariant, <1>1, ServiceStep, PTL DEF Spec, ServiceSpec, Service!Spec
=============================================================================
