---------------------------- MODULE MultiplexPool ----------------------------
(***************************************************************************)
(* The multiplexer and its pool of threads                                 *)
(* (src/src/ciconnect_service.cpp: multiplex; src/include/ThreadPool.h).   *)
(* A bundle enqueues one task per call and then waits for their futures in *)
(* order.  Tasks run on the pool's workers; a client's own request runs on *)
(* a server thread.  A call in a bundle may be a bundle again, and then it *)
(* waits on a worker.                                                      *)
(***************************************************************************)
EXTENDS Naturals, Sequences

CONSTANTS
    Workers,  \* threads of the pool
    Calls,    \* calls of request handlers, bundles among them
    Parts     \* Parts[c]: the calls bundle c asks for; <<>> for any other

PartsOf(c) == {Parts[c][i] : i \in 1 .. Len(Parts[c])}
Parents(c) == {b \in Calls : c \in PartsOf(b)}
Top == {c \in Calls : Parents(c) = {}}

\* A call is asked for in one place.
ASSUME PartsAssumption ==
    /\ Parts \in [Calls -> Seq(Calls)]
    /\ \A b, c \in Calls : \A i \in 1 .. Len(Parts[b]), j \in 1 .. Len(Parts[c]) :
          Parts[b][i] = Parts[c][j] => b = c /\ i = j

VARIABLES
    tasks,     \* the pool's queue
    worker,    \* control point of each worker
    running,   \* the call a worker runs
    status,    \* of each call; "queued" calls are those in tasks
    sent,      \* how many of its tasks a bundle has pushed
    owes,      \* bundles that have pushed a task and not yet notified
    got,       \* how many futures a bundle has got
    outcome,   \* "ok", or "threw" where the future holds an exception
    stop       \* ThreadPool::stop

handlers == <<status, sent, owes, got, outcome>>
pool == <<tasks, worker, running, stop>>
vars == <<tasks, worker, running, status, sent, owes, got, outcome, stop>>

Width(c) == Len(Parts[c])

Init ==
    /\ tasks = <<>>
    /\ worker = [w \in Workers |-> "test"]
    /\ running \in [Workers -> Calls]
    /\ status = [c \in Calls |-> "new"]
    /\ sent = [c \in Calls |-> 0]
    /\ owes = {}
    /\ got = [c \in Calls |-> 0]
    /\ outcome = [c \in Calls |-> "none"]
    /\ stop = FALSE
-----------------------------------------------------------------------------
\* A client sends a request; a server thread begins to handle it.
Submit(c) ==
    /\ ~stop
    /\ c \in Top /\ status[c] = "new"
    /\ status' = [status EXCEPT ![c] = "handling"]
    /\ UNCHANGED <<pool, sent, owes, got, outcome>>

\* enqueue: under the lock, the task goes to the end of the queue.
Push(c) ==
    /\ status[c] = "handling" /\ c \notin owes
    /\ sent[c] < Width(c)
    /\ LET part == Parts[c][sent[c] + 1]
       IN  /\ tasks' = Append(tasks, part)
           /\ status' = [status EXCEPT ![part] = "queued"]
    /\ sent' = [sent EXCEPT ![c] = @ + 1]
    /\ owes' = owes \cup {c}
    /\ UNCHANGED <<worker, running, stop, got, outcome>>

\* Mutant of Notify: nobody is notified.
NotifyNobody(c) ==
    /\ c \in owes
    /\ owes' = owes \ {c}
    /\ UNCHANGED <<pool, status, sent, got, outcome>>

\* enqueue: notify_one, after the lock has been released.  A spurious wake-up
\* would only make a worker test again.
Notify(c) ==
    /\ c \in owes
    /\ owes' = owes \ {c}
    /\ \/ \E w \in Workers : worker[w] = "asleep" /\ worker' = [worker EXCEPT ![w] = "test"]
       \/ (\A w \in Workers : worker[w] # "asleep") /\ UNCHANGED worker
    /\ UNCHANGED <<tasks, running, stop, status, sent, got, outcome>>

\* Mutant of Get: an exception ends the collection of the results.
GetUnlessThrown(c) ==
    /\ status[c] = "handling" /\ c \notin owes
    /\ sent[c] = Width(c) /\ got[c] < Width(c)
    /\ LET part == Parts[c][got[c] + 1]
       IN  /\ status[part] = "answered"
           /\ got' = [got EXCEPT ![c] = IF outcome[part] = "threw" THEN Width(c) ELSE @ + 1]
    /\ UNCHANGED <<pool, status, sent, owes, outcome>>

\* Mutant of Get: the index moves on in the catch clause as well.
GetSkipping(c) ==
    /\ status[c] = "handling" /\ c \notin owes
    /\ sent[c] = Width(c) /\ got[c] < Width(c)
    /\ LET part == Parts[c][got[c] + 1]
       IN  /\ status[part] = "answered"
           /\ got' = [got EXCEPT ![c] = IF outcome[part] = "threw" THEN @ + 2 ELSE @ + 1]
    /\ UNCHANGED <<pool, status, sent, owes, outcome>>

\* responses[i].get(): returns or throws once the task has ended.  Both are
\* entered in the result.
Get(c) ==
    /\ status[c] = "handling" /\ c \notin owes
    /\ sent[c] = Width(c) /\ got[c] < Width(c)
    /\ status[Parts[c][got[c] + 1]] = "answered"
    /\ got' = [got EXCEPT ![c] = @ + 1]
    /\ UNCHANGED <<pool, status, sent, owes, outcome>>

\* The handler ends.  A worker goes back to the queue.
Return(c) ==
    /\ status[c] = "handling" /\ c \notin owes
    /\ sent[c] = Width(c) /\ got[c] = Width(c)
    /\ status' = [status EXCEPT ![c] = "answered"]
    /\ \E o \in {"ok", "threw"} : outcome' = [outcome EXCEPT ![c] = o]
    /\ worker' = [w \in Workers |->
                    IF worker[w] = "run" /\ running[w] = c THEN "test" ELSE worker[w]]
    /\ UNCHANGED <<tasks, running, stop, sent, owes, got>>

\* Mutant of TakeTask: the task is moved from the queue but not popped.
TakeTaskNoPop(w) ==
    /\ worker[w] = "test" /\ tasks # <<>>
    /\ worker' = [worker EXCEPT ![w] = "run"]
    /\ running' = [running EXCEPT ![w] = Head(tasks)]
    /\ status' = [status EXCEPT ![Head(tasks)] = "handling"]
    /\ UNCHANGED <<tasks, stop, sent, owes, got, outcome>>

\* The worker's loop, each time under the lock: take the first task, or wait,
\* or, if the pool is being destroyed and nothing is left to do, end.
TakeTask(w) ==
    /\ worker[w] = "test" /\ tasks # <<>>
    /\ worker' = [worker EXCEPT ![w] = "run"]
    /\ running' = [running EXCEPT ![w] = Head(tasks)]
    /\ tasks' = Tail(tasks)
    /\ status' = [status EXCEPT ![Head(tasks)] = "handling"]
    /\ UNCHANGED <<stop, sent, owes, got, outcome>>

Wait(w) ==
    /\ worker[w] = "test" /\ tasks = <<>> /\ ~stop
    /\ worker' = [worker EXCEPT ![w] = "asleep"]
    /\ UNCHANGED <<handlers, tasks, running, stop>>

End(w) ==
    /\ worker[w] = "test" /\ tasks = <<>> /\ stop
    /\ worker' = [worker EXCEPT ![w] = "ended"]
    /\ UNCHANGED <<handlers, tasks, running, stop>>

\* Mutant of Stop: notify_one instead of notify_all.
StopWakesOne ==
    /\ ~stop
    /\ \A c \in Top : status[c] # "handling"
    /\ stop' = TRUE
    /\ \/ \E w \in Workers : worker[w] = "asleep" /\ worker' = [worker EXCEPT ![w] = "test"]
       \/ (\A w \in Workers : worker[w] # "asleep") /\ UNCHANGED worker
    /\ UNCHANGED <<handlers, tasks, running>>

\* ~ThreadPool, when the server has returned and no client waits any more.
Stop ==
    /\ ~stop
    /\ \A c \in Top : status[c] # "handling"
    /\ stop' = TRUE
    /\ worker' = [w \in Workers |-> IF worker[w] = "asleep" THEN "test" ELSE worker[w]]
    /\ UNCHANGED <<handlers, tasks, running>>

Handle(c) == Push(c) \/ Notify(c) \/ Get(c) \/ Return(c)
Work(w) == TakeTask(w) \/ Wait(w) \/ End(w)

Next ==
    \/ \E c \in Calls : Submit(c) \/ Handle(c)
    \/ \E w \in Workers : Work(w)
    \/ Stop

Spec == Init /\ [][Next]_vars

\* Threads run; no client has to send a request, and the server need not stop.
FairSpec ==
    /\ Spec
    /\ \A c \in Calls : WF_vars(Handle(c))
    /\ \A w \in Workers : WF_vars(Work(w))
-----------------------------------------------------------------------------
TypeOK ==
    /\ tasks \in Seq(Calls)
    /\ worker \in [Workers -> {"test", "asleep", "run", "ended"}]
    /\ running \in [Workers -> Calls]
    /\ status \in [Calls -> {"new", "queued", "handling", "answered"}]
    /\ sent \in [Calls -> Nat] /\ got \in [Calls -> Nat]
    /\ \A c \in Calls : got[c] <= sent[c] /\ sent[c] <= Width(c)
    /\ owes \subseteq Calls
    /\ outcome \in [Calls -> {"none", "ok", "threw"}]
    /\ stop \in BOOLEAN

\* A task refers to the request in the local vector of the handler that
\* enqueued it (ciconnect_service.cpp:241): while the task is queued or runs,
\* that handler has not returned, whatever other tasks throw.
RequestsOutliveTasks ==
    \A c \in Calls : \A p \in PartsOf(c) :
       status[p] \in {"queued", "handling"} => status[c] = "handling"

\* No call is run by two workers, nor run and still queued (ThreadPool.h:74-77).
RunOnce ==
    /\ \A v, w \in Workers :
          worker[v] = "run" /\ worker[w] = "run" /\ running[v] = running[w] => v = w
    /\ \A w \in Workers : \A i \in 1 .. Len(tasks) :
          worker[w] = "run" => tasks[i] # running[w]

\* The promise of the multiplexer (see BundleService).
ServiceStatus ==
    [c \in Calls |-> CASE status[c] \in {"new", "queued"} -> "new"
                       [] status[c] = "handling"          -> "started"
                       [] OTHER                           -> "answered"]
Service == INSTANCE BundleService WITH status <- ServiceStatus
ServiceSpec == Service!Spec

\* All threads of the pool run bundles that wait.
AllBlocked ==
    \A w \in Workers : worker[w] = "run" /\ got[running[w]] < Width(running[w])

\* Every request is answered, unless at some time all threads of the pool are
\* held by bundles inside bundles: no notification is lost between the push
\* and the test of the queue (ThreadPool.h:70-77, 101-107).
AnsweredUnlessAllBlocked ==
    []~AllBlocked => \A c \in Top : (status[c] = "handling" ~> status[c] = "answered")

\* The destructor's join returns (ThreadPool.h:112-121).
PoolEnds == stop ~> \A w \in Workers : worker[w] = "ended"
=============================================================================
