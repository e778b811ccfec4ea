----------------------------- MODULE ThreadPool -----------------------------
(***************************************************************************)
(* The thread pool all parallel parts of uMCRG run on                      *)
(* (common/apsu/util/thread_pool.h) and the manager that creates it for    *)
(* the first user and destroys it after the last one                       *)
(* (common/apsu/thread_pool_mgr.cpp).                                      *)
(*                                                                         *)
(* What is done under queue_mutex is one action; so is a call of the       *)
(* manager, which holds tp_mutex.  A thread in a condition variable sleeps *)
(* until it is notified: there are no spurious wake-ups, so that a lost    *)
(* notification shows.  Workers are numbered by their place in the vector  *)
(* workers, of which only the last one can leave.                          *)
(***************************************************************************)
EXTENDS Integers, Sequences, FiniteSets

CONSTANTS
  Clients,      \* threads that use the pool
  TaskCount,    \* how many tasks each of them enqueues
  Failing,      \* the tasks that throw
  Sizes,        \* the values set_pool_size is called with
  Limits,       \* the values set_queue_size_limit is called with
  InitialLimit, \* max_queue_size of a new pool
  MaxTunings    \* bound: how often the two are called

Tasks == UNION {{c} \X (1..TaskCount[c]) : c \in Clients}

MaxWorkers == CHOOSE n \in Sizes : \A m \in Sizes : m <= n
WorkerNumbers == 0..(MaxWorkers - 1)

ASSUME ThreadPoolAssumption ==
  /\ IsFiniteSet(Clients)
  /\ TaskCount \in [Clients -> Nat \ {0}] /\ Failing \subseteq Tasks
  /\ Sizes # {} /\ Sizes \subseteq Nat \ {0} /\ IsFiniteSet(Sizes)
  /\ Limits \subseteq Nat \ {0} /\ InitialLimit \in Nat \ {0} /\ MaxTunings \in Nat

VARIABLES
  pool,           \* none, live, or stopping: the destructor has set stop
  size,           \* workers.size()
  pool_size,      \* the target
  tasks,          \* the queue
  max_queue_size,
  in_flight,
  worker,         \* what each worker is at
  task,           \* the task a worker has taken
  ref_count,      \* live managers
  phys_thread_count,
  destroyer,      \* the clients that hold tp_mutex in the pool's destructor
  client,         \* what each client is at
  enqueued,       \* how many tasks a client has enqueued
  done,           \* the tasks whose future is ready
  tunings

poolVars == <<pool, size, pool_size, tasks, max_queue_size>>
vars == <<pool, size, pool_size, tasks, max_queue_size, in_flight, worker, task, ref_count,
          phys_thread_count, destroyer, client, enqueued, done, tunings>>

NoTask == <<>>

Init ==
  /\ pool = "none" /\ size = 0 /\ pool_size = 0 /\ tasks = <<>>
  /\ max_queue_size = InitialLimit /\ in_flight = 0
  /\ worker = [n \in WorkerNumbers |-> "none"]
  /\ task = [n \in WorkerNumbers |-> NoTask]
  /\ ref_count = 0 /\ phys_thread_count \in Sizes /\ destroyer = {}
  /\ client = [c \in Clients |-> "new"]
  /\ enqueued = [c \in Clients |-> 0]
  /\ done = {} /\ tunings = 0

-----------------------------------------------------------------------------
(* Condition variables. *)

\* notify_all on condition_consumers, where the workers and the destructor
\* sleep; on condition_producers, where clients do.
WakeWorkers(w) == [n \in WorkerNumbers |-> IF w[n] = "sleep" THEN "loop" ELSE w[n]]
WakeJoiner(c)  == [x \in Clients |-> IF c[x] = "join" THEN "joined?" ELSE c[x]]
WakeProducers(c) ==
  [x \in Clients |-> CASE c[x] = "full" -> "full?" [] c[x] = "empty" -> "empty?" [] OTHER -> c[x]]

\* Mutant: the notification is missing.
WakeNone(w, c) == {w}

\* notify_one on condition_consumers: some sleeper, if there is one.
WakeOne(w, c) ==
  LET sleepers == {n \in WorkerNumbers : w[n] = "sleep"} IN
  IF sleepers = {} THEN {w} ELSE {[w EXCEPT ![n] = "loop"] : n \in sleepers}

-----------------------------------------------------------------------------
(* The manager. *)

MutexFree == destroyer = {}

\* The first manager creates the pool.
Construct(c) ==
  /\ client[c] = "new" /\ MutexFree
  /\ client' = [client EXCEPT ![c] = "enqueue"]
  /\ ref_count' = ref_count + 1
  /\ IF ref_count = 0
     THEN /\ pool' = "live" /\ size' = phys_thread_count /\ pool_size' = phys_thread_count
          /\ worker' = [n \in WorkerNumbers |-> IF n < phys_thread_count THEN "loop" ELSE "none"]
          /\ max_queue_size' = InitialLimit
     ELSE UNCHANGED <<pool, size, pool_size, worker, max_queue_size>>
  /\ UNCHANGED <<tasks, in_flight, task, phys_thread_count, destroyer, enqueued, done, tunings>>

\* The last manager destroys the pool: stop, notify_all, and wait until there
\* are no workers.
Release(c) ==
  /\ client[c] = "leave" /\ MutexFree
  /\ ref_count' = ref_count - 1
  /\ IF ref_count = 1
     THEN /\ pool' = "stopping" /\ pool_size' = 0
          /\ worker' = WakeWorkers(worker)
          /\ client' = [client EXCEPT ![c] = "join"]
          /\ destroyer' = {c}
     ELSE client' = [client EXCEPT ![c] = "done"] /\ UNCHANGED <<pool, pool_size, worker, destroyer>>
  /\ UNCHANGED <<size, tasks, max_queue_size, in_flight, task, phys_thread_count, enqueued, done, tunings>>

Joined(c) ==
  /\ client[c] = "joined?"
  /\ IF size = 0
     THEN /\ pool' = "none" /\ destroyer' = {}
          /\ client' = [client EXCEPT ![c] = "done"]
     ELSE client' = [client EXCEPT ![c] = "join"] /\ UNCHANGED <<pool, destroyer>>
  /\ UNCHANGED <<size, pool_size, tasks, max_queue_size, in_flight, worker, task, ref_count,
                 phys_thread_count, enqueued, done, tunings>>

-----------------------------------------------------------------------------
(* The clients. *)

\* The rest of enqueue, once the queue is not full or the pool is stopping.
Push(c, limit, w, cl) ==
  /\ IF pool = "stopping"
     THEN client' = [cl EXCEPT ![c] = "thrown"] /\ worker' = w
          /\ UNCHANGED <<tasks, in_flight, enqueued>>
     ELSE /\ tasks' = Append(tasks, <<c, enqueued[c] + 1>>)
          /\ in_flight' = in_flight + 1
          /\ worker' \in WakeOne(w, cl)
          /\ enqueued' = [enqueued EXCEPT ![c] = @ + 1]
          /\ client' = [cl EXCEPT ![c] =
                          IF enqueued[c] + 1 < TaskCount[c] THEN "enqueue" ELSE "wait"]
  /\ max_queue_size' = limit

\* A full queue doubles the limit and wakes the producers that wait for room;
\* the caller waits itself if that is not enough.
Enqueue(c) ==
  /\ client[c] = "enqueue"
  /\ LET full  == Len(tasks) >= max_queue_size
         limit == IF full /\ pool # "stopping" THEN 2 * max_queue_size ELSE max_queue_size
         cl    == IF limit # max_queue_size THEN WakeProducers(client) ELSE client
     IN  IF full /\ Len(tasks) >= limit /\ pool # "stopping"
         THEN /\ client' = [cl EXCEPT ![c] = "full"] /\ max_queue_size' = limit
              /\ UNCHANGED <<tasks, in_flight, worker, enqueued>>
         ELSE Push(c, limit, worker, cl)
  /\ UNCHANGED <<pool, size, pool_size, task, ref_count, phys_thread_count, destroyer, done, tunings>>

\* A notified producer looks again.
EnqueueAgain(c) ==
  /\ client[c] = "full?"
  /\ IF Len(tasks) >= max_queue_size /\ pool # "stopping"
     THEN /\ client' = [client EXCEPT ![c] = "full"]
          /\ UNCHANGED <<tasks, in_flight, worker, enqueued, max_queue_size>>
     ELSE Push(c, max_queue_size, worker, client)
  /\ UNCHANGED <<pool, size, pool_size, task, ref_count, phys_thread_count, destroyer, done, tunings>>

\* The futures are asked in order; the first task that threw ends the wait.
Awaited(c) ==
  LET failed == {k \in 1..TaskCount[c] : <<c, k>> \in Failing}
      last   == IF failed = {} THEN TaskCount[c] ELSE CHOOSE k \in failed : \A m \in failed : k <= m
  IN  {<<c, k>> : k \in 1..last}

GetFutures(c) ==
  /\ client[c] = "wait" /\ Awaited(c) \subseteq done
  /\ client' = [client EXCEPT ![c] = "leave"]
  /\ UNCHANGED <<poolVars, in_flight, worker, task, ref_count, phys_thread_count, destroyer,
                 enqueued, done, tunings>>

\* wait_until_empty and wait_until_nothing_in_flight: return or sleep.
WaitUntil(c, condition, sleeping) ==
  /\ client' = [client EXCEPT ![c] = IF condition THEN "leave" ELSE sleeping]
  /\ UNCHANGED <<poolVars, in_flight, worker, task, ref_count, phys_thread_count, destroyer,
                 enqueued, done, tunings>>

WaitUntilEmpty(c) ==
  client[c] \in {"wait", "empty?"} /\ WaitUntil(c, tasks = <<>>, "empty")

WaitUntilNothingInFlight(c) ==
  client[c] \in {"wait", "flight?"} /\ WaitUntil(c, in_flight = 0, "flight")

\* set_pool_size, called by the manager under its mutex.
SetPoolSize ==
  /\ tunings < MaxTunings /\ MutexFree
  /\ tunings' = tunings + 1
  /\ \E limit \in Sizes :
       /\ phys_thread_count' = limit
       /\ IF pool = "live"
          THEN /\ pool_size' = limit
               /\ size' = IF limit > size THEN limit ELSE size
               /\ worker' = IF limit > size
                            THEN [n \in WorkerNumbers |->
                                    IF n \in size..(limit - 1) THEN "loop" ELSE worker[n]]
                            ELSE IF limit < size THEN WakeWorkers(worker) ELSE worker
          ELSE UNCHANGED <<pool_size, size, worker>>
  /\ UNCHANGED <<pool, tasks, max_queue_size, in_flight, task, ref_count, destroyer, client,
                 enqueued, done>>

SetQueueSizeLimit ==
  /\ tunings < MaxTunings /\ pool = "live"
  /\ tunings' = tunings + 1
  /\ \E limit \in Limits :
       /\ max_queue_size' = limit
       /\ client' = IF max_queue_size < limit THEN WakeProducers(client) ELSE client
  /\ UNCHANGED <<pool, size, pool_size, tasks, in_flight, worker, task, ref_count,
                 phys_thread_count, destroyer, enqueued, done>>

-----------------------------------------------------------------------------
(* The workers. *)

Surplus(n) == pool_size < n + 1

\* Mutant: a stopped pool drops its queue.
MayExitAtOnce(n) == pool = "stopping" \/ Surplus(n)

MayExit(n) == IF pool = "stopping" THEN tasks = <<>> ELSE Surplus(n)

\* Nothing to do: sleep on condition_consumers.
Sleep(n) ==
  /\ worker[n] = "loop"
  /\ pool = "live" /\ tasks = <<>> /\ ~Surplus(n)
  /\ worker' = [worker EXCEPT ![n] = "sleep"]
  /\ UNCHANGED <<poolVars, in_flight, task, ref_count, phys_thread_count, destroyer, client,
                 enqueued, done, tunings>>

\* Mutant: the first worker leaves in place of the last one.
ExitFirst(n) ==
  /\ worker[n] = "loop" /\ MayExit(n) /\ n = 0
  /\ size' = size - 1
  /\ worker' = WakeWorkers([worker EXCEPT ![n] = "none"])
  /\ client' = WakeJoiner(client)
  /\ UNCHANGED <<pool, pool_size, tasks, max_queue_size, in_flight, task, ref_count,
                 phys_thread_count, destroyer, enqueued, done, tunings>>

\* The last worker leaves and notifies the others.
Exit(n) ==
  /\ worker[n] = "loop" /\ MayExit(n) /\ n = size - 1
  /\ size' = size - 1
  /\ worker' = WakeWorkers([worker EXCEPT ![n] = "none"])
  /\ client' = WakeJoiner(client)
  /\ UNCHANGED <<pool, pool_size, tasks, max_queue_size, in_flight, task, ref_count,
                 phys_thread_count, destroyer, enqueued, done, tunings>>

\* Mutant: the task is copied from the queue but not popped.
TakeNoPop(n) ==
  /\ worker[n] = "loop" /\ ~MayExit(n) /\ tasks # <<>>
  /\ task' = [task EXCEPT ![n] = Head(tasks)]
  /\ tasks' = tasks
  /\ worker' = [worker EXCEPT ![n] =
       IF Len(tasks) = max_queue_size \/ Len(tasks) = 1 THEN "notify" ELSE "run"]
  /\ UNCHANGED <<pool, size, pool_size, max_queue_size, in_flight, ref_count, phys_thread_count,
                 destroyer, client, enqueued, done, tunings>>

\* One that is not the last goes round its loop until it is.
Spin(n) ==
  /\ worker[n] = "loop" /\ MayExit(n) /\ n # size - 1
  /\ UNCHANGED vars

\* A task is taken; the producers will be notified if there was no room or
\* there is nothing left.
Take(n) ==
  /\ worker[n] = "loop" /\ ~MayExit(n) /\ tasks # <<>>
  /\ task' = [task EXCEPT ![n] = Head(tasks)]
  /\ tasks' = Tail(tasks)
  /\ worker' = [worker EXCEPT ![n] =
       IF Len(tasks) = max_queue_size \/ Len(tasks) = 1 THEN "notify" ELSE "run"]
  /\ UNCHANGED <<pool, size, pool_size, max_queue_size, in_flight, ref_count, phys_thread_count,
                 destroyer, client, enqueued, done, tunings>>

NotifyProducers(n) ==
  /\ worker[n] = "notify"
  /\ client' = WakeProducers(client)
  /\ worker' = [worker EXCEPT ![n] = "run"]
  /\ UNCHANGED <<poolVars, in_flight, task, ref_count, phys_thread_count, destroyer, enqueued,
                 done, tunings>>

\* The task runs; its result or its exception goes to the future.
Run(n) ==
  /\ worker[n] = "run"
  /\ done' = done \cup {task[n]}
  /\ worker' = [worker EXCEPT ![n] = "ran"]
  /\ UNCHANGED <<poolVars, in_flight, task, ref_count, phys_thread_count, destroyer, client,
                 enqueued, tunings>>

\* The guard's destructor counts the task out.
CountOut(n) ==
  /\ worker[n] = "ran"
  /\ in_flight' = in_flight - 1
  /\ task' = [task EXCEPT ![n] = NoTask]
  /\ worker' = [worker EXCEPT ![n] = IF in_flight = 1 THEN "idle?" ELSE "loop"]
  /\ UNCHANGED <<poolVars, ref_count, phys_thread_count, destroyer, client, enqueued, done, tunings>>

NotifyIdle(n) ==
  /\ worker[n] = "idle?"
  /\ client' = [c \in Clients |-> IF client[c] = "flight" THEN "flight?" ELSE client[c]]
  /\ worker' = [worker EXCEPT ![n] = "loop"]
  /\ UNCHANGED <<poolVars, in_flight, task, ref_count, phys_thread_count, destroyer, enqueued,
                 done, tunings>>

-----------------------------------------------------------------------------
Client(c) ==
  \/ Construct(c) \/ Enqueue(c) \/ EnqueueAgain(c) \/ Release(c) \/ Joined(c)
  \/ GetFutures(c) \/ WaitUntilEmpty(c) \/ WaitUntilNothingInFlight(c)

Worker(n) ==
  \/ Sleep(n) \/ Exit(n) \/ Spin(n) \/ Take(n) \/ NotifyProducers(n) \/ Run(n) \/ CountOut(n) \/ NotifyIdle(n)

AllGone == (\A c \in Clients : client[c] \in {"done", "thrown"}) /\ pool = "none"

Terminated == AllGone /\ UNCHANGED vars

Next ==
  \/ \E c \in Clients : Client(c)
  \/ \E n \in WorkerNumbers : Worker(n)
  \/ SetPoolSize \/ SetQueueSizeLimit \/ Terminated

Spec == Init /\ [][Next]_vars

\* Every thread keeps running until it sleeps and gets the mutexes in the end;
\* nobody has to call the two setters.
FairSpec ==
  /\ Spec
  /\ \A c \in Clients : WF_vars(Client(c))
  /\ \A n \in WorkerNumbers : WF_vars(Worker(n))

-----------------------------------------------------------------------------
(* Properties. *)

\* The live workers are those with the lowest numbers: a worker's number
\* stays its index in the vector, which decides who may leave.
TypeOK ==
  /\ size \in 0..MaxWorkers
  /\ \A n \in WorkerNumbers : worker[n] # "none" <=> n < size
  /\ \A n \in WorkerNumbers : task[n] # NoTask <=> worker[n] \in {"notify", "run", "ran"}
  /\ in_flight \in Nat /\ max_queue_size \in Nat \ {0}
  /\ ref_count \in 0..Cardinality(Clients)

Queued == {tasks[k] : k \in DOMAIN tasks}
Held   == {task[n] : n \in {m \in WorkerNumbers : worker[m] \in {"notify", "run"}}}
Accepted == UNION {{c} \X (1..enqueued[c]) : c \in Clients}

\* Every accepted task is in exactly one place: once in the queue, at one
\* worker, or done.  None is lost or run twice by resizing or stopping.
EachTaskOnce ==
  /\ Queued \cup Held \cup done = Accepted
  /\ Len(tasks) + Cardinality({n \in WorkerNumbers : worker[n] \in {"notify", "run"}})
       + Cardinality(done) = Cardinality(Accepted)

\* The assertion at the end of the destructor, in_flight == 0, and that
\* nobody is left in the pool that it frees.
DestructorSafe ==
  pool = "none" =>
    /\ in_flight = 0 /\ tasks = <<>> /\ size = 0
    /\ \A c \in Clients : client[c] \in {"new", "done"}

\* No task is forgotten: what enqueue accepted gets run.
EveryTaskRuns == \A t \in Tasks : t \in Accepted ~> t \in done

\* No lost notification leaves a client waiting, and the destructor returns.
AllReturn == <>AllGone
=============================================================================
