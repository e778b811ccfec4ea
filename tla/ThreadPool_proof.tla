-------------------------- MODULE ThreadPool_proof --------------------------
(***************************************************************************)
(* Proofs about ThreadPool for every number of clients, tasks, workers and *)
(* tunings.                                                                *)
(***************************************************************************)
EXTENDS ThreadPool, FoldTheorems, SequenceTheorems, TLAPS

\* What a client, and a worker, can be at.
Asking   == {"enqueue", "full", "full?"}
Inside   == Asking \cup {"wait", "empty", "empty?", "flight", "flight?", "leave"}
Stopping == {"join", "joined?"}
Holding  == {"notify", "run"}
Counted  == Holding \cup {"ran"}

\* The clients in the pool, the workers that hold a task not yet run, and those
\* whose task still counts as in flight.
Users   == {c \in Clients : client[c] \in Inside}
Holders == {n \in WorkerNumbers : worker[n] \in Holding}
Takers  == {n \in WorkerNumbers : worker[n] \in Counted}

(***************************************************************************)
(* The inductive invariant: the types; what the size of the pool says of   *)
(* its workers; who holds the pool; what in_flight counts; who may still   *)
(* enqueue; and where every task is.                                       *)
(***************************************************************************)
Types ==
  /\ pool \in {"none", "live", "stopping"}
  /\ size \in 0..MaxWorkers /\ pool_size \in Nat
  /\ tasks \in Seq(Tasks) /\ max_queue_size \in Nat \ {0} /\ in_flight \in Nat
  /\ worker \in [WorkerNumbers -> Counted \cup {"none", "loop", "sleep", "idle?"}]
  /\ task \in [WorkerNumbers -> Tasks \cup {NoTask}]
  /\ ref_count \in Nat /\ phys_thread_count \in Sizes /\ destroyer \subseteq Clients
  /\ client \in [Clients -> Inside \cup Stopping \cup {"new", "done"}]
  /\ enqueued \in [Clients -> Nat] /\ done \subseteq Tasks /\ IsFiniteSet(done)

Workers ==
  /\ \A n \in WorkerNumbers : worker[n] # "none" <=> n < size
  /\ \A n \in WorkerNumbers : task[n] # NoTask <=> worker[n] \in Counted
  /\ pool = "live" => pool_size \in Sizes /\ size >= 1
  /\ pool = "none" => size = 0
  /\ pool # "live" /\ size = 0 => tasks = <<>>

Managers ==
  /\ ref_count = Cardinality(Users)
  /\ destroyer = {c \in Clients : client[c] \in Stopping}
  /\ \A c, d \in destroyer : c = d
  /\ pool = "live" <=> Users # {}
  /\ pool = "stopping" <=> destroyer # {}

Count == in_flight = Len(tasks) + Cardinality(Takers)

Asked == \A c \in Clients :
  /\ enqueued[c] <= TaskCount[c]
  /\ client[c] \in Asking \cup {"new"} => enqueued[c] < TaskCount[c]

Placed ==
  /\ \A i, j \in DOMAIN tasks : tasks[i] = tasks[j] => i = j
  /\ \A m, n \in Holders : task[m] = task[n] => m = n
  /\ Queued \cap Held = {} /\ Queued \cap done = {} /\ Held \cap done = {}
  /\ Queued \cup Held \cup done = Accepted

IInv == Types /\ Workers /\ Managers /\ Count /\ Asked /\ Placed

-----------------------------------------------------------------------------
\* What the assumption says of the sizes: there is a largest one.
LEMMA Bounds ==
  /\ MaxWorkers \in Sizes /\ MaxWorkers \in Nat
  /\ \A m \in Sizes : m \in Nat /\ 1 <= m /\ m <= MaxWorkers
  /\ WorkerNumbers \subseteq Nat /\ IsFiniteSet(WorkerNumbers)
<1>1. \E n \in Sizes : \A m \in Sizes : m <= n BY ThreadPoolAssumption, Largest
<1>2. MaxWorkers \in Sizes /\ \A m \in Sizes : m <= MaxWorkers BY <1>1 DEF MaxWorkers
<1>3. \A m \in Sizes : m \in Nat /\ 1 <= m BY ThreadPoolAssumption
<1>4. MaxWorkers \in Nat BY <1>2, <1>3
<1> QED BY <1>2, <1>3, <1>4, FS_Interval DEF WorkerNumbers

\* A task is a client and a number up to its count; none is NoTask.
LEMMA TaskFacts ==
  /\ \A c \in Clients : \A k \in Nat : k \in 1..TaskCount[c] <=> <<c, k>> \in Tasks
  /\ \A c \in Clients : TaskCount[c] \in Nat /\ TaskCount[c] >= 1
  /\ \A t \in Tasks : t # NoTask /\ \E c \in Clients : \E k \in 1..TaskCount[c] : t = <<c, k>>
<1>1. \A c \in Clients : TaskCount[c] \in Nat /\ TaskCount[c] >= 1 BY ThreadPoolAssumption
<1>2. ASSUME NEW t \in Tasks PROVE \E c \in Clients : \E k \in 1..TaskCount[c] : t = <<c, k>>
  BY DEF Tasks
<1>3. ASSUME NEW c \in Clients, NEW k \in 1..TaskCount[c] PROVE <<c, k>> \in Tasks BY DEF Tasks
<1>4. \A t \in Tasks : t # NoTask BY <1>2 DEF NoTask
<1> QED BY <1>1, <1>2, <1>3, <1>4

\* The accepted tasks, when one more is accepted.
LEMMA AcceptedNext ==
  ASSUME Types, Asked, NEW c \in Clients, enqueued[c] < TaskCount[c],
         enqueued' = [enqueued EXCEPT ![c] = @ + 1]
  PROVE  LET t == <<c, enqueued[c] + 1>> IN
         t \in Tasks /\ t \notin Accepted /\ Accepted' = Accepted \cup {t}
<1> DEFINE t == <<c, enqueued[c] + 1>>
<1>1. enqueued[c] \in Nat /\ TaskCount[c] \in Nat BY TaskFacts DEF Types
<1>2. t \in Tasks BY <1>1, TaskFacts
<1>3. t \notin Accepted
  <2>1. \A u \in Accepted : \E x \in Clients : \E k \in 1..enqueued[x] : u = <<x, k>> BY DEF Accepted
  <2>2. enqueued[c] + 1 \notin 1..enqueued[c] BY <1>1
  <2> QED BY <2>1, <2>2
<1>4. \A x \in Clients : enqueued'[x] = IF x = c THEN enqueued[c] + 1 ELSE enqueued[x] BY DEF Types
<1>5. 1..enqueued'[c] = (1..enqueued[c]) \cup {enqueued[c] + 1} BY <1>1, <1>4
<1>6. Accepted' = Accepted \cup {t}
  <2>1. Accepted' = UNION {{x} \X (1..enqueued'[x]) : x \in Clients} BY DEF Accepted
  <2>2. ASSUME NEW u PROVE u \in Accepted' <=> u \in Accepted \/ u = t
    <3>1. u \in Accepted' <=> \E x \in Clients : u \in {x} \X (1..enqueued'[x]) BY <2>1
    <3>2. u \in Accepted <=> \E x \in Clients : u \in {x} \X (1..enqueued[x]) BY DEF Accepted
    <3>3. \A x \in Clients : x # c => enqueued'[x] = enqueued[x] BY <1>4
    <3>4. u \in {c} \X (1..enqueued'[c]) <=> u \in {c} \X (1..enqueued[c]) \/ u = t BY <1>5
    <3> HIDE DEF t
    <3> QED BY <3>1, <3>2, <3>3, <3>4
  <2> QED BY <2>2
<1> QED BY <1>2, <1>3, <1>6

WorkerStates == Counted \cup {"none", "loop", "sleep", "idle?"}
ClientStates == Inside \cup Stopping \cup {"new", "done"}

\* Changes that tell nothing about tasks and managers: a wake-up, mostly.
Like(w) ==
  /\ w \in [WorkerNumbers -> WorkerStates]
  /\ \A n \in WorkerNumbers : /\ w[n] = "none" <=> worker[n] = "none"
                              /\ w[n] \in Holding <=> worker[n] \in Holding
                              /\ w[n] \in Counted <=> worker[n] \in Counted
Alike(cl) ==
  /\ cl \in [Clients -> ClientStates]
  /\ \A c \in Clients : /\ cl[c] \in Inside <=> client[c] \in Inside
                        /\ cl[c] \in Stopping <=> client[c] \in Stopping
                        /\ cl[c] \in Asking <=> client[c] \in Asking
                        /\ cl[c] = "new" => client[c] = "new"

\* Every notification is such a change.
LEMMA Wakings ==
  ASSUME Types
  PROVE  /\ Like(worker) /\ Like(WakeWorkers(worker))
         /\ \A cl : \A w \in WakeOne(worker, cl) : Like(w)
         /\ Alike(client) /\ Alike(WakeProducers(client)) /\ Alike(WakeJoiner(client))
<1> USE DEF WorkerStates, ClientStates, Inside, Asking, Stopping, Holding, Counted
<1>1. Like(worker) /\ Alike(client) BY DEF Types, Like, Alike
<1>2. Like(WakeWorkers(worker)) BY DEF Types, Like, WakeWorkers
<1>3. ASSUME NEW cl, NEW w \in WakeOne(worker, cl) PROVE Like(w)
  <2>1. w = worker \/ \E n \in WorkerNumbers : worker[n] = "sleep" /\ w = [worker EXCEPT ![n] = "loop"]
    BY <1>3 DEF WakeOne
  <2>2. CASE w = worker BY <1>1, <2>2
  <2>3. ASSUME NEW n \in WorkerNumbers, worker[n] = "sleep", w = [worker EXCEPT ![n] = "loop"]
        PROVE  Like(w)
    BY <2>3 DEF Types, Like
  <2> QED BY <2>1, <2>2, <2>3
<1>4. Alike(WakeProducers(client))
  <2>1. ASSUME NEW c \in Clients
        PROVE  WakeProducers(client)[c] = IF client[c] = "full" THEN "full?"
                                          ELSE IF client[c] = "empty" THEN "empty?" ELSE client[c]
    BY DEF WakeProducers
  <2>2. \A c \in Clients : WakeProducers(client)[c] \in ClientStates BY <2>1 DEF Types
  <2>3. WakeProducers(client) \in [Clients -> ClientStates] BY <2>2 DEF WakeProducers
  <2> QED BY <2>1, <2>3 DEF Alike
<1>5. Alike(WakeJoiner(client)) BY DEF Types, Alike, WakeJoiner
<1> QED BY <1>1, <1>2, <1>3, <1>4, <1>5

\* Steps that leave queue, held tasks, counters and results leave every task in
\* its place.
LEMMA PlacedKept ==
  ASSUME Placed, UNCHANGED <<tasks, enqueued, done>>, Holders' = Holders,
         \A n \in Holders : task'[n] = task[n]
  PROVE  Placed'
<1>1. Queued' = Queued /\ Accepted' = Accepted BY DEF Queued, Accepted
<1>2. Held = {task[n] : n \in Holders} /\ Held' = {task'[n] : n \in Holders}
  BY DEF Held, Holders, Holding
<1>3. Held' = Held BY <1>2
<1> QED BY <1>1, <1>3 DEF Placed

\* Clients that stay inside or outside the pool do not concern the managers.
LEMMA ManagersKept ==
  ASSUME Managers, UNCHANGED <<pool, ref_count, destroyer>>,
         \A c \in Clients : /\ client'[c] \in Inside <=> client[c] \in Inside
                            /\ client'[c] \in Stopping <=> client[c] \in Stopping
  PROVE  Managers'
<1>1. Users' = Users BY DEF Users
<1>2. {c \in Clients : client'[c] \in Stopping} = {c \in Clients : client[c] \in Stopping}
  OBVIOUS
<1> QED BY <1>1, <1>2 DEF Managers

\* A client that enqueues has not enqueued all its tasks.
LEMMA AskedKept ==
  ASSUME Asked, Alike(client'), UNCHANGED enqueued
  PROVE  Asked'
BY DEF Asked, Alike

\* The same workers hold tasks.
LEMMA TakersKept ==
  ASSUME Like(worker')
  PROVE  Holders' = Holders /\ Takers' = Takers
BY DEF Like, Holders, Takers

\* They are finitely many.
LEMMA TakersFinite == IsFiniteSet(Takers) /\ Cardinality(Takers) \in Nat
BY Bounds, FS_Subset, FS_CardinalityType DEF Takers

\* A step that only moves clients and workers within their group.
LEMMA Calm ==
  ASSUME IInv, Like(worker'), Alike(client'), max_queue_size' \in Nat \ {0},
         UNCHANGED <<pool, size, pool_size, tasks, in_flight, task, ref_count,
                     phys_thread_count, destroyer, enqueued, done>>
  PROVE  IInv'
<1>1. Types' BY DEF IInv, Types, Like, Alike, WorkerStates, ClientStates
<1>2. Workers' BY DEF IInv, Workers, Like
<1>3. Managers' BY ManagersKept DEF IInv, Alike
<1>4. Count' BY TakersKept DEF IInv, Count
<1>5. Asked' BY AskedKept DEF IInv
<1>6. Placed' BY TakersKept, PlacedKept DEF IInv
<1> QED BY <1>1, <1>2, <1>3, <1>4, <1>5, <1>6 DEF IInv

-----------------------------------------------------------------------------
\* A new element at the end of a sequence without repetitions.
LEMMA Appended ==
  ASSUME NEW S, NEW s \in Seq(S), NEW t \in S,
         \A i, j \in DOMAIN s : s[i] = s[j] => i = j,
         t \notin {s[k] : k \in DOMAIN s}
  PROVE  LET r == Append(s, t) IN
         /\ r \in Seq(S) /\ Len(r) = Len(s) + 1
         /\ {r[k] : k \in DOMAIN r} = {s[k] : k \in DOMAIN s} \cup {t}
         /\ \A i, j \in DOMAIN r : r[i] = r[j] => i = j
<1> DEFINE r == Append(s, t)
           n == Len(s)
<1>1. n \in Nat /\ DOMAIN s = 1..n OBVIOUS
<1>2. r \in Seq(S) /\ Len(r) = n + 1 /\ DOMAIN r = 1..(n + 1) OBVIOUS
<1>3. r[n + 1] = t /\ \A k \in 1..n : r[k] = s[k] OBVIOUS
<1>4. 1..(n + 1) = (1..n) \cup {n + 1} /\ n + 1 \notin 1..n BY <1>1
<1> HIDE DEF r, n
<1>5. {r[k] : k \in DOMAIN r} = {s[k] : k \in DOMAIN s} \cup {t} BY <1>1, <1>2, <1>3, <1>4
<1>6. \A i, j \in DOMAIN r : r[i] = r[j] => i = j BY <1>1, <1>2, <1>3, <1>4
<1> QED BY <1>2, <1>5, <1>6 DEF r, n

\* The first element of a sequence without repetitions taken off.
LEMMA Popped ==
  ASSUME NEW S, NEW s \in Seq(S), s # <<>>,
         \A i, j \in DOMAIN s : s[i] = s[j] => i = j
  PROVE  LET r == Tail(s) IN
         /\ r \in Seq(S) /\ Len(s) = Len(r) + 1 /\ Head(s) \in S
         /\ {s[k] : k \in DOMAIN s} = {r[k] : k \in DOMAIN r} \cup {Head(s)}
         /\ Head(s) \notin {r[k] : k \in DOMAIN r}
         /\ \A i, j \in DOMAIN r : r[i] = r[j] => i = j
<1> DEFINE r == Tail(s)
           n == Len(s)
<1>1. n \in Nat \ {0} /\ DOMAIN s = 1..n BY EmptySeq
<1>2. r \in Seq(S) /\ Len(r) = n - 1 /\ DOMAIN r = 1..(n - 1) BY <1>1
<1>3. Head(s) = s[1] /\ Head(s) \in S /\ \A k \in 1..(n - 1) : r[k] = s[k + 1] BY <1>1
<1> HIDE DEF r, n
<1>4. \A k \in 1..n : k = 1 \/ (k - 1 \in 1..(n - 1) /\ k = (k - 1) + 1) BY <1>1
<1>5. \A k \in 1..(n - 1) : k + 1 \in 1..n /\ k + 1 # 1 BY <1>1
<1>6. 1 \in 1..n BY <1>1
<1>7. {s[k] : k \in DOMAIN s} \subseteq {r[k] : k \in DOMAIN r} \cup {Head(s)}
  <2> SUFFICES ASSUME NEW k \in 1..n PROVE s[k] \in {r[i] : i \in 1..(n - 1)} \cup {Head(s)} BY <1>1, <1>2
  <2>1. CASE k = 1 BY <1>3, <2>1
  <2>2. CASE k # 1
    <3>1. k - 1 \in 1..(n - 1) /\ s[k] = r[k - 1] BY <1>3, <1>4, <2>2
    <3> QED BY <3>1
  <2> QED BY <2>1, <2>2
<1>8. {r[k] : k \in DOMAIN r} \cup {Head(s)} \subseteq {s[k] : k \in DOMAIN s}
  BY <1>1, <1>2, <1>3, <1>5, <1>6
<1>9. Head(s) \notin {r[k] : k \in DOMAIN r} BY <1>1, <1>2, <1>3, <1>5, <1>6
<1>10. \A i, j \in DOMAIN r : r[i] = r[j] => i = j
  <2> SUFFICES ASSUME NEW i \in 1..(n - 1), NEW j \in 1..(n - 1), r[i] = r[j] PROVE i = j BY <1>2
  <2>1. s[i + 1] = s[j + 1] /\ i + 1 \in 1..n /\ j + 1 \in 1..n BY <1>3, <1>5
  <2>2. i + 1 = j + 1 BY <1>1, <2>1
  <2> QED BY <2>2
<1>11. n = (n - 1) + 1 BY <1>1
<1> QED BY <1>2, <1>3, <1>7, <1>8, <1>9, <1>10, <1>11 DEF r, n

\* The constructor of a manager keeps the invariant: what the last pool left
\* behind is empty.
LEMMA KeepConstruct ==
  ASSUME IInv, NEW c \in Clients, Construct(c)
  PROVE  IInv'
<1> USE DEF IInv
<1>0. /\ client[c] = "new" /\ destroyer = {} /\ client' = [client EXCEPT ![c] = "enqueue"]
      /\ ref_count' = ref_count + 1
      /\ UNCHANGED <<tasks, in_flight, task, phys_thread_count, destroyer, enqueued, done>>
  BY DEF Construct, MutexFree
<1>1. /\ client'[c] = "enqueue" /\ \A x \in Clients : x # c => client'[x] = client[x]
      /\ client' \in [Clients -> ClientStates]
  BY <1>0 DEF Types, ClientStates, Inside, Asking
<1>2. Users' = Users \cup {c} /\ c \notin Users BY <1>0, <1>1 DEF Users, Inside, Asking
<1>3. IsFiniteSet(Users) BY ThreadPoolAssumption, FS_Subset DEF Users
<1>4. Cardinality(Users') = Cardinality(Users) + 1 BY <1>2, <1>3, FS_AddElement
<1>5. pool # "stopping" BY <1>0 DEF Managers
<1>6. /\ pool' = "live" /\ size' \in 0..MaxWorkers /\ pool_size' \in Nat /\ max_queue_size' \in Nat \ {0}
      /\ Workers' /\ worker' \in [WorkerNumbers -> WorkerStates]
      /\ Holders' = Holders /\ Takers' = Takers
  <2>1. CASE ref_count = 0
    <3>1. Users = {} BY <1>3, <2>1, FS_EmptySet DEF Managers
    <3>2. pool = "none" BY <1>5, <3>1 DEF Managers, Types
    <3>3. /\ pool' = "live" /\ size' = phys_thread_count /\ pool_size' = phys_thread_count
          /\ worker' = [n \in WorkerNumbers |-> IF n < phys_thread_count THEN "loop" ELSE "none"]
          /\ max_queue_size' = InitialLimit
      BY <2>1 DEF Construct
    <3>4. phys_thread_count \in Sizes /\ phys_thread_count \in Nat /\ phys_thread_count >= 1
          /\ phys_thread_count \in 0..MaxWorkers
      BY Bounds DEF Types
    <3>5. \A n \in WorkerNumbers : worker[n] = "none" /\ task[n] = NoTask
      BY <3>2, Bounds DEF Workers, Counted, Holding
    <3>6. /\ worker' \in [WorkerNumbers -> WorkerStates]
          /\ \A n \in WorkerNumbers : worker'[n] \notin Counted /\ (worker'[n] # "none" <=> n < phys_thread_count)
      BY <3>3 DEF WorkerStates, Counted, Holding
    <3>7. Workers' BY <1>0, <3>3, <3>4, <3>5, <3>6 DEF Workers
    <3>8. Holders' = Holders /\ Takers' = Takers
      BY <3>5, <3>6 DEF Holders, Takers, Counted, Holding
    <3> QED BY <3>3, <3>4, <3>6, <3>7, <3>8, ThreadPoolAssumption
  <2>2. CASE ref_count # 0
    <3>1. Users # {} BY <1>3, <2>2, FS_EmptySet DEF Managers
    <3>2. pool = "live" BY <3>1 DEF Managers
    <3>3. UNCHANGED <<pool, size, pool_size, worker, max_queue_size>> BY <2>2 DEF Construct
    <3>4. Workers' BY <1>0, <3>3 DEF Workers
    <3> QED BY <3>2, <3>3, <3>4 DEF Types, WorkerStates, Holders, Takers
  <2> QED BY <2>1, <2>2
<1>7. Types' BY <1>0, <1>1, <1>6 DEF Types, WorkerStates, ClientStates
<1>8. Managers'
  <2>1. {x \in Clients : client'[x] \in Stopping} = {x \in Clients : client[x] \in Stopping}
    BY <1>0, <1>1 DEF Stopping
  <2> QED BY <1>0, <1>2, <1>4, <1>6, <2>1 DEF Managers
<1>9. Count' BY <1>0, <1>6 DEF Count
<1>10. Asked'
  <2>1. enqueued[c] < TaskCount[c] BY <1>0 DEF Asked
  <2> QED BY <1>0, <1>1, <2>1 DEF Asked
<1>11. Placed' BY <1>0, <1>6, PlacedKept
<1> QED BY <1>6, <1>7, <1>8, <1>9, <1>10, <1>11

\* The last manager finds a live pool with a worker to empty the queue.
LEMMA KeepRelease ==
  ASSUME IInv, NEW c \in Clients, Release(c)
  PROVE  IInv'
<1> USE DEF IInv
<1>0. /\ client[c] = "leave" /\ destroyer = {} /\ ref_count' = ref_count - 1
      /\ UNCHANGED <<size, tasks, max_queue_size, in_flight, task, phys_thread_count, enqueued, done>>
  BY DEF Release, MutexFree
<1>1. c \in Users /\ IsFiniteSet(Users) BY <1>0, ThreadPoolAssumption, FS_Subset DEF Users, Inside
<1>2. Cardinality(Users) \in Nat /\ Cardinality(Users) >= 1 /\ pool = "live"
  BY <1>1, FS_CardinalityType, FS_EmptySet DEF Managers
<1>3. IsFiniteSet(Users \ {c}) /\ Cardinality(Users \ {c}) = Cardinality(Users) - 1
  BY <1>1, FS_RemoveElement
<1>4. ASSUME NEW s \in {"join", "done"}, client' = [client EXCEPT ![c] = s]
      PROVE  /\ Users' = Users \ {c} /\ client' \in [Clients -> ClientStates]
             /\ client'[c] = s /\ \A x \in Clients : x # c => client'[x] = client[x]
             /\ Asked'
  <2>1. client'[c] = s /\ \A x \in Clients : x # c => client'[x] = client[x] BY <1>4 DEF Types
  <2>2. client' \in [Clients -> ClientStates] BY <1>4 DEF Types, ClientStates, Stopping
  <2>3. Users' = Users \ {c} BY <2>1 DEF Users, Inside, Asking
  <2>4. Asked' BY <1>0, <2>1 DEF Asked, Asking
  <2> QED BY <2>1, <2>2, <2>3, <2>4
<1>5. CASE ref_count = 1
  <2>1. /\ pool' = "stopping" /\ pool_size' = 0 /\ worker' = WakeWorkers(worker)
        /\ client' = [client EXCEPT ![c] = "join"] /\ destroyer' = {c}
    BY <1>5 DEF Release
  <2>2. Users' = {}
    <3>1. Cardinality(Users \ {c}) = 0 BY <1>3, <1>5 DEF Managers
    <3> QED BY <1>3, <1>4, <2>1, <3>1, FS_EmptySet
  <2>3. Like(worker') BY <2>1, Wakings
  <2>4. Types' BY <1>0, <1>2, <1>4, <1>5, <2>1, <2>3 DEF Types, Like, WorkerStates, ClientStates
  <2>5. Workers' BY <1>0, <1>2, <2>1, <2>3 DEF Workers, Like
  <2>6. Managers'
    <3>1. \A x \in Clients : client[x] \notin Stopping BY <1>0 DEF Managers
    <3>2. \A x \in Clients : client'[x] \in Stopping <=> x = c BY <1>4, <2>1, <3>1 DEF Stopping
    <3>3. Cardinality(Users') = 0 BY <2>2, FS_EmptySet
    <3> QED BY <1>0, <1>5, <2>1, <2>2, <3>2, <3>3 DEF Managers
  <2>7. Count' BY <1>0, <2>3, TakersKept DEF Count
  <2>8. Placed' BY <1>0, <2>3, TakersKept, PlacedKept
  <2> QED BY <1>4, <2>1, <2>4, <2>5, <2>6, <2>7, <2>8
<1>6. CASE ref_count # 1
  <2>1. client' = [client EXCEPT ![c] = "done"] /\ UNCHANGED <<pool, pool_size, worker, destroyer>>
    BY <1>6 DEF Release
  <2>2. Users' # {}
    <3>1. Cardinality(Users \ {c}) # 0 BY <1>2, <1>3, <1>6 DEF Managers
    <3> QED BY <1>4, <2>1, <3>1, FS_EmptySet
  <2>3. Types' BY <1>0, <1>2, <1>4, <2>1 DEF Types, ClientStates, Managers
  <2>4. Workers' BY <1>0, <2>1 DEF Workers
  <2>5. Managers'
    <3>1. \A x \in Clients : client'[x] \in Stopping <=> client[x] \in Stopping
      BY <1>0, <1>4, <2>1 DEF Stopping
    <3>2. Cardinality(Users') = Cardinality(Users) - 1 BY <1>3, <1>4, <2>1
    <3> QED BY <1>0, <1>2, <2>1, <2>2, <3>1, <3>2 DEF Managers
  <2>6. Count' BY <1>0, <2>1 DEF Count, Takers
  <2>7. Placed' BY <1>0, <2>1, PlacedKept DEF Holders
  <2> QED BY <1>4, <2>1, <2>3, <2>4, <2>5, <2>6, <2>7
<1> QED BY <1>5, <1>6

\* The destructor returns only when no worker is left, and then no task is.
LEMMA KeepJoined ==
  ASSUME IInv, NEW c \in Clients, Joined(c)
  PROVE  IInv'
<1> USE DEF IInv
<1>0. /\ client[c] = "joined?"
      /\ UNCHANGED <<size, pool_size, tasks, max_queue_size, in_flight, worker, task, ref_count,
                     phys_thread_count, enqueued, done>>
  BY DEF Joined
<1>1. c \in destroyer /\ pool = "stopping" BY <1>0 DEF Managers, Stopping
<1>2. Users = {} BY <1>1 DEF Managers
<1>3. CASE size = 0
  <2>1. pool' = "none" /\ destroyer' = {} /\ client' = [client EXCEPT ![c] = "done"]
    BY <1>3 DEF Joined
  <2>2. client'[c] = "done" /\ \A x \in Clients : x # c => client'[x] = client[x] BY <2>1 DEF Types
  <2>3. client' \in [Clients -> ClientStates] BY <2>1 DEF Types, ClientStates
  <2>4. Types' BY <1>0, <2>1, <2>3 DEF Types, ClientStates
  <2>5. Workers' BY <1>0, <1>1, <1>3, <2>1 DEF Workers
  <2>6. Managers'
    <3>1. \A x \in Clients : client'[x] \notin Stopping BY <1>1, <2>2 DEF Managers, Stopping
    <3>2. Users' = Users BY <1>0, <2>2 DEF Users, Inside, Asking
    <3> QED BY <1>0, <1>2, <2>1, <3>1, <3>2 DEF Managers
  <2>7. Count' BY <1>0 DEF Count, Takers
  <2>8. Asked' BY <1>0, <2>2 DEF Asked, Asking
  <2>9. Placed' BY <1>0, PlacedKept DEF Holders
  <2> QED BY <2>4, <2>5, <2>6, <2>7, <2>8, <2>9
<1>4. CASE size # 0
  <2>1. client' = [client EXCEPT ![c] = "join"] /\ UNCHANGED <<pool, destroyer>> BY <1>4 DEF Joined
  <2>2. Alike(client')
    BY <1>0, <2>1 DEF Types, Alike, ClientStates, Inside, Stopping, Asking
  <2>3. Like(worker') BY <1>0, Wakings
  <2> QED BY <1>0, <2>1, <2>2, <2>3, Calm DEF Types
<1> QED BY <1>3, <1>4

\* The common end of Enqueue and EnqueueAgain: a new task is in no other place,
\* and the pool has not stopped.
LEMMA KeepPush ==
  ASSUME IInv, NEW c \in Clients, client[c] \in Asking, NEW cl, Alike(cl), NEW limit \in Nat \ {0},
         Push(c, limit, worker, cl),
         UNCHANGED <<pool, size, pool_size, task, ref_count, phys_thread_count, destroyer, done>>
  PROVE  IInv'
<1> USE DEF IInv
<1> DEFINE t == <<c, enqueued[c] + 1>>
<1>1. pool = "live" BY DEF Managers, Users, Inside
<1>2. /\ tasks' = Append(tasks, t) /\ in_flight' = in_flight + 1
      /\ worker' \in WakeOne(worker, cl)
      /\ enqueued' = [enqueued EXCEPT ![c] = @ + 1]
      /\ client' = [cl EXCEPT ![c] =
                      IF enqueued[c] + 1 < TaskCount[c] THEN "enqueue" ELSE "wait"]
      /\ max_queue_size' = limit
  BY <1>1 DEF Push
<1>3. enqueued[c] < TaskCount[c] /\ enqueued[c] \in Nat /\ TaskCount[c] \in Nat
  BY TaskFacts DEF Asked, Types
<1>4. t \in Tasks /\ t \notin Accepted /\ Accepted' = Accepted \cup {t} BY <1>2, <1>3, AcceptedNext
<1>5. Like(worker') BY <1>2, Wakings
<1>6. Holders' = Holders /\ Takers' = Takers BY <1>5, TakersKept
<1>7. /\ client'[c] = IF enqueued[c] + 1 < TaskCount[c] THEN "enqueue" ELSE "wait"
      /\ \A x \in Clients : x # c => client'[x] = cl[x]
  BY <1>2 DEF Alike
<1>8. client' \in [Clients -> ClientStates] BY <1>2 DEF Alike, ClientStates, Inside, Asking
<1>9. \A x \in Clients : enqueued'[x] = IF x = c THEN enqueued[c] + 1 ELSE enqueued[x]
  BY <1>2 DEF Types
<1> HIDE DEF t
<1>10. /\ tasks' \in Seq(Tasks) /\ Len(tasks') = Len(tasks) + 1
       /\ Queued' = Queued \cup {t}
       /\ \A i, j \in DOMAIN tasks' : tasks'[i] = tasks'[j] => i = j
  <2>1. tasks \in Seq(Tasks) /\ t \notin Queued BY <1>4 DEF Types, Placed
  <2>2. \A i, j \in DOMAIN tasks : tasks[i] = tasks[j] => i = j BY DEF Placed
  <2> DEFINE r == Append(tasks, t)
  <2>3. t \notin {tasks[k] : k \in DOMAIN tasks} BY <2>1 DEF Queued
  <2>4. /\ r \in Seq(Tasks) /\ Len(r) = Len(tasks) + 1
        /\ {r[k] : k \in DOMAIN r} = {tasks[k] : k \in DOMAIN tasks} \cup {t}
        /\ \A i, j \in DOMAIN r : r[i] = r[j] => i = j
    BY <1>4, <2>1, <2>2, <2>3, Appended
  <2>5. tasks' = r BY <1>2
  <2> HIDE DEF r
  <2> QED BY <2>4, <2>5 DEF Queued
<1>11. enqueued' \in [Clients -> Nat] BY <1>2, <1>3 DEF Types
<1>12. Types' BY <1>1, <1>2, <1>5, <1>8, <1>10, <1>11 DEF Types, Like, WorkerStates, ClientStates
<1>13. Workers' BY <1>1, <1>5 DEF Workers, Like
<1>14. Managers'
  <2>1. \A x \in Clients : /\ client'[x] \in Inside <=> client[x] \in Inside
                           /\ client'[x] \in Stopping <=> client[x] \in Stopping
    <3>1. \A x \in Clients : /\ cl[x] \in Inside <=> client[x] \in Inside
                             /\ cl[x] \in Stopping <=> client[x] \in Stopping
      BY DEF Alike
    <3>2. client'[c] \in Inside /\ client'[c] \notin Stopping BY <1>7 DEF Inside, Asking, Stopping
    <3>3. client[c] \in Inside /\ client[c] \notin Stopping BY DEF Inside, Asking, Stopping
    <3> QED BY <1>7, <3>1, <3>2, <3>3
  <2> QED BY <2>1, ManagersKept
<1>15. Count'
  <2>1. Len(tasks) \in Nat BY DEF Types
  <2> QED BY <1>2, <1>6, <1>10, <2>1, TakersFinite DEF Count
<1>16. Asked'
  <2> SUFFICES ASSUME NEW x \in Clients
               PROVE  /\ enqueued'[x] <= TaskCount[x]
                      /\ client'[x] \in Asking \cup {"new"} => enqueued'[x] < TaskCount[x]
    BY DEF Asked
  <2>1. CASE x = c BY <1>3, <1>7, <1>9, <2>1 DEF Asking
  <2>2. CASE x # c BY <1>7, <1>9, <2>2 DEF Asked, Alike
  <2> QED BY <2>1, <2>2
<1>17. Placed'
  <2>1. Held = {task[n] : n \in Holders} /\ Held' = {task'[n] : n \in Holders'}
    BY DEF Held, Holders, Holding
  <2>2. Held' = Held BY <1>6, <2>1
  <2>3. t \notin Held /\ t \notin done BY <1>4 DEF Placed
  <2> QED BY <1>4, <1>6, <1>10, <2>2, <2>3 DEF Placed
<1> QED BY <1>12, <1>13, <1>14, <1>15, <1>16, <1>17

\* New workers take the numbers that follow; surplus ones leave later.
LEMMA KeepSetPoolSize ==
  ASSUME IInv, SetPoolSize
  PROVE  IInv'
<1> USE DEF IInv
<1>0. UNCHANGED <<pool, tasks, max_queue_size, in_flight, task, ref_count, destroyer, client,
                  enqueued, done>>
  BY DEF SetPoolSize
<1>1. PICK limit \in Sizes :
        /\ phys_thread_count' = limit
        /\ IF pool = "live"
           THEN /\ pool_size' = limit
                /\ size' = IF limit > size THEN limit ELSE size
                /\ worker' = IF limit > size
                             THEN [n \in WorkerNumbers |->
                                     IF n \in size..(limit - 1) THEN "loop" ELSE worker[n]]
                             ELSE IF limit < size THEN WakeWorkers(worker) ELSE worker
           ELSE UNCHANGED <<pool_size, size, worker>>
  BY DEF SetPoolSize
<1>2. /\ limit \in Nat /\ 1 <= limit /\ limit <= MaxWorkers /\ MaxWorkers \in Nat
      /\ size \in Nat /\ size <= MaxWorkers
  BY Bounds DEF Types
<1>3. /\ worker' \in [WorkerNumbers -> WorkerStates]
      /\ \A n \in WorkerNumbers : /\ worker'[n] \in Holding <=> worker[n] \in Holding
                                  /\ worker'[n] \in Counted <=> worker[n] \in Counted
                                  /\ worker'[n] # "none" <=> n < size'
  <2>1. CASE pool = "live" /\ limit > size
    <3>1. /\ size' = limit
          /\ worker' = [n \in WorkerNumbers |-> IF n \in size..(limit - 1) THEN "loop" ELSE worker[n]]
      BY <1>1, <2>1
    <3>2. ASSUME NEW n \in WorkerNumbers
          PROVE  /\ n \in size..(limit - 1) <=> n < limit /\ ~(n < size)
                 /\ n < size => n < limit
      BY <1>2, <2>1, Bounds
    <3>3. \A n \in WorkerNumbers : worker[n] \in WorkerStates /\ (worker[n] # "none" <=> n < size)
      BY DEF Types, Workers, WorkerStates
    <3>4. ASSUME NEW n \in WorkerNumbers
          PROVE  /\ worker'[n] \in Holding <=> worker[n] \in Holding
                 /\ worker'[n] \in Counted <=> worker[n] \in Counted
                 /\ worker'[n] # "none" <=> n < size'
                 /\ worker'[n] \in WorkerStates
      <4>1. CASE n \in size..(limit - 1)
        <5>1. worker[n] = "none" /\ n < limit BY <3>2, <3>3, <4>1
        <5>2. worker'[n] = "loop" BY <3>1, <4>1
        <5> QED BY <3>1, <5>1, <5>2 DEF Holding, Counted, WorkerStates
      <4>2. CASE n \notin size..(limit - 1)
        <5>1. worker'[n] = worker[n] BY <3>1, <4>2
        <5> QED BY <3>1, <3>2, <3>3, <4>2, <5>1
      <4> QED BY <4>1, <4>2
    <3> QED BY <3>1, <3>4
  <2>2. CASE ~(pool = "live" /\ limit > size)
    <3>1. size' = size /\ (worker' = worker \/ worker' = WakeWorkers(worker)) BY <1>1, <2>2
    <3>2. Like(worker') BY <3>1, Wakings
    <3> QED BY <3>1, <3>2 DEF Like, Workers
  <2> QED BY <2>1, <2>2
<1>4. Holders' = Holders /\ Takers' = Takers BY <1>3 DEF Holders, Takers
<1>5. size' \in 0..MaxWorkers /\ size' >= size
  BY <1>1, <1>2
<1>6. Types'
  <2>1. pool_size' \in Nat BY <1>1, <1>2 DEF Types
  <2> QED BY <1>0, <1>1, <1>3, <1>5, <2>1 DEF Types, WorkerStates
<1>7. Workers'
  <2>1. pool' = "live" => pool_size' \in Sizes /\ size' >= 1 BY <1>0, <1>1, <1>2
  <2>2. pool' = "none" => size' = 0 BY <1>0, <1>1 DEF Workers
  <2>3. pool' # "live" /\ size' = 0 => tasks' = <<>> BY <1>0, <1>1 DEF Workers
  <2> QED BY <1>0, <1>3, <2>1, <2>2, <2>3 DEF Workers
<1>8. Managers' BY <1>0, ManagersKept
<1>9. Count' BY <1>0, <1>4 DEF Count
<1>10. Asked' BY <1>0 DEF Asked
<1>11. Placed' BY <1>0, <1>4, PlacedKept
<1> QED BY <1>6, <1>7, <1>8, <1>9, <1>10, <1>11

\* The worker that leaves is the last one, and a live pool keeps one.
LEMMA KeepExit ==
  ASSUME IInv, NEW n \in WorkerNumbers, Exit(n)
  PROVE  IInv'
<1> USE DEF IInv
<1> DEFINE w == [worker EXCEPT ![n] = "none"]
<1>0. /\ worker[n] = "loop" /\ MayExit(n) /\ n = size - 1 /\ size' = size - 1
      /\ worker' = WakeWorkers(w) /\ client' = WakeJoiner(client)
      /\ UNCHANGED <<pool, pool_size, tasks, max_queue_size, in_flight, task, ref_count,
                     phys_thread_count, destroyer, enqueued, done>>
  BY DEF Exit
<1>1. size \in Nat /\ size <= MaxWorkers /\ n \in Nat /\ MaxWorkers \in Nat BY Bounds DEF Types
<1>2. /\ worker'[n] = "none"
      /\ \A m \in WorkerNumbers : m # n =>
           worker'[m] = IF worker[m] = "sleep" THEN "loop" ELSE worker[m]
  BY <1>0 DEF WakeWorkers, Types
<1>3. worker' \in [WorkerNumbers -> WorkerStates]
  <2>1. worker' = [m \in WorkerNumbers |-> worker'[m]] BY <1>0 DEF WakeWorkers
  <2>2. \A m \in WorkerNumbers : worker'[m] \in WorkerStates BY <1>2 DEF Types, WorkerStates
  <2> QED BY <2>1, <2>2
<1>4. \A m \in WorkerNumbers : /\ worker'[m] \in Holding <=> worker[m] \in Holding
                               /\ worker'[m] \in Counted <=> worker[m] \in Counted
                               /\ worker'[m] = "none" <=> m = n \/ worker[m] = "none"
  BY <1>0, <1>2 DEF Holding, Counted
<1>5. Holders' = Holders /\ Takers' = Takers BY <1>4 DEF Holders, Takers
<1>6. Alike(client') BY <1>0, Wakings
<1>7. Types'
  <2>1. size' \in 0..MaxWorkers BY <1>0, <1>1
  <2> QED BY <1>0, <1>3, <1>6, <2>1 DEF Types, WorkerStates, Alike, ClientStates
<1>8. Workers'
  <2>1. \A m \in WorkerNumbers : worker'[m] # "none" <=> m < size'
    <3>1. \A m \in WorkerNumbers : m \in Nat /\ (worker[m] # "none" <=> m < size)
      BY Bounds DEF Workers
    <3>2. \A m \in WorkerNumbers : m < size - 1 <=> m < size /\ m # n BY <1>0, <1>1, <3>1
    <3> QED BY <1>0, <1>4, <3>1, <3>2
  <2>2. pool = "live" => size' >= 1
    <3>1. ASSUME pool = "live" PROVE pool_size < n + 1 /\ pool_size \in Nat /\ pool_size >= 1
      BY <1>0, <3>1, Bounds DEF MayExit, Surplus, Workers
    <3> QED BY <1>0, <1>1, <3>1
  <2>3. pool = "none" => FALSE
    <3>1. ASSUME pool = "none" PROVE size = 0 BY <3>1 DEF Workers
    <3> QED BY <1>0, <1>1, <3>1
  <2>4. pool = "stopping" => tasks = <<>> BY <1>0 DEF MayExit
  <2>5. pool \in {"none", "live", "stopping"} BY DEF Types
  <2> QED BY <1>0, <1>4, <2>1, <2>2, <2>3, <2>4, <2>5 DEF Workers
<1>9. Managers' BY <1>0, <1>6, ManagersKept DEF Alike
<1>10. Count' BY <1>0, <1>5 DEF Count
<1>11. Asked' BY <1>0, <1>6, AskedKept
<1>12. Placed' BY <1>0, <1>5, PlacedKept
<1> QED BY <1>7, <1>8, <1>9, <1>10, <1>11, <1>12

\* A task goes from the queue to a worker.
LEMMA KeepTake ==
  ASSUME IInv, NEW n \in WorkerNumbers, Take(n)
  PROVE  IInv'
<1> USE DEF IInv
<1> DEFINE t == Head(tasks)
<1>0. /\ worker[n] = "loop" /\ tasks # <<>>
      /\ task' = [task EXCEPT ![n] = t] /\ tasks' = Tail(tasks)
      /\ worker' = [worker EXCEPT ![n] =
           IF Len(tasks) = max_queue_size \/ Len(tasks) = 1 THEN "notify" ELSE "run"]
      /\ UNCHANGED <<pool, size, pool_size, max_queue_size, in_flight, ref_count,
                     phys_thread_count, destroyer, client, enqueued, done>>
  BY DEF Take
<1>1. /\ worker'[n] \in Holding /\ worker' \in [WorkerNumbers -> WorkerStates]
      /\ task'[n] = t
      /\ \A m \in WorkerNumbers : m # n => worker'[m] = worker[m] /\ task'[m] = task[m]
  BY <1>0 DEF Types, Holding, Counted, WorkerStates
<1>2. /\ tasks' \in Seq(Tasks) /\ Len(tasks) = Len(tasks') + 1 /\ t \in Tasks
      /\ Queued = Queued' \cup {t} /\ t \notin Queued'
      /\ \A i, j \in DOMAIN tasks' : tasks'[i] = tasks'[j] => i = j
  <2> DEFINE r == Tail(tasks)
  <2>1. tasks \in Seq(Tasks) /\ \A i, j \in DOMAIN tasks : tasks[i] = tasks[j] => i = j
    BY DEF Types, Placed
  <2>2. /\ r \in Seq(Tasks) /\ Len(tasks) = Len(r) + 1 /\ t \in Tasks
        /\ {tasks[k] : k \in DOMAIN tasks} = {r[k] : k \in DOMAIN r} \cup {t}
        /\ t \notin {r[k] : k \in DOMAIN r}
        /\ \A i, j \in DOMAIN r : r[i] = r[j] => i = j
    BY <1>0, <2>1, Popped
  <2>3. tasks' = r BY <1>0
  <2> HIDE DEF r, t
  <2> QED BY <2>2, <2>3 DEF Queued
<1> HIDE DEF t
<1>3. /\ Holders' = Holders \cup {n} /\ n \notin Holders
      /\ Takers' = Takers \cup {n} /\ n \notin Takers
  BY <1>0, <1>1 DEF Holders, Takers, Holding, Counted
<1>4. Cardinality(Takers') = Cardinality(Takers) + 1 BY <1>3, TakersFinite, FS_AddElement
<1>5. Types'
  <2>1. task' \in [WorkerNumbers -> Tasks \cup {NoTask}] BY <1>0, <1>2 DEF Types
  <2> QED BY <1>0, <1>1, <1>2, <2>1 DEF Types, WorkerStates
<1>6. Workers'
  <2>1. t # NoTask BY <1>2, TaskFacts
  <2>2. worker'[n] # "none" /\ worker'[n] \in Counted BY <1>1 DEF Holding, Counted
  <2>3. pool # "live" /\ size = 0 => FALSE BY <1>0 DEF Workers
  <2> QED BY <1>0, <1>1, <2>1, <2>2, <2>3 DEF Workers
<1>7. Managers' BY <1>0, ManagersKept
<1>8. Count'
  <2>1. Len(tasks') \in Nat BY <1>2
  <2> QED BY <1>0, <1>2, <1>4, <2>1, TakersFinite DEF Count
<1>9. Asked' BY <1>0 DEF Asked
<1>10. Placed'
  <2>1. Held = {task[m] : m \in Holders} /\ Held' = {task'[m] : m \in Holders'}
    BY DEF Held, Holders, Holding
  <2>2. Held' = Held \cup {t} BY <1>1, <1>3, <2>1 DEF Holders
  <2>3. t \notin Held /\ t \notin done /\ Accepted' = Accepted
    BY <1>0, <1>2 DEF Placed, Accepted
  <2>4. \A k, m \in Holders' : task'[k] = task'[m] => k = m
    <3> SUFFICES ASSUME NEW k \in Holders', NEW m \in Holders', task'[k] = task'[m], k # m
                 PROVE  FALSE
      OBVIOUS
    <3>1. k # n /\ m # n
      BY <1>1, <1>3, <2>1, <2>3 DEF Holders
    <3> QED BY <1>1, <1>3, <3>1 DEF Placed, Holders
  <2> QED BY <1>0, <1>2, <2>2, <2>3, <2>4 DEF Placed
<1> QED BY <1>5, <1>6, <1>7, <1>8, <1>9, <1>10

\* A task goes from its worker to the results.
LEMMA KeepRun ==
  ASSUME IInv, NEW n \in WorkerNumbers, Run(n)
  PROVE  IInv'
<1> USE DEF IInv
<1>0. /\ worker[n] = "run" /\ done' = done \cup {task[n]}
      /\ worker' = [worker EXCEPT ![n] = "ran"]
      /\ UNCHANGED <<pool, size, pool_size, tasks, max_queue_size, in_flight, task, ref_count,
                     phys_thread_count, destroyer, client, enqueued>>
  BY DEF Run, poolVars
<1>1. /\ worker'[n] = "ran" /\ worker' \in [WorkerNumbers -> WorkerStates]
      /\ \A m \in WorkerNumbers : m # n => worker'[m] = worker[m]
  BY <1>0 DEF Types, Counted, WorkerStates
<1>2. /\ Holders' = Holders \ {n} /\ n \in Holders /\ Takers' = Takers
  BY <1>0, <1>1 DEF Holders, Takers, Holding, Counted
<1>3. task[n] \in Tasks BY <1>0 DEF Types, Workers, Counted, Holding
<1>4. Types'
  <2>1. done' \subseteq Tasks /\ IsFiniteSet(done') BY <1>0, <1>3, FS_AddElement DEF Types
  <2> QED BY <1>0, <1>1, <2>1 DEF Types, WorkerStates
<1>5. Workers' BY <1>0, <1>1 DEF Workers, Counted, Holding
<1>6. Managers' BY <1>0, ManagersKept
<1>7. Count' BY <1>0, <1>2 DEF Count
<1>8. Asked' BY <1>0 DEF Asked
<1>9. Placed'
  <2>1. Held = {task[m] : m \in Holders} /\ Held' = {task[m] : m \in Holders \ {n}}
    BY <1>0, <1>2 DEF Held, Holders, Holding
  <2>2. Held = Held' \cup {task[n]} /\ task[n] \notin Held' BY <1>2, <2>1 DEF Placed
  <2>3. Queued' = Queued /\ Accepted' = Accepted BY <1>0 DEF Queued, Accepted
  <2> QED BY <1>0, <1>2, <2>2, <2>3 DEF Placed
<1> QED BY <1>4, <1>5, <1>6, <1>7, <1>8, <1>9

\* in_flight counts queued tasks and busy workers.
LEMMA KeepCountOut ==
  ASSUME IInv, NEW n \in WorkerNumbers, CountOut(n)
  PROVE  IInv'
<1> USE DEF IInv
<1>0. /\ worker[n] = "ran" /\ in_flight' = in_flight - 1 /\ task' = [task EXCEPT ![n] = NoTask]
      /\ worker' = [worker EXCEPT ![n] = IF in_flight = 1 THEN "idle?" ELSE "loop"]
      /\ UNCHANGED <<pool, size, pool_size, tasks, max_queue_size, ref_count, phys_thread_count,
                     destroyer, client, enqueued, done>>
  BY DEF CountOut, poolVars
<1>1. /\ worker'[n] \notin Counted /\ worker'[n] # "none" /\ task'[n] = NoTask
      /\ worker' \in [WorkerNumbers -> WorkerStates]
      /\ \A m \in WorkerNumbers : m # n => worker'[m] = worker[m] /\ task'[m] = task[m]
  BY <1>0 DEF Types, Counted, Holding, WorkerStates
<1>2. Holders' = Holders /\ n \notin Holders /\ Takers' = Takers \ {n} /\ n \in Takers
  BY <1>0, <1>1 DEF Holders, Takers, Holding, Counted
<1>3. Cardinality(Takers') = Cardinality(Takers) - 1 /\ Cardinality(Takers) >= 1
  <2>1. Cardinality(Takers) # 0 BY <1>2, TakersFinite, FS_EmptySet
  <2>2. Cardinality(Takers \ {n}) = Cardinality(Takers) - 1
    BY <1>2, TakersFinite, FS_RemoveElement
  <2> QED BY <1>2, <2>1, <2>2, TakersFinite
<1>4. Len(tasks) \in Nat BY DEF Types
<1>5. in_flight' \in Nat /\ Count' BY <1>0, <1>3, <1>4, TakersFinite DEF Count
<1>6. Types' BY <1>0, <1>1, <1>5 DEF Types, WorkerStates
<1>7. Workers' BY <1>0, <1>1 DEF Workers
<1>8. Managers' BY <1>0, ManagersKept
<1>9. Asked' BY <1>0 DEF Asked
<1>10. Placed'
  <2>1. \A m \in Holders : task'[m] = task[m] BY <1>1, <1>2 DEF Holders
  <2> QED BY <1>0, <1>2, <2>1, PlacedKept
<1> QED BY <1>5, <1>6, <1>7, <1>8, <1>9, <1>10

\* The invariant holds before the first manager.
LEMMA Start == Init => IInv
<1> SUFFICES ASSUME Init PROVE IInv OBVIOUS
<1>1. /\ \A n \in WorkerNumbers : worker[n] = "none" /\ task[n] = NoTask
      /\ \A c \in Clients : client[c] = "new" /\ enqueued[c] = 0
      /\ tasks = <<>> /\ done = {} /\ pool = "none" /\ size = 0 /\ destroyer = {}
  BY DEF Init
<1>2. Users = {} /\ Takers = {} /\ Holders = {}
  BY <1>1 DEF Users, Takers, Holders, Inside, Asking, Counted, Holding
<1>3. Cardinality({}) = 0 /\ IsFiniteSet({}) BY FS_EmptySet
<1>4. Types
  <2>1. tasks \in Seq(Tasks) /\ 0 \in 0..MaxWorkers BY <1>1, Bounds
  <2> QED BY <1>1, <1>3, <2>1, Bounds, ThreadPoolAssumption DEF Init, Types, Counted
<1>5. Workers BY <1>1, Bounds DEF Workers, Counted, Holding
<1>6. Managers BY <1>1, <1>2, <1>3 DEF Init, Managers, Stopping
<1>7. Count
  <2>1. Len(tasks) = 0 BY <1>1
  <2> QED BY <1>2, <1>3, <2>1 DEF Init, Count
<1>8. Asked BY <1>1, TaskFacts DEF Asked
<1>9. Placed
  <2>1. Queued = {} /\ Held = {} BY <1>1 DEF Queued, Held
  <2>2. Accepted = {}
    <3>1. \A c \in Clients : 1..enqueued[c] = {} BY <1>1
    <3> QED BY <3>1 DEF Accepted
  <2>3. DOMAIN tasks = {} BY <1>1
  <2> QED BY <1>1, <1>2, <2>1, <2>2, <2>3 DEF Placed
<1> QED BY <1>4, <1>5, <1>6, <1>7, <1>8, <1>9 DEF IInv

\* Every step of a client keeps it.
LEMMA KeepClient ==
  ASSUME IInv, NEW c \in Clients, Client(c)
  PROVE  IInv'
<1> USE DEF IInv
<1>0. Like(worker) /\ Alike(client) /\ max_queue_size \in Nat \ {0} BY Wakings DEF Types
<1>1. CASE Construct(c) BY <1>1, KeepConstruct
<1>2. CASE Enqueue(c)
  <2> DEFINE full  == Len(tasks) >= max_queue_size
             limit == IF full /\ pool # "stopping" THEN 2 * max_queue_size ELSE max_queue_size
             cl    == IF limit # max_queue_size THEN WakeProducers(client) ELSE client
  <2>1. /\ client[c] = "enqueue"
        /\ UNCHANGED <<pool, size, pool_size, task, ref_count, phys_thread_count, destroyer, done,
                       tunings>>
        /\ \/ /\ client' = [cl EXCEPT ![c] = "full"] /\ max_queue_size' = limit
              /\ UNCHANGED <<tasks, in_flight, worker, enqueued>>
           \/ Push(c, limit, worker, cl)
    BY <1>2 DEF Enqueue
  <2>2. limit \in Nat \ {0} BY <1>0
  <2>3. Alike(cl) BY <1>0, Wakings
  <2> HIDE DEF limit, cl
  <2>4. CASE Push(c, limit, worker, cl)
    BY <2>1, <2>2, <2>3, <2>4, KeepPush DEF Asking
  <2>5. CASE /\ client' = [cl EXCEPT ![c] = "full"] /\ max_queue_size' = limit
             /\ UNCHANGED <<tasks, in_flight, worker, enqueued>>
    <3>1. Alike(client')
      BY <2>1, <2>3, <2>5 DEF Alike, ClientStates, Inside, Stopping, Asking
    <3> QED BY <1>0, <2>1, <2>2, <2>5, <3>1, Calm
  <2> QED BY <2>1, <2>4, <2>5
<1>3. CASE EnqueueAgain(c)
  <2>1. /\ client[c] = "full?"
        /\ UNCHANGED <<pool, size, pool_size, task, ref_count, phys_thread_count, destroyer, done>>
        /\ \/ /\ client' = [client EXCEPT ![c] = "full"]
              /\ UNCHANGED <<tasks, in_flight, worker, enqueued, max_queue_size>>
           \/ Push(c, max_queue_size, worker, client)
    BY <1>3 DEF EnqueueAgain
  <2>2. CASE Push(c, max_queue_size, worker, client)
    BY <1>0, <2>1, <2>2, KeepPush DEF Asking
  <2>3. CASE /\ client' = [client EXCEPT ![c] = "full"]
             /\ UNCHANGED <<tasks, in_flight, worker, enqueued, max_queue_size>>
    <3>1. Alike(client')
      BY <2>1, <1>0, <2>3 DEF Alike, ClientStates, Inside, Stopping, Asking
    <3> QED BY <1>0, <2>1, <2>3, <3>1, Calm
  <2> QED BY <2>1, <2>2, <2>3
<1>4. CASE Release(c) BY <1>4, KeepRelease
<1>5. CASE Joined(c) BY <1>5, KeepJoined
<1>6. CASE GetFutures(c) \/ WaitUntilEmpty(c) \/ WaitUntilNothingInFlight(c)
  <2>1. /\ UNCHANGED <<poolVars, in_flight, worker, task, ref_count, phys_thread_count, destroyer,
                       enqueued, done, tunings>>
        /\ client[c] \in {"wait", "empty?", "flight?"}
        /\ \E s \in {"leave", "empty", "flight"} : client' = [client EXCEPT ![c] = s]
    BY <1>6 DEF GetFutures, WaitUntilEmpty, WaitUntilNothingInFlight, WaitUntil
  <2>2. Alike(client')
    BY <1>0, <2>1 DEF Alike, ClientStates, Inside, Stopping, Asking
  <2> QED BY <1>0, <2>1, <2>2, Calm DEF poolVars
<1> QED BY <1>1, <1>2, <1>3, <1>4, <1>5, <1>6 DEF Client

\* Every step of a worker keeps it.
LEMMA KeepWorker ==
  ASSUME IInv, NEW n \in WorkerNumbers, Worker(n)
  PROVE  IInv'
<1> USE DEF IInv
<1>0. Like(worker) /\ Alike(client) /\ max_queue_size \in Nat \ {0} BY Wakings DEF Types
<1>1. CASE Exit(n) BY <1>1, KeepExit
<1>2. CASE Take(n) BY <1>2, KeepTake
<1>3. CASE Run(n) BY <1>3, KeepRun
<1>4. CASE CountOut(n) BY <1>4, KeepCountOut
<1>5. CASE Spin(n) BY <1>0, <1>5, Calm DEF Spin, vars
<1>6. CASE Sleep(n)
  <2>1. Like(worker') BY <1>0, <1>6 DEF Sleep, Like, WorkerStates, Counted, Holding
  <2> QED BY <1>0, <1>6, <2>1, Calm DEF Sleep, poolVars
<1>7. CASE NotifyProducers(n)
  <2>1. Like(worker') BY <1>0, <1>7 DEF NotifyProducers, Like, WorkerStates, Counted, Holding
  <2>2. Alike(client') BY <1>7, Wakings DEF NotifyProducers
  <2> QED BY <1>0, <1>7, <2>1, <2>2, Calm DEF NotifyProducers, poolVars
<1>8. CASE NotifyIdle(n)
  <2>1. Like(worker') BY <1>0, <1>8 DEF NotifyIdle, Like, WorkerStates, Counted, Holding
  <2>2. Alike(client')
    <3>1. \A c \in Clients : client'[c] = IF client[c] = "flight" THEN "flight?" ELSE client[c]
      BY <1>8 DEF NotifyIdle
    <3>2. client' = [c \in Clients |-> client'[c]] BY <1>8 DEF NotifyIdle
    <3>3. \A c \in Clients : client'[c] \in ClientStates
      BY <1>0, <3>1 DEF Alike, ClientStates, Inside
    <3>4. client' \in [Clients -> ClientStates] BY <3>2, <3>3
    <3> QED BY <1>0, <3>1, <3>4 DEF Alike, Inside, Stopping, Asking
  <2> QED BY <1>0, <1>8, <2>1, <2>2, Calm DEF NotifyIdle, poolVars
<1> QED BY <1>1, <1>2, <1>3, <1>4, <1>5, <1>6, <1>7, <1>8 DEF Worker

\* Every step keeps it.
LEMMA Step == IInv /\ [Next]_vars => IInv'
<1> SUFFICES ASSUME IInv, [Next]_vars PROVE IInv' OBVIOUS
<1>0. Like(worker) /\ Alike(client) /\ max_queue_size \in Nat \ {0} BY Wakings DEF IInv, Types
<1>1. CASE \E c \in Clients : Client(c) BY <1>1, KeepClient
<1>2. CASE \E n \in WorkerNumbers : Worker(n) BY <1>2, KeepWorker
<1>3. CASE SetPoolSize BY <1>3, KeepSetPoolSize
<1>4. CASE SetQueueSizeLimit
  <2>1. PICK limit \in Limits :
          /\ max_queue_size' = limit
          /\ client' = IF max_queue_size < limit THEN WakeProducers(client) ELSE client
    BY <1>4 DEF SetQueueSizeLimit
  <2>2. Alike(client') BY <1>0, <2>1, Wakings DEF IInv
  <2>3. max_queue_size' \in Nat \ {0} BY <2>1, ThreadPoolAssumption
  <2> QED BY <1>0, <1>4, <2>2, <2>3, Calm DEF SetQueueSizeLimit
<1>5. CASE UNCHANGED vars BY <1>0, <1>5, Calm DEF vars
<1> QED BY <1>1, <1>2, <1>3, <1>4, <1>5 DEF Next, Terminated

\* The inductive invariant holds in every reachable state.
THEOREM Inductive == Spec => []IInv
BY Start, Step, PTL DEF Spec

\* The live workers are those with the lowest numbers, a worker holds a task
\* exactly while it runs one, and the reference count stays in range.
THEOREM TypeCorrect == Spec => []TypeOK
<1>1. ASSUME IInv PROVE TypeOK
  <2>1. Users \subseteq Clients BY DEF Users
  <2>2. Cardinality(Users) <= Cardinality(Clients) /\ Cardinality(Clients) \in Nat
    BY <2>1, ThreadPoolAssumption, FS_Subset, FS_CardinalityType
  <2> QED BY <1>1, <2>2 DEF IInv, Types, Workers, Managers, TypeOK, Counted, Holding
<1> QED BY <1>1, Inductive, PTL

\* The assertion at the end of ~ThreadPool: when the pool is freed nothing is in
\* flight or queued, no worker is left and no client is inside.
THEOREM Safe == Spec => []DestructorSafe
<1>1. ASSUME IInv PROVE DestructorSafe
  <2> SUFFICES ASSUME pool = "none"
               PROVE  /\ in_flight = 0 /\ tasks = <<>> /\ size = 0
                      /\ \A c \in Clients : client[c] \in {"new", "done"}
    BY DEF DestructorSafe
  <2>1. size = 0 /\ tasks = <<>> BY <1>1 DEF IInv, Workers
  <2>2. Takers = {}
    <3>1. \A n \in WorkerNumbers : ~(n < size) BY <2>1, Bounds
    <3>2. \A n \in WorkerNumbers : worker[n] = "none" BY <1>1, <3>1 DEF IInv, Workers
    <3> QED BY <3>2 DEF Takers, Counted, Holding
  <2>3. Len(tasks) = 0 /\ Cardinality(Takers) = 0 BY <2>1, <2>2, FS_EmptySet
  <2>4. in_flight = 0 BY <1>1, <2>3 DEF IInv, Count
  <2>5. \A c \in Clients : client[c] \notin Inside /\ client[c] \notin Stopping
    BY <1>1 DEF IInv, Managers, Users
  <2> QED BY <1>1, <2>1, <2>4, <2>5 DEF IInv, Types
<1> QED BY <1>1, Inductive, PTL

\* Whatever resizing, stopping and waking goes on, every accepted task is in
\* exactly one place: once in the queue, at one worker, or done.
THEOREM Once == Spec => []EachTaskOnce
<1>1. ASSUME IInv PROVE EachTaskOnce
  <2> USE <1>1 DEF IInv
  <2>1. IsFiniteSet(Queued) /\ Cardinality(Queued) = Len(tasks) /\ Len(tasks) \in Nat
    <3> DEFINE f == [k \in 1..Len(tasks) |-> tasks[k]]
    <3>1. Len(tasks) \in Nat /\ DOMAIN tasks = 1..Len(tasks) BY DEF Types
    <3>2. f \in Bijection(1..Len(tasks), Queued)
      BY <3>1 DEF Placed, Queued, Bijection, Injection, Surjection, IsInjective
    <3>3. ExistsBijection(1..Len(tasks), Queued) BY <3>2 DEF ExistsBijection
    <3>4. IsFiniteSet(1..Len(tasks)) /\ Cardinality(1..Len(tasks)) = Len(tasks)
      <4> DEFINE n == Len(tasks)
      <4>1. n \in Nat BY <3>1
      <4> HIDE DEF n
      <4>2. IsFiniteSet(1..n) /\ Cardinality(1..n) = IF 1 > n THEN 0 ELSE n - 1 + 1
        BY <4>1, FS_Interval
      <4>3. Cardinality(1..n) = n BY <4>1, <4>2
      <4> QED BY <4>2, <4>3 DEF n
    <3> QED BY <3>1, <3>3, <3>4, FS_Bijection
  <2>2. IsFiniteSet(Held) /\ Cardinality(Held) = Cardinality(Holders)
    <3> DEFINE f == [n \in Holders |-> task[n]]
    <3>1. Held = {task[n] : n \in Holders} BY DEF Held, Holders, Holding
    <3>2. f \in Bijection(Holders, Held)
      BY <3>1 DEF Placed, Bijection, Injection, Surjection, IsInjective
    <3>3. ExistsBijection(Holders, Held) BY <3>2 DEF ExistsBijection
    <3>4. IsFiniteSet(Holders) BY Bounds, FS_Subset DEF Holders
    <3> QED BY <3>3, <3>4, FS_Bijection
  <2>3. IsFiniteSet(done) BY DEF Types
  <2>4. /\ IsFiniteSet(Queued \cup Held)
        /\ Cardinality(Queued \cup Held) = Cardinality(Queued) + Cardinality(Held)
    BY <2>1, <2>2, Disjoint DEF Placed
  <2>5. Cardinality(Queued \cup Held \cup done) = Cardinality(Queued \cup Held) + Cardinality(done)
    <3>1. (Queued \cup Held) \cap done = {} BY DEF Placed
    <3> QED BY <2>3, <2>4, <3>1, Disjoint
  <2>6. Holders = {n \in WorkerNumbers : worker[n] \in {"notify", "run"}} BY DEF Holders, Holding
  <2>7. Queued \cup Held \cup done = Accepted BY DEF Placed
  <2> QED BY <2>1, <2>2, <2>4, <2>5, <2>6, <2>7 DEF EachTaskOnce
<1> QED BY <1>1, Inductive, PTL

\* enqueue throws only on a stopped pool, and no client that uses the manager
\* ever meets one: the pool stops when the last of them has left.
EnqueueAccepts == \A c \in Clients : client[c] # "thrown"

\* The runtime_error of enqueue is unreachable.
THEOREM Accepting == Spec => []EnqueueAccepts
<1>1. IInv => EnqueueAccepts
  BY DEF IInv, Types, EnqueueAccepts, Inside, Asking, Stopping
<1> QED BY <1>1, Inductive, PTL
=============================================================================
