-------------------------- MODULE ThreadPoolProofs ---------------------------
(***************************************************************************)
(* What the pool keeps for every number of threads, workers and tasks and  *)
(* every size of the queues, of its threads and workers: who holds a mutex *)
(* and what is counted, that a worker is owned by one thread while it is   *)
(* ACTIVE, and that nobody overwrites a published slot of a queue.  Module *)
(* ThreadPoolTaskProofs goes on with the tasks.                            *)
(***************************************************************************)
EXTENDS ThreadPool, FiniteSetTheorems, TLAPS

\* Most leaves are first-order: Zenon is the default prover here, and a leaf that
\* needs arithmetic, or the type of a function or a record, cites SMT.
USE Zenon

Statuses == {"ACTIVE", "STANDBY", "INACTIVE"}
Holding == {"lock", "scan", "count", "push", "publish", "published_late", "run"}
Inside == Holding \cup {"wakeup", "notify"}
Ending == {"exit", "exit_cas", "exit_again", "ended"}

TLabels == Inside \cup Ending \cup {"idle"}
WLabels == {"top", "pop", "again", "cas", "run", "standby", "uncount", "steal", "scan", "sleep",
            "predicate", "waiting", "woken", "got", "end"}
MyType == [task : 0..MaxTasks, td : Workers \cup {None}, i : Nat, status : Statuses]
AtType == [status : Statuses, by : {"tryConsume", "tryStealOne", "tryGetOne", "tryGetOwn"},
           active_td : Int, i : Nat, read : Nat, task : 0..MaxTasks]

TypeInv ==
  /\ status \in [Workers -> Statuses] /\ _active_td_size \in Int
  /\ _exit \in BOOLEAN /\ _need_wakeup \in Int
  /\ _td_mtx \in BOOLEAN /\ _td_wakeup_mtx \in BOOLEAN
  /\ _buffer \in [Workers -> [0..(_queue_size - 1) -> 0..MaxTasks]]
  /\ _read_idx \in [Workers -> Nat] /\ _write_idx \in [Workers -> Nat]
  /\ _paired_thread \in [Threads -> Workers \cup {None}]
  /\ tpc \in [Threads -> TLabels] /\ my \in [Threads -> MyType]
  /\ pc \in [Workers -> WLabels] /\ at \in [Workers -> AtType]
  /\ dpc \in {"idle", "notify", "join"} /\ joined \in Nat /\ deleted \in SUBSET Workers
  /\ submitted \in 0..MaxTasks /\ ran \in [Tasks -> Nat]
  /\ delayed \in BOOLEAN /\ unpaired \in BOOLEAN

\* Where a submitting thread is, and what its local variables hold there.
Placed(t) ==
  /\ tpc[t] \in {"lock", "scan", "count"} \cup Ending => _paired_thread[t] = None
  /\ tpc[t] \in {"push", "publish", "published_late"} => _paired_thread[t] = my[t].td
  /\ tpc[t] \in {"push", "publish", "published_late", "count", "exit", "exit_cas",
                "exit_again"} => my[t].td \in Workers
  /\ tpc[t] \in {"lock", "scan"} => my[t].i \in 0.._td_capacity
  /\ tpc[t] = "published_late" => delayed

\* The same of a worker.
Posted(w) ==
  /\ pc[w] \in {"top", "steal", "standby", "uncount", "sleep", "predicate", "waiting",
                "woken", "end"} => at[w].by = "tryConsume"
  /\ pc[w] \in {"sleep", "predicate", "waiting", "woken"} => at[w].i = 0
  /\ pc[w] = "scan" => at[w].by \in {"tryStealOne", "tryGetOne"}
  /\ pc[w] \in {"pop", "again", "cas"} => queue(w) \in Workers

\* _td_mtx is held from the lock to the pairing.
PairsAlone ==
  \A t \in Threads : tpc[t] \in {"scan", "count"} =>
    /\ ~_td_mtx
    /\ \A u \in Threads : tpc[u] \in {"scan", "count"} => u = t

\* The worker holds _td_wakeup_mtx; it is counted in _need_wakeup.
Locked(w) ==
  \/ pc[w] \in {"predicate", "got"}
  \/ pc[w] \in {"scan", "pop", "again", "cas"} /\ InWait(w)
Sleeps(w) == pc[w] \in {"waiting", "woken"} \/ Locked(w)
Asleep == {w \in Workers : Sleeps(w)}

WaitsAlone ==
  \A w \in Workers : Locked(w) =>
    /\ ~_td_wakeup_mtx
    /\ \A v \in Workers : Locked(v) => v = w

Counted == _need_wakeup = Cardinality(Asleep)

\* Worker w is the worker of thread t: paired with it, about to be, or about to be
\* given back.
Owns(t, w) ==
  _paired_thread[t] = w \/ (tpc[t] \in {"count", "exit", "exit_cas"} /\ my[t].td = w)

\* A worker that consumes the tasks of a thread that has ended.
Winding(w) ==
  \/ pc[w] = "standby"
  \/ pc[w] \in {"pop", "again", "cas", "run"}
       /\ at[w].by = "tryConsume" /\ at[w].status = "INACTIVE"

Paired ==
  /\ \A t \in Threads, w \in Workers : Owns(t, w) =>
       status[w] = "ACTIVE" /\ \A u \in Threads : Owns(u, w) => u = t
  /\ \A t \in Threads : tpc[t] \in {"exit_cas", "exit_again"} => my[t].status = "ACTIVE"
  /\ \A w \in Workers : Winding(w) => status[w] = "INACTIVE"

\* The workers that do not stand by.
Up == {w \in Workers : status[w] # "STANDBY"}
Uncounting == {w \in Workers : pc[w] = "uncount"}
Counting == {t \in Threads : tpc[t] = "count"}

ActiveCounted ==
  _active_td_size = Cardinality(Up) + Cardinality(Uncounting) - Cardinality(Counting)

\* The destructor: from its start nobody is inside submit, from its notification
\* nobody waits or is about to.
Closing ==
  /\ (dpc = "idle") = ~_exit
  /\ _exit => \A t \in Threads : tpc[t] \in {"idle"} \cup Ending
  /\ dpc = "join" => \A w \in Workers :
       pc[w] # "waiting" /\ (pc[w] \in {"scan", "pop", "again", "cas"} => ~InWait(w))
  /\ dpc # "join" => deleted = {}

\* A worker leaves its loop only for the destructor, which deletes those that stand
\* by.
Ended == \A w \in Workers : pc[w] = "end" => _exit
Left == \A w \in deleted : status[w] = "STANDBY"

Empty(w) == _read_idx[w] = _write_idx[w]

Ring(w) == _read_idx[w] <= _write_idx[w] /\ _write_idx[w] <= _read_idx[w] + _queue_size

\* The slot a thread is about to publish is free, and holds its task.
Filled(t) ==
  tpc[t] \in {"publish", "published_late"} =>
    LET w == my[t].td IN
    /\ _write_idx[w] < _read_idx[w] + _queue_size
    /\ _buffer[w][_write_idx[w] % _queue_size] = my[t].task

\* A copy made by pop is right as long as the index has not moved.
Copied(w) ==
  pc[w] = "cas" =>
    LET q == queue(w) IN
    /\ at[w].read <= _read_idx[q]
    /\ at[w].read = _read_idx[q] =>
         ~Empty(q) /\ at[w].task = _buffer[q][_read_idx[q] % _queue_size]

Queues ==
  /\ \A w \in Workers : Ring(w) /\ Copied(w)
  /\ \A t \in Threads : Filled(t)

PoolInv ==
  /\ TypeInv
  /\ \A t \in Threads : Placed(t)
  /\ \A w \in Workers : Posted(w)
  /\ PairsAlone /\ WaitsAlone /\ Counted /\ Closing /\ Ended
  /\ ~unpaired => Paired /\ ActiveCounted /\ Left /\ Queues

-----------------------------------------------------------------------------
\* An index taken modulo _queue_size is a slot of the ring.
LEMMA SlotInRange == \A i \in Nat : i % _queue_size \in 0..(_queue_size - 1)
  BY SMT, PoolAssumption

\* Two indices less than the size apart have different slots.
LEMMA SlotsApart ==
  ASSUME NEW i \in Nat, NEW j \in Nat, i < j, j < i + _queue_size
  PROVE  i % _queue_size # j % _queue_size
<1> SUFFICES ASSUME i % _queue_size = j % _queue_size PROVE FALSE
  OBVIOUS
<1> DEFINE n == _queue_size
           q == i \div n
           r == j \div n
<1>1. /\ n \in Nat /\ n > 0 /\ q \in Int /\ r \in Int /\ i % n \in Int
      /\ i = n * q + (i % n) /\ j = n * r + (j % n)
  BY SMT, PoolAssumption
<1> HIDE DEF q, r, n
<1>2. j - i = n * (r - q)
  BY SMT, <1>1 DEF n
<1>3. n * (r - q) > 0 /\ n * (r - q) < n
  BY SMT, <1>1, <1>2 DEF n
<1>4. CASE r - q <= 0
  BY SMT, <1>1, <1>3, <1>4
<1>5. CASE r - q >= 1
  BY SMT, <1>1, <1>3, <1>5
<1> QED BY SMT, <1>1, <1>4, <1>5

\* What the constants give: workers are numbered from 0 below _td_capacity.
LEMMA WorkersFacts ==
  /\ _td_capacity \in Nat /\ _queue_size \in Nat /\ _queue_size > 0 /\ MaxTasks \in Nat
  /\ \A w : w \in Workers <=> w \in Nat /\ w < _td_capacity
  /\ None \notin Workers /\ IsFiniteSet(Workers)
<1>1. IsFiniteSet(Workers)
  BY FS_Interval, SMT, PoolAssumption DEF Workers
<1> QED BY SMT, <1>1, PoolAssumption DEF Workers, None

\* The indices of a queue of n slots: r is read and x is written next.
LEMMA RingSteps ==
  ASSUME NEW n \in Nat, NEW r \in Nat, NEW x \in Nat, r <= x, x <= r + n
  PROVE  /\ x < r + n => r <= x + 1 /\ x + 1 <= r + n /\ r # x + 1
         /\ r # x => r < x /\ r + 1 <= x
         /\ x <= (r + 1) + n /\ (x < r + n => x < (r + 1) + n)
         /\ \A a \in Nat : a <= r => a <= r + 1 /\ a # r + 1
         /\ ~(x >= r + n) => x < r + n
BY SMT

-----------------------------------------------------------------------------
(* Types.                                                                  *)

\* A function updated with a value of its range keeps its type.
LEMMA Update ==
  ASSUME NEW S, NEW T, NEW f \in [S -> T], NEW x, x \in S => f[x] \in T, NEW e, x \in S => e \in T
  PROVE  [f EXCEPT ![x] = e] \in [S -> T]
OBVIOUS

\* A function to naturals keeps its type when one entry is incremented.
LEMMA Bump ==
  ASSUME NEW S, NEW f \in [S -> Nat], NEW x
  PROVE  [f EXCEPT ![x] = @ + 1] \in [S -> Nat]
<1>1. \A y \in S : f[y] \in Nat /\ f[y] + 1 \in Nat
  BY SMT
<1> QED BY <1>1

\* A thread outside submit has well-typed locals.
LEMMA IdleType == Idle \in MyType
  BY SMT, WorkersFacts DEF Idle, MyType, Statuses

\* A worker at the top of its loop has well-typed locals.
LEMMA StartType == Start \in AtType
  BY SMT, WorkersFacts DEF Start, AtType, Statuses

\* The constructed pool is well typed.
LEMMA InitType == Init => TypeInv
<1> SUFFICES ASSUME Init PROVE TypeInv
  OBVIOUS
<1> USE DEF Init
<1>1. /\ status \in [Workers -> Statuses] /\ _active_td_size \in Int /\ _need_wakeup \in Int
      /\ _buffer \in [Workers -> [0..(_queue_size - 1) -> 0..MaxTasks]]
      /\ _read_idx \in [Workers -> Nat] /\ _write_idx \in [Workers -> Nat]
      /\ submitted \in 0..MaxTasks /\ ran \in [Tasks -> Nat]
  BY SMT, WorkersFacts DEF Statuses
<1>2. /\ _paired_thread \in [Threads -> Workers \cup {None}]
      /\ tpc \in [Threads -> TLabels] /\ my \in [Threads -> MyType]
  BY IdleType DEF TLabels
<1>3. pc \in [Workers -> WLabels] /\ at \in [Workers -> AtType]
  BY StartType DEF WLabels
<1> QED BY <1>1, <1>2, <1>3 DEF TypeInv

\* What a step of a thread leaves alone, and the types of what it does not.
LEMMA ThreadType ==
  ASSUME TypeInv, NEW t \in Threads, thread(t), Placed(t)
  PROVE  TypeInv'
<1>0. /\ tpc \in [Threads -> TLabels] /\ my \in [Threads -> MyType] /\ my[t] \in MyType
      /\ _paired_thread \in [Threads -> Workers \cup {None}] /\ submitted \in 0..MaxTasks
  BY DEF TypeInv
<1>g. \A l \in TLabels : goto(t, l) => tpc' \in [Threads -> TLabels]
  BY <1>0, Update DEF goto
<1>r. \A l \in TLabels : return(t, l) =>
        tpc' \in [Threads -> TLabels] /\ my' \in [Threads -> MyType]
  <2>1. [my EXCEPT ![t] = Idle] \in [Threads -> MyType]
    BY <1>0, Update, IdleType
  <2> QED BY <1>g, <2>1 DEF return
<1> USE DEF pool, mutexes, queues, threads, workers, destructor, history
<1>l. /\ \A l \in {"run", "lock", "push", "scan", "count", "publish", "wakeup", "idle",
                   "published_late", "notify", "exit", "exit_cas", "exit_again", "ended"} : l \in TLabels
  BY DEF TLabels, Inside, Holding, Ending
<1>1. CASE submit(t)
  <2>1. submitted' = submitted + 1 /\ submitted < MaxTasks
    BY <1>1 DEF submit
  <2>2. submitted' \in 0..MaxTasks /\ submitted + 1 \in 0..MaxTasks
    BY SMT, <1>0, <2>1, WorkersFacts
  <2>3. [Idle EXCEPT !.task = submitted + 1, !.td = _paired_thread[t]] \in MyType
    <3>1. _paired_thread[t] \in Workers \cup {None}
      BY <1>0
    <3> QED BY <2>2, <3>1, IdleType DEF MyType
  <2>4. my' \in [Threads -> MyType]
    BY <1>0, <1>1, <2>3, Update DEF submit
  <2>5. tpc' \in [Threads -> TLabels]
    BY <1>g, <1>l, <1>1 DEF submit
  <2> QED BY <1>1, <2>2, <2>4, <2>5 DEF submit, TypeInv
<1>2. CASE getActiveThread_lock(t)
  BY <1>g, <1>l, <1>2 DEF getActiveThread_lock, TypeInv
<1>3. CASE getActiveThread_scan(t)
  <2>0. my[t].i \in Nat /\ (my[t].i < _td_capacity => my[t].i \in Workers)
    BY SMT, <1>0, WorkersFacts DEF MyType
  <2>1. CASE my[t].i = _td_capacity /\ goto(t, "run") /\ UNCHANGED <<status, my>> /\ _td_mtx' = TRUE
    BY <1>g, <1>l, <1>3, <2>1 DEF getActiveThread_scan, TypeInv
  <2>2. CASE my' = [my EXCEPT ![t].i = my[t].i + 1] /\ UNCHANGED <<status, _td_mtx, tpc>>
    <3>1. [my[t] EXCEPT !.i = my[t].i + 1] \in MyType
      BY SMT, <1>0, <2>0 DEF MyType
    <3>2. my' \in [Threads -> MyType]
      BY <1>0, <2>2, <3>1, Update
    <3> QED BY <1>3, <2>2, <3>2 DEF getActiveThread_scan, TypeInv
  <2>3. CASE /\ my[t].i < _td_capacity
             /\ status' = [status EXCEPT ![my[t].i] = "ACTIVE"]
             /\ my' = [my EXCEPT ![t].td = my[t].i] /\ goto(t, "count") /\ UNCHANGED _td_mtx
    <3>1. [my[t] EXCEPT !.td = my[t].i] \in MyType
      BY SMT, <1>0, <2>0, <2>3 DEF MyType
    <3>2. my' \in [Threads -> MyType]
      BY <1>0, <2>3, <3>1, Update
    <3>3. status' \in [Workers -> Statuses]
      BY <2>3, Update DEF TypeInv, Statuses
    <3> QED BY <1>g, <1>l, <1>3, <2>3, <3>2, <3>3 DEF getActiveThread_scan, TypeInv
  <2> QED BY <1>3, <2>1, <2>2, <2>3 DEF getActiveThread_scan
<1>4. CASE getActiveThread_pair(t)
  <2>1. my[t].td \in Workers /\ _active_td_size \in Int
    BY <1>4 DEF getActiveThread_pair, Placed, TypeInv
  <2>2. _paired_thread' \in [Threads -> Workers \cup {None}]
    BY <1>0, <1>4, <2>1, Update DEF getActiveThread_pair
  <2>3. _active_td_size' \in Int
    BY SMT, <1>4, <2>1 DEF getActiveThread_pair
  <2> QED BY <1>g, <1>l, <1>4, <2>2, <2>3 DEF getActiveThread_pair, TypeInv
<1>5. CASE push(t)
  <2>1. _buffer' \in [Workers -> [0..(_queue_size - 1) -> 0..MaxTasks]]
    <3>1. /\ my[t].td \in Workers /\ my[t].task \in 0..MaxTasks
      BY SMT, <1>0, <1>5 DEF push, Placed, MyType
    <3>2. _write_idx[my[t].td] % _queue_size \in 0..(_queue_size - 1)
      BY <3>1, SlotInRange DEF TypeInv
    <3> DEFINE b == [_buffer[my[t].td] EXCEPT ![_write_idx[my[t].td] % _queue_size] = my[t].task]
    <3>3. b \in [0..(_queue_size - 1) -> 0..MaxTasks]
      <4>1. _buffer[my[t].td] \in [0..(_queue_size - 1) -> 0..MaxTasks]
        BY <3>1 DEF TypeInv
      <4> QED BY <3>1, <3>2, <4>1, Update
    <3>4. [_buffer EXCEPT ![my[t].td] = b] \in [Workers -> [0..(_queue_size - 1) -> 0..MaxTasks]]
      BY <3>1, <3>3, Update DEF TypeInv
    <3> QED BY <1>5, <3>4 DEF push, TypeInv
  <2> QED BY <1>g, <1>l, <1>5, <2>1 DEF push, TypeInv
<1>6. CASE push_publish(t)
  <2>1. my[t].td \in Workers /\ _write_idx \in [Workers -> Nat]
    BY <1>6 DEF push_publish, Placed, TypeInv
  <2>2. _write_idx' \in [Workers -> Nat]
    BY SMT, <1>6, <2>1 DEF push_publish
  <2> QED BY <1>r, <1>l, <1>6, <2>2 DEF push_publish, TypeInv
<1>7. CASE push_delayed(t)
  BY <1>g, <1>l, <1>7 DEF push_delayed, TypeInv
<1>8. CASE submit_run(t)
  <2>1. ran' \in [Tasks -> Nat]
    <3>1. ran \in [Tasks -> Nat] /\ ran' = [ran EXCEPT ![my[t].task] = @ + 1]
      BY <1>8 DEF submit_run, TypeInv
    <3> QED BY <3>1, Bump
  <2> QED BY <1>r, <1>l, <1>8, <2>1 DEF submit_run, TypeInv
<1>9. CASE submit_load(t)
  BY <1>g, <1>l, <1>9 DEF submit_load, TypeInv
<1>10. CASE submit_notify(t)
  <2>1. pc' \in [Workers -> WLabels]
    BY <1>10 DEF submit_notify, notify_all, TypeInv, WLabels
  <2> QED BY <1>g, <1>l, <1>10, <2>1 DEF submit_notify, TypeInv
<1>11. CASE thread_exit(t)
  <2>1. [Idle EXCEPT !.td = _paired_thread[t]] \in MyType
    <3>1. _paired_thread[t] \in Workers \cup {None}
      BY <1>0
    <3> QED BY <3>1, IdleType DEF MyType
  <2>2. my' \in [Threads -> MyType]
    BY <1>0, <1>11, <2>1, Update DEF thread_exit
  <2>3. _paired_thread' \in [Threads -> Workers \cup {None}]
    BY <1>0, <1>11, Update DEF thread_exit
  <2> QED BY <1>g, <1>l, <1>11, <2>2, <2>3 DEF thread_exit, TypeInv
<1>12. CASE deleteThreadLocalPairThread(t)
  <2>1. status[my[t].td] \in Statuses
    BY <1>12 DEF deleteThreadLocalPairThread, Placed, TypeInv
  <2>2. [my[t] EXCEPT !.status = status[my[t].td]] \in MyType
    BY SMT, <1>0, <2>1 DEF MyType
  <2>3. my' \in [Threads -> MyType]
    BY <1>0, <1>12, <2>2, Update DEF deleteThreadLocalPairThread
  <2> QED BY <1>g, <1>l, <1>12, <2>3 DEF deleteThreadLocalPairThread, TypeInv
<1>13. CASE deleteThreadLocalPairThread_cas(t)
  <2>1. CASE /\ status' = [status EXCEPT ![my[t].td] = "INACTIVE"]
             /\ goto(t, "exit_again") /\ UNCHANGED my
             /\ unpaired' = (unpaired \/ \E u \in Threads \ {t} : Serves(my[t].td, u))
    <3>1. status' \in [Workers -> Statuses]
      BY <2>1, Update DEF TypeInv, Statuses
    <3>2. unpaired' \in BOOLEAN
      BY <2>1
    <3> QED BY <1>g, <1>l, <1>13, <2>1, <3>1, <3>2 DEF deleteThreadLocalPairThread_cas, TypeInv
  <2>2. CASE return(t, "ended") /\ UNCHANGED <<status, unpaired>>
    BY <1>r, <1>l, <1>13, <2>2 DEF deleteThreadLocalPairThread_cas, TypeInv
  <2> QED BY <1>13, <2>1, <2>2 DEF deleteThreadLocalPairThread_cas
<1> QED BY <1>1, <1>2, <1>3, <1>4, <1>5, <1>6, <1>7, <1>8, <1>9, <1>10, <1>11, <1>12,
        <1>13 DEF thread

\* The fields of a worker's record, and what pop and the loops leave of it.
LEMMA AtFields ==
  ASSUME TypeInv, NEW w \in Workers
  PROVE  /\ at[w] \in AtType /\ rest(w) \in AtType
         /\ at[w].status \in Statuses /\ at[w].active_td \in Int /\ at[w].i \in Nat
         /\ at[w].by \in {"tryConsume", "tryStealOne", "tryGetOne", "tryGetOwn"}
         /\ at[w].read \in Nat /\ at[w].task \in 0..MaxTasks
         /\ rest(w).status = at[w].status /\ rest(w).by = "tryConsume"
         /\ rest(w).i = 0 /\ rest(w).task \in 0..MaxTasks
<1>1. at[w] \in AtType
  BY DEF TypeInv
<1>2. /\ at[w].status \in Statuses /\ at[w].active_td \in Int /\ at[w].i \in Nat
      /\ at[w].by \in {"tryConsume", "tryStealOne", "tryGetOne", "tryGetOwn"}
      /\ at[w].read \in Nat /\ at[w].task \in 0..MaxTasks
  BY SMT, <1>1 DEF AtType
<1>3. rest(w) \in AtType /\ rest(w).task \in 0..MaxTasks
  <2>1. (IF InWait(w) THEN at[w].task ELSE 0) \in 0..MaxTasks
    BY SMT, <1>2, WorkersFacts
  <2>2. rest(w) \in AtType
    BY <1>2, <2>1, StartType DEF rest, AtType
  <2> QED BY <2>2 DEF AtType
<1>4. rest(w).status = at[w].status /\ rest(w).by = "tryConsume" /\ rest(w).i = 0
  BY DEF rest, Start
<1> QED BY <1>1, <1>2, <1>3, <1>4

\* A step of a worker's loop keeps the types.
LEMMA WorkerType ==
  ASSUME TypeInv, NEW w \in Workers, worker(w), Posted(w)
  PROVE  TypeInv'
<1>0. pc \in [Workers -> WLabels] /\ at \in [Workers -> AtType] /\ at[w] \in AtType
  BY DEF TypeInv
<1>j. \A l \in WLabels : jump(w, l) => pc' \in [Workers -> WLabels]
  BY <1>0, Update DEF jump
<1>s. \A a \in AtType : set(w, a) => at' \in [Workers -> AtType]
  BY <1>0, Update DEF set
<1>l. \A l \in {"top", "pop", "again", "cas", "run", "standby", "uncount", "steal", "scan",
                "sleep", "predicate", "waiting", "woken", "got", "end"} : l \in WLabels
  BY DEF WLabels
<1> USE DEF pool, mutexes, queues, threads, workers, destructor, history
<1>1. CASE loop_top(w)
  <2>1. [Start EXCEPT !.status = status[w]] \in AtType
    <3>1. status[w] \in Statuses
      BY DEF TypeInv
    <3> QED BY SMT, <3>1, StartType DEF AtType
  <2> QED BY <1>j, <1>s, <1>l, <1>1, <2>1 DEF loop_top, TypeInv
<1>2. CASE pop_copy(w)
  <2>1. CASE nothing(w)
    <3>1. pc' \in [Workers -> WLabels] /\ _td_wakeup_mtx' \in BOOLEAN
      BY <1>j, <1>l, <2>1 DEF nothing, TypeInv
    <3>2. [at[w] EXCEPT !.i = @ + 1, !.read = 0, !.task = rest(w).task] \in AtType
      <4>1. at[w].i + 1 \in Nat /\ 0 \in Nat
        BY SMT, AtFields
      <4> QED BY <4>1, AtFields DEF AtType
    <3>3. at' \in [Workers -> AtType]
      BY <1>s, <2>1, <3>2, AtFields DEF nothing
    <3> QED BY <1>2, <3>1, <3>3 DEF pop_copy, TypeInv
  <2>2. CASE /\ set(w, [at[w] EXCEPT !.read = _read_idx[queue(w)],
                          !.task = _buffer[queue(w)][_read_idx[queue(w)] % _queue_size]])
             /\ jump(w, "cas") /\ UNCHANGED _td_wakeup_mtx
    <3>1. queue(w) \in Workers
      BY <1>2 DEF pop_copy, Posted
    <3>2. _read_idx[queue(w)] \in Nat
      BY <3>1 DEF TypeInv
    <3>3. _buffer[queue(w)][_read_idx[queue(w)] % _queue_size] \in 0..MaxTasks
      <4>1. _buffer[queue(w)] \in [0..(_queue_size - 1) -> 0..MaxTasks]
        BY <3>1 DEF TypeInv
      <4> QED BY <3>2, <4>1, SlotInRange
    <3>4. [at[w] EXCEPT !.read = _read_idx[queue(w)],
             !.task = _buffer[queue(w)][_read_idx[queue(w)] % _queue_size]] \in AtType
      BY <1>0, <3>2, <3>3 DEF AtType
    <3> QED BY <1>j, <1>s, <1>l, <1>2, <2>2, <3>4 DEF pop_copy, TypeInv
  <2> QED BY <1>2, <2>1, <2>2 DEF pop_copy
<1>3. CASE pop_cas(w)
  <2>1. [at[w] EXCEPT !.read = 0] \in AtType
    BY SMT, AtFields DEF AtType
  <2>2. at' \in [Workers -> AtType]
    BY <1>s, <1>3, <2>1 DEF pop_cas
  <2>3. pc' \in [Workers -> WLabels]
    BY <1>j, <1>l, <1>3 DEF pop_cas
  <2>4. _read_idx' \in [Workers -> Nat]
    <3>1. _read_idx \in [Workers -> Nat] /\ queue(w) \in Workers
      BY <1>3 DEF TypeInv, pop_cas, Posted
    <3> QED BY SMT, <1>3, <3>1 DEF pop_cas
  <2> QED BY <1>3, <2>2, <2>3, <2>4 DEF pop_cas, TypeInv
<1>4. CASE run(w)
  <2>1. ran' \in [Tasks -> Nat]
    <3>1. ran \in [Tasks -> Nat] /\ ran' = [ran EXCEPT ![at[w].task] = @ + 1]
      BY <1>4 DEF run, TypeInv
    <3> QED BY <3>1, Bump
  <2> QED BY <1>j, <1>s, <1>l, <1>4, <2>1, AtFields, StartType DEF run, TypeInv
<1>5. CASE standby(w)
  <2>1. status' \in [Workers -> Statuses]
    BY <1>5, Update DEF standby, TypeInv, Statuses
  <2> QED BY <1>j, <1>l, <1>5, <2>1 DEF standby, TypeInv
<1>6. CASE uncount(w)
  <2>1. _active_td_size' \in Int
    BY SMT, <1>6 DEF uncount, TypeInv
  <2> QED BY <1>j, <1>l, <1>6, <2>1 DEF uncount, TypeInv
<1>7. CASE tryStealOne(w)
  <2>0. (IF _exit THEN 0 ELSE _active_td_size) \in Int
    BY SMT DEF TypeInv
  <2>1. [at[w] EXCEPT !.by = "tryStealOne",
                      !.active_td = IF _exit THEN 0 ELSE _active_td_size] \in AtType
    BY <1>0, <2>0 DEF AtType
  <2> QED BY <1>j, <1>s, <1>l, <1>7, <2>1 DEF tryStealOne, TypeInv
<1>8. CASE scan(w)
  <2>1. [at[w] EXCEPT !.i = at[w].i + 1] \in AtType
    BY SMT, AtFields DEF AtType
  <2>2. at' \in [Workers -> AtType]
    BY <1>0, <1>s, <1>8, <2>1, AtFields DEF scan
  <2>3. pc' \in [Workers -> WLabels] /\ _td_wakeup_mtx' \in BOOLEAN
    BY <1>j, <1>l, <1>8 DEF scan, TypeInv
  <2> QED BY <1>8, <2>2, <2>3 DEF scan, TypeInv
<1>9. CASE sleep(w)
  <2>1. _need_wakeup' \in Int
    BY SMT, <1>9 DEF sleep, TypeInv
  <2> QED BY <1>j, <1>l, <1>9, <2>1 DEF sleep, TypeInv
<1>10. CASE predicate(w)
  <2>0. _active_td_size \in Int
    BY DEF TypeInv
  <2>1. /\ [at[w] EXCEPT !.by = "tryGetOne", !.active_td = _active_td_size] \in AtType
        /\ [at[w] EXCEPT !.by = "tryGetOwn"] \in AtType
    BY <1>0, <2>0 DEF AtType
  <2>2. at' \in [Workers -> AtType]
    BY <1>0, <1>s, <1>10, <2>1 DEF predicate
  <2>3. pc' \in [Workers -> WLabels]
    BY <1>j, <1>l, <1>10 DEF predicate
  <2> QED BY <1>10, <2>2, <2>3 DEF predicate, TypeInv
<1>11. CASE woken(w)
  BY <1>j, <1>l, <1>11 DEF woken, TypeInv
<1>12. CASE got(w)
  <2>1. [Start EXCEPT !.by = "tryGetOne", !.task = at[w].task] \in AtType
    BY AtFields, StartType DEF AtType
  <2>2. at' \in [Workers -> AtType]
    BY <1>s, <1>12, <2>1, StartType DEF got
  <2>3. pc' \in [Workers -> WLabels]
    BY <1>j, <1>l, <1>12 DEF got
  <2>4. _need_wakeup' \in Int
    BY SMT, <1>12 DEF got, TypeInv
  <2> QED BY <1>12, <2>2, <2>3, <2>4 DEF got, TypeInv
<1> QED BY <1>1, <1>2, <1>3, <1>4, <1>5, <1>6, <1>7, <1>8, <1>9, <1>10, <1>11, <1>12
        DEF worker

\* A step of ~ThreadPool keeps the types.
LEMMA DestructorType ==
  ASSUME TypeInv, destructor_step
  PROVE  TypeInv'
<1> USE DEF pool, mutexes, queues, threads, workers, destructor, history
<1>1. CASE destruct
  BY <1>1 DEF destruct, TypeInv
<1>2. CASE destruct_notify
  <2>1. pc' \in [Workers -> WLabels]
    BY <1>2 DEF destruct_notify, notify_all, TypeInv, WLabels
  <2> QED BY <1>2, <2>1 DEF destruct_notify, TypeInv
<1>3. CASE destruct_delete
  <2>1. joined \in Workers /\ joined + 1 \in Nat
    BY SMT, <1>3, PoolAssumption DEF destruct_delete, TypeInv, Workers
  <2> QED BY <1>3, <2>1 DEF destruct_delete, TypeInv
<1> QED BY <1>1, <1>2, <1>3 DEF destructor_step

-----------------------------------------------------------------------------
(* What a step leaves alone.                                               *)

\* goto moves the program counter of one thread and of no other.
LEMMA Goto ==
  ASSUME TypeInv, NEW t \in Threads, NEW l, goto(t, l)
  PROVE  tpc'[t] = l /\ \A u \in Threads \ {t} : tpc'[u] = tpc[u]
<1>1. tpc \in [Threads -> TLabels]
  BY DEF TypeInv
<1> QED BY <1>1 DEF goto

\* return ends the call of one thread and touches no other.
LEMMA Return ==
  ASSUME TypeInv, NEW t \in Threads, NEW l, return(t, l)
  PROVE  /\ tpc'[t] = l /\ my'[t] = Idle
         /\ \A u \in Threads \ {t} : tpc'[u] = tpc[u] /\ my'[u] = my[u]
<1>1. my \in [Threads -> MyType]
  BY DEF TypeInv
<1> QED BY <1>1, Goto DEF return

\* jump moves the program counter of one worker and of no other.
LEMMA Jump ==
  ASSUME TypeInv, NEW w \in Workers, NEW l, jump(w, l)
  PROVE  pc'[w] = l /\ \A v \in Workers \ {w} : pc'[v] = pc[v]
<1>1. pc \in [Workers -> WLabels]
  BY DEF TypeInv
<1> QED BY <1>1 DEF jump

\* set changes the locals of one worker and of no other.
LEMMA Set ==
  ASSUME TypeInv, NEW w \in Workers, NEW a, set(w, a)
  PROVE  at'[w] = a /\ \A v \in Workers \ {w} : at'[v] = at[v]
<1>1. at \in [Workers -> AtType]
  BY DEF TypeInv
<1> QED BY <1>1 DEF set

SameThread(u) == tpc'[u] = tpc[u] /\ my'[u] = my[u] /\ _paired_thread'[u] = _paired_thread[u]
SameWorker(v) == pc'[v] = pc[v] /\ at'[v] = at[v]

\* A step of a submitting thread changes no other thread, and workers only by notify_all.
LEMMA ThreadFrame ==
  ASSUME TypeInv, NEW t \in Threads, thread(t)
  PROVE  /\ \A u \in Threads \ {t} : SameThread(u)
         /\ UNCHANGED <<at, dpc, deleted, _exit, _need_wakeup, _td_wakeup_mtx, _read_idx>>
         /\ pc' = pc \/ (submit_notify(t) /\ notify_all)
<1>0. my \in [Threads -> MyType] /\ _paired_thread \in [Threads -> Workers \cup {None}]
  BY DEF TypeInv
<1> USE DEF pool, mutexes, queues, threads, workers, destructor, history, SameThread
<1>1. CASE submit(t)
  BY <1>0, <1>1, Goto DEF submit
<1>2. CASE getActiveThread_lock(t)
  BY <1>2, Goto DEF getActiveThread_lock
<1>3. CASE getActiveThread_scan(t)
  BY <1>0, <1>3, Goto DEF getActiveThread_scan
<1>4. CASE getActiveThread_pair(t)
  BY <1>0, <1>4, Goto DEF getActiveThread_pair
<1>5. CASE push(t)
  BY <1>5, Goto DEF push
<1>6. CASE push_publish(t)
  BY <1>6, Return DEF push_publish
<1>7. CASE push_delayed(t)
  BY <1>7, Goto DEF push_delayed
<1>8. CASE submit_run(t)
  BY <1>8, Return DEF submit_run
<1>9. CASE submit_load(t)
  BY <1>9, Goto DEF submit_load
<1>10. CASE submit_notify(t)
  BY <1>10, Goto DEF submit_notify
<1>11. CASE thread_exit(t)
  BY <1>0, <1>11, Goto DEF thread_exit
<1>12. CASE deleteThreadLocalPairThread(t)
  BY <1>0, <1>12, Goto DEF deleteThreadLocalPairThread
<1>13. CASE deleteThreadLocalPairThread_cas(t)
  <2>1. CASE return(t, "ended")
    BY <1>13, <2>1, Return DEF deleteThreadLocalPairThread_cas
  <2>2. CASE goto(t, "exit_again") /\ UNCHANGED my
    BY <1>13, <2>2, Goto DEF deleteThreadLocalPairThread_cas
  <2> QED BY <1>13, <2>1, <2>2 DEF deleteThreadLocalPairThread_cas
<1> QED BY <1>1, <1>2, <1>3, <1>4, <1>5, <1>6, <1>7, <1>8, <1>9, <1>10, <1>11, <1>12,
        <1>13 DEF thread

\* A step of a worker's loop changes no other worker and no thread.
LEMMA WorkerFrame ==
  ASSUME TypeInv, NEW w \in Workers, worker(w)
  PROVE  /\ \A v \in Workers \ {w} : SameWorker(v)
         /\ UNCHANGED <<_paired_thread, tpc, my, dpc, deleted, _exit, _td_mtx, submitted,
                        delayed, unpaired, _buffer, _write_idx>>
<1> USE DEF pool, mutexes, queues, threads, workers, destructor, history, SameWorker
<1>1. CASE loop_top(w)
  BY <1>1, Jump, Set DEF loop_top
<1>2. CASE pop_copy(w)
  BY <1>2, Jump, Set DEF pop_copy, nothing
<1>3. CASE pop_cas(w)
  BY <1>3, Jump, Set DEF pop_cas
<1>4. CASE run(w)
  BY <1>4, Jump, Set DEF run
<1>5. CASE standby(w)
  BY <1>5, Jump DEF standby
<1>6. CASE uncount(w)
  BY <1>6, Jump DEF uncount
<1>7. CASE tryStealOne(w)
  BY <1>7, Jump, Set DEF tryStealOne
<1>8. CASE scan(w)
  BY <1>8, Jump, Set DEF scan
<1>9. CASE sleep(w)
  BY <1>9, Jump DEF sleep
<1>10. CASE predicate(w)
  BY <1>10, Jump, Set DEF predicate
<1>11. CASE woken(w)
  BY <1>11, Jump DEF woken
<1>12. CASE got(w)
  BY <1>12, Jump, Set DEF got
<1> QED BY <1>1, <1>2, <1>3, <1>4, <1>5, <1>6, <1>7, <1>8, <1>9, <1>10, <1>11, <1>12
        DEF worker

\* What ~ThreadPool leaves alone.
LEMMA DestructorFrame ==
  ASSUME destructor_step
  PROVE  /\ UNCHANGED <<status, _active_td_size, _need_wakeup, _td_mtx, _td_wakeup_mtx, _buffer,
                        _read_idx, _write_idx, _paired_thread, tpc, my, at, submitted, ran,
                        delayed, unpaired>>
         /\ pc' = pc \/ (destruct_notify /\ notify_all)
  BY DEF destructor_step, destruct, destruct_notify, destruct_delete, pool, mutexes, queues,
     threads, workers, history

-----------------------------------------------------------------------------
(* Where a step of a thread leads.                                         *)

Keeps(t) == my'[t] = my[t] /\ _paired_thread'[t] = _paired_thread[t]

\* What submit does to the state, in the terms the invariants use.
LEMMA submitMoves ==
  ASSUME TypeInv, NEW t \in Threads, submit(t)
  PROVE  /\ tpc[t] = "idle" /\ _paired_thread'[t] = _paired_thread[t]
         /\ my'[t].td = _paired_thread[t] /\ my'[t].i = 0 /\ my'[t].task = submitted + 1
         /\ \/ tpc'[t] = "run" \/ (tpc'[t] = "lock" /\ _paired_thread[t] = None)
            \/ (tpc'[t] = "push" /\ _paired_thread[t] \in Workers)
         /\ _td_mtx' = _td_mtx
<1>0. my \in [Threads -> MyType] /\ _paired_thread \in [Threads -> Workers \cup {None}]
  BY DEF TypeInv
<1>1. my'[t] = [Idle EXCEPT !.task = submitted + 1, !.td = _paired_thread[t]]
  BY <1>0 DEF submit
<1>2. my'[t].td = _paired_thread[t] /\ my'[t].i = 0 /\ my'[t].task = submitted + 1
  BY SMT, <1>1 DEF Idle
<1>3. \/ tpc'[t] = "run" \/ (tpc'[t] = "lock" /\ _paired_thread[t] = None)
      \/ (tpc'[t] = "push" /\ _paired_thread[t] \in Workers)
  BY <1>0, Goto DEF submit
<1> QED BY <1>2, <1>3 DEF submit, mutexes

\* What getActiveThread_lock does to the state, in the terms the invariants use.
LEMMA lockMoves ==
  ASSUME TypeInv, NEW t \in Threads, getActiveThread_lock(t)
  PROVE  tpc[t] = "lock" /\ tpc'[t] = "scan" /\ Keeps(t) /\ _td_mtx /\ ~_td_mtx'
  BY Goto DEF getActiveThread_lock, Keeps

\* What getActiveThread_scan does to the state, in the terms the invariants use.
LEMMA scanMoves ==
  ASSUME TypeInv, NEW t \in Threads, getActiveThread_scan(t)
  PROVE  /\ tpc[t] = "scan" /\ my'[t].task = my[t].task
         /\ _paired_thread'[t] = _paired_thread[t]
         /\ \/ tpc'[t] = "run" /\ _td_mtx' /\ status' = status /\ my'[t] = my[t]
            \/ /\ tpc'[t] = "scan" /\ _td_mtx' = _td_mtx /\ status' = status
               /\ my[t].i < _td_capacity /\ my'[t].i = my[t].i + 1 /\ my'[t].td = my[t].td
            \/ /\ tpc'[t] = "count" /\ _td_mtx' = _td_mtx
               /\ my[t].i \in Workers /\ my'[t].td = my[t].i
               /\ status[my[t].i] = "STANDBY"
               /\ status' = [status EXCEPT ![my[t].i] = "ACTIVE"]
<1>0. my \in [Threads -> MyType] /\ my[t] \in MyType
  BY DEF TypeInv
<1>1. my[t].i \in Nat
  BY <1>0 DEF MyType
<1> USE DEF getActiveThread_scan
<1>2. CASE my[t].i = _td_capacity /\ _td_mtx' = TRUE /\ goto(t, "run") /\ UNCHANGED <<status, my>>
  BY <1>2, Goto
<1>3. CASE my[t].i < _td_capacity /\ my' = [my EXCEPT ![t].i = my[t].i + 1]
           /\ UNCHANGED <<status, _td_mtx, tpc>>
  <2>1. my'[t] = [my[t] EXCEPT !.i = my[t].i + 1]
    BY <1>0, <1>3
  <2>2. my'[t].i = my[t].i + 1 /\ my'[t].task = my[t].task /\ my'[t].td = my[t].td
    BY <1>0, <2>1 DEF MyType
  <2> QED BY <1>3, <2>2
<1>4. CASE my[t].i < _td_capacity /\ status[my[t].i] = "STANDBY"
           /\ status' = [status EXCEPT ![my[t].i] = "ACTIVE"]
           /\ my' = [my EXCEPT ![t].td = my[t].i] /\ goto(t, "count") /\ UNCHANGED _td_mtx
  <2>1. my'[t] = [my[t] EXCEPT !.td = my[t].i]
    BY <1>0, <1>4
  <2>2. my'[t].td = my[t].i /\ my'[t].task = my[t].task
    BY <1>0, <2>1 DEF MyType
  <2>3. my[t].i \in Workers
    BY <1>1, <1>4, WorkersFacts
  <2> QED BY <1>4, <2>2, <2>3, Goto
<1> QED BY <1>2, <1>3, <1>4

\* What getActiveThread_pair does to the state, in the terms the invariants use.
LEMMA pairMoves ==
  ASSUME TypeInv, NEW t \in Threads, getActiveThread_pair(t)
  PROVE  /\ tpc[t] = "count" /\ tpc'[t] = "push" /\ my'[t] = my[t]
         /\ _paired_thread'[t] = my[t].td /\ _td_mtx'
<1>0. _paired_thread \in [Threads -> Workers \cup {None}]
  BY DEF TypeInv
<1> QED BY <1>0, Goto DEF getActiveThread_pair

\* What push does to the state, in the terms the invariants use.
LEMMA pushMoves ==
  ASSUME TypeInv, NEW t \in Threads, push(t)
  PROVE  /\ tpc[t] = "push" /\ Keeps(t)
         /\ \/ tpc'[t] = "run" /\ UNCHANGED _buffer
            \/ /\ tpc'[t] = "publish" /\ ~full(my[t].td)
               /\ _buffer' = [_buffer EXCEPT
                    ![my[t].td][_write_idx[my[t].td] % _queue_size] = my[t].task]
         /\ _td_mtx' = _td_mtx
  BY Goto DEF push, Keeps, mutexes

\* What push_publish does to the state, in the terms the invariants use.
LEMMA publishMoves ==
  ASSUME TypeInv, NEW t \in Threads, push_publish(t)
  PROVE  /\ tpc[t] \in {"publish", "published_late"} /\ my'[t] = Idle
         /\ tpc'[t] = (IF tpc[t] = "publish" THEN "wakeup" ELSE "idle")
         /\ _paired_thread'[t] = _paired_thread[t]
         /\ _td_mtx' = _td_mtx
  BY Return DEF push_publish, mutexes

\* What push_delayed does to the state, in the terms the invariants use.
LEMMA delayedMoves ==
  ASSUME TypeInv, NEW t \in Threads, push_delayed(t)
  PROVE  /\ tpc[t] = "publish" /\ tpc'[t] = "published_late" /\ Keeps(t) /\ delayed'
         /\ _td_mtx' = _td_mtx
  BY Goto DEF push_delayed, Keeps, mutexes

\* What submit_run does to the state, in the terms the invariants use.
LEMMA runMoves ==
  ASSUME TypeInv, NEW t \in Threads, submit_run(t)
  PROVE  /\ tpc[t] = "run" /\ tpc'[t] = "wakeup" /\ my'[t] = Idle
         /\ _paired_thread'[t] = _paired_thread[t]
         /\ _td_mtx' = _td_mtx
  BY Return DEF submit_run, mutexes

\* What submit_load does to the state, in the terms the invariants use.
LEMMA loadMoves ==
  ASSUME TypeInv, NEW t \in Threads, submit_load(t)
  PROVE  /\ tpc[t] = "wakeup" /\ Keeps(t)
         /\ tpc'[t] = (IF _need_wakeup > 0 THEN "notify" ELSE "idle")
         /\ _td_mtx' = _td_mtx
  BY Goto DEF submit_load, Keeps, mutexes

\* What submit_notify does to the state, in the terms the invariants use.
LEMMA notifyMoves ==
  ASSUME TypeInv, NEW t \in Threads, submit_notify(t)
  PROVE  /\ tpc[t] = "notify" /\ tpc'[t] = "idle" /\ Keeps(t) /\ _td_wakeup_mtx /\ notify_all
         /\ _td_mtx' = _td_mtx
  BY Goto DEF submit_notify, Keeps, mutexes

\* What thread_exit does to the state, in the terms the invariants use.
LEMMA exitMoves ==
  ASSUME TypeInv, NEW t \in Threads, thread_exit(t)
  PROVE  /\ tpc[t] = "idle" /\ tpc'[t] = "exit"
         /\ _paired_thread[t] \in Workers /\ _paired_thread'[t] = None
         /\ my'[t].td = _paired_thread[t]
         /\ _td_mtx' = _td_mtx
<1>0. my \in [Threads -> MyType] /\ _paired_thread \in [Threads -> Workers \cup {None}]
  BY DEF TypeInv
<1>1. my'[t] = [Idle EXCEPT !.td = _paired_thread[t]] /\ _paired_thread'[t] = None
  BY <1>0 DEF thread_exit
<1>2. my'[t].td = _paired_thread[t]
  BY SMT, <1>1 DEF Idle
<1>3. _paired_thread[t] \in Workers
  BY <1>0 DEF thread_exit
<1> QED BY <1>1, <1>2, <1>3, Goto DEF thread_exit, mutexes

\* What deleteThreadLocalPairThread does to the state, in the terms the invariants use.
LEMMA deleteMoves ==
  ASSUME TypeInv, NEW t \in Threads, deleteThreadLocalPairThread(t)
  PROVE  /\ tpc[t] = "exit" /\ tpc'[t] = "exit_cas" /\ my'[t].td = my[t].td
         /\ my'[t].status = status[my[t].td] /\ _paired_thread'[t] = _paired_thread[t]
         /\ _td_mtx' = _td_mtx
<1>0. my \in [Threads -> MyType] /\ my[t] \in MyType
  BY DEF TypeInv
<1>1. my'[t] = [my[t] EXCEPT !.status = status[my[t].td]]
  BY <1>0 DEF deleteThreadLocalPairThread
<1>2. my'[t].td = my[t].td /\ my'[t].status = status[my[t].td]
  BY <1>0, <1>1 DEF MyType
<1> QED BY <1>2, Goto DEF deleteThreadLocalPairThread, mutexes

\* What deleteThreadLocalPairThread_cas does to the state, in the terms the invariants use.
LEMMA casMoves ==
  ASSUME TypeInv, NEW t \in Threads, deleteThreadLocalPairThread_cas(t)
  PROVE  /\ tpc[t] \in {"exit_cas", "exit_again"} /\ _paired_thread'[t] = _paired_thread[t]
         /\ \/ /\ tpc'[t] = "exit_again" /\ my'[t] = my[t]
               /\ status[my[t].td] = my[t].status
               /\ status' = [status EXCEPT ![my[t].td] = "INACTIVE"]
            \/ tpc'[t] = "ended" /\ UNCHANGED <<status, unpaired>>
         /\ _td_mtx' = _td_mtx
<1> USE DEF deleteThreadLocalPairThread_cas, mutexes
<1>1. CASE return(t, "ended") /\ UNCHANGED <<status, unpaired>>
  BY <1>1, Return
<1>2. CASE /\ status[my[t].td] = my[t].status /\ status' = [status EXCEPT ![my[t].td] = "INACTIVE"]
           /\ goto(t, "exit_again") /\ UNCHANGED my
  BY <1>2, Goto
<1> QED BY <1>1, <1>2

\* A step of a submitting thread keeps what each thread's place in submit implies.
LEMMA ThreadPlaced ==
  ASSUME TypeInv, NEW t \in Threads, thread(t), \A u \in Threads : Placed(u)
  PROVE  \A u \in Threads : Placed(u)'
<1>0. /\ Placed(t) /\ my[t].i \in Nat /\ None \notin Workers /\ _td_capacity \in Nat
  BY WorkersFacts DEF TypeInv, MyType
<1>d. delayed => delayed'
  BY DEF thread, submit, getActiveThread_lock, getActiveThread_scan, getActiveThread_pair, push,
     push_publish, push_delayed, submit_run, submit_load, submit_notify, thread_exit,
     deleteThreadLocalPairThread, deleteThreadLocalPairThread_cas, history
<1>u. ASSUME NEW u \in Threads \ {t} PROVE Placed(u)'
  BY <1>d, ThreadFrame DEF SameThread, Placed
<1> SUFFICES Placed(t)'
  BY <1>u
<1> USE <1>0, <1>d DEF Placed, Ending, Keeps
<1>1. CASE submit(t)
  BY SMT, <1>1, submitMoves
<1>2. CASE getActiveThread_lock(t)
  BY SMT, <1>2, lockMoves
<1>3. CASE getActiveThread_scan(t)
  BY SMTT(30), <1>3, scanMoves
<1>4. CASE getActiveThread_pair(t)
  BY SMTT(30), <1>4, pairMoves
<1>5. CASE push(t)
  <2>1. tpc[t] = "push" /\ Keeps(t) /\ tpc'[t] \in {"run", "publish"}
    BY <1>5, pushMoves
  <2> QED BY SMT, <2>1
<1>6. CASE push_publish(t)
  BY SMT, <1>6, publishMoves
<1>7. CASE push_delayed(t)
  BY SMT, <1>7, delayedMoves
<1>8. CASE submit_run(t)
  BY SMT, <1>8, runMoves
<1>9. CASE submit_load(t)
  BY SMTT(30), <1>9, loadMoves
<1>10. CASE submit_notify(t)
  BY SMT, <1>10, notifyMoves
<1>11. CASE thread_exit(t)
  BY SMTT(30), <1>11, exitMoves
<1>12. CASE deleteThreadLocalPairThread(t)
  BY SMTT(30), <1>12, deleteMoves
<1>13. CASE deleteThreadLocalPairThread_cas(t)
  BY SMT, <1>13, casMoves
<1> QED BY <1>1, <1>2, <1>3, <1>4, <1>5, <1>6, <1>7, <1>8, <1>9, <1>10, <1>11, <1>12,
        <1>13 DEF thread

-----------------------------------------------------------------------------
(* Where a step of a worker leads.                                         *)

\* The local variables that tell which queue is popped, and for what.
SameTurn(w) ==
  /\ at'[w].by = at[w].by /\ at'[w].i = at[w].i
  /\ at'[w].status = at[w].status /\ at'[w].active_td = at[w].active_td

\* A worker in the same turn of its scan looks at the same queue.
LEMMA SameTurnQueue ==
  ASSUME NEW w, SameTurn(w)
  PROVE  queue(w)' = queue(w) /\ InWait(w)' = InWait(w)
  BY DEF SameTurn, queue, InWait

\* What loop_top does to the state, in the terms the invariants use.
LEMMA topMoves ==
  ASSUME TypeInv, NEW w \in Workers, loop_top(w)
  PROVE  /\ pc[w] = "top" /\ at'[w].by = "tryConsume" /\ at'[w].status = status[w]
         /\ \/ pc'[w] = "end" \/ (pc'[w] = "pop" /\ status[w] # "STANDBY") \/ pc'[w] = "steal"
         /\ _need_wakeup' = _need_wakeup
         /\ _td_wakeup_mtx' = _td_wakeup_mtx
<1>1. at'[w] = [Start EXCEPT !.status = status[w]]
  BY Set DEF loop_top
<1>2. at'[w].by = "tryConsume" /\ at'[w].status = status[w]
  BY <1>1 DEF Start
<1> QED BY <1>2, Jump DEF loop_top, pool, mutexes

\* What pop_copy does to the state, in the terms the invariants use.
LEMMA copyMoves ==
  ASSUME TypeInv, NEW w \in Workers, pop_copy(w)
  PROVE  /\ pc[w] \in {"pop", "again"}
         /\ \/ /\ Empty(queue(w)) \/ (_exit /\ ~InWait(w))
               /\ \/ /\ at[w].by = "tryConsume" /\ at'[w] = rest(w)
                     /\ pc'[w] = (IF at[w].status = "INACTIVE" THEN "standby" ELSE "steal")
                     /\ _td_wakeup_mtx' = _td_wakeup_mtx
                  \/ /\ at[w].by \in {"tryStealOne", "tryGetOne"} /\ pc'[w] = "scan"
                     /\ at'[w].by = at[w].by /\ at'[w].i = at[w].i + 1
                     /\ at'[w].status = at[w].status /\ at'[w].active_td = at[w].active_td
                     /\ _td_wakeup_mtx' = _td_wakeup_mtx
                  \/ /\ at[w].by = "tryGetOwn" /\ pc'[w] = "waiting" /\ at'[w] = rest(w)
                     /\ _td_wakeup_mtx'
            \/ /\ ~Empty(queue(w)) /\ pc'[w] = "cas" /\ SameTurn(w)
               /\ at'[w].read = _read_idx[queue(w)]
               /\ at'[w].task = _buffer[queue(w)][_read_idx[queue(w)] % _queue_size]
               /\ _td_wakeup_mtx' = _td_wakeup_mtx
         /\ _need_wakeup' = _need_wakeup
<1>0. at[w] \in AtType
  BY DEF TypeInv
<1> USE DEF pool
<1>1. CASE nothing(w) /\ (Empty(queue(w)) \/ (_exit /\ ~InWait(w)))
  <2>1. CASE at[w].by \in {"tryStealOne", "tryGetOne"}
    <3>0. at[w].by # "tryConsume" /\ at[w].by # "tryGetOwn"
      BY <2>1
    <3>1. /\ at'[w] = [at[w] EXCEPT !.i = @ + 1, !.read = 0, !.task = rest(w).task]
          /\ pc'[w] = "scan" /\ _td_wakeup_mtx' = _td_wakeup_mtx
      BY <1>1, <3>0, Set, Jump DEF nothing
    <3>2. /\ at'[w].by = at[w].by /\ at'[w].i = at[w].i + 1
          /\ at'[w].status = at[w].status /\ at'[w].active_td = at[w].active_td
      BY <1>0, <3>1 DEF AtType
    <3> QED BY <1>1, <2>1, <3>1, <3>2 DEF pop_copy
  <2>2. CASE at[w].by = "tryConsume"
    <3>1. /\ at'[w] = rest(w) /\ _td_wakeup_mtx' = _td_wakeup_mtx
          /\ pc'[w] = (IF at[w].status = "INACTIVE" THEN "standby" ELSE "steal")
      BY <1>1, <2>2, Set, Jump DEF nothing
    <3> QED BY <1>1, <2>2, <3>1 DEF pop_copy
  <2>3. CASE at[w].by = "tryGetOwn"
    <3>1. at'[w] = rest(w) /\ _td_wakeup_mtx' /\ pc'[w] = "waiting"
      BY <1>1, <2>3, Set, Jump DEF nothing
    <3> QED BY <1>1, <2>3, <3>1 DEF pop_copy
  <2> QED BY <2>1, <2>2, <2>3, AtFields
<1>2. CASE /\ ~Empty(queue(w))
           /\ set(w, [at[w] EXCEPT !.read = _read_idx[queue(w)],
                        !.task = _buffer[queue(w)][_read_idx[queue(w)] % _queue_size]])
           /\ jump(w, "cas") /\ UNCHANGED _td_wakeup_mtx
  <2>1. at'[w] = [at[w] EXCEPT !.read = _read_idx[queue(w)],
                    !.task = _buffer[queue(w)][_read_idx[queue(w)] % _queue_size]]
    BY <1>2, Set
  <2>2. /\ SameTurn(w) /\ at'[w].read = _read_idx[queue(w)]
        /\ at'[w].task = _buffer[queue(w)][_read_idx[queue(w)] % _queue_size]
    BY <1>0, <2>1 DEF AtType, SameTurn
  <2> QED BY <1>2, <2>2, Jump DEF pop_copy
<1> QED BY <1>1, <1>2 DEF pop_copy, Empty, pool

\* What pop_cas does to the state, in the terms the invariants use.
LEMMA popMoves ==
  ASSUME TypeInv, NEW w \in Workers, pop_cas(w)
  PROVE  /\ pc[w] = "cas" /\ SameTurn(w) /\ at'[w].task = at[w].task
         /\ \/ /\ _read_idx[queue(w)] = at[w].read
               /\ _read_idx' = [_read_idx EXCEPT ![queue(w)] = @ + 1]
               /\ pc'[w] = (IF InWait(w) THEN "got" ELSE "run")
            \/ _read_idx[queue(w)] # at[w].read /\ _read_idx' = _read_idx /\ pc'[w] = "again"
         /\ _td_wakeup_mtx' = _td_wakeup_mtx
         /\ _need_wakeup' = _need_wakeup
<1>0. at[w] \in AtType
  BY DEF TypeInv
<1>1. at'[w] = [at[w] EXCEPT !.read = 0]
  BY Set DEF pop_cas
<1>2. SameTurn(w) /\ at'[w].task = at[w].task
  BY <1>0, <1>1 DEF AtType, SameTurn
<1> QED BY <1>2, Jump DEF pop_cas, mutexes, pool

\* What run does to the state, in the terms the invariants use.
LEMMA taskMoves ==
  ASSUME TypeInv, NEW w \in Workers, run(w)
  PROVE  /\ pc[w] = "run" /\ at'[w].by = "tryConsume" /\ _td_wakeup_mtx' = _td_wakeup_mtx
         /\ \/ /\ at[w].by = "tryConsume" /\ pc'[w] = "pop" /\ at'[w].status = at[w].status
            \/ at[w].by # "tryConsume" /\ pc'[w] = "top"
         /\ _need_wakeup' = _need_wakeup
<1>1. at'[w] = IF at[w].by = "tryConsume" THEN rest(w) ELSE Start
  BY Set DEF run
<1>2. Start.by = "tryConsume"
  BY DEF Start
<1> QED BY <1>1, <1>2, Jump, AtFields DEF run, mutexes, pool

\* What standby does to the state, in the terms the invariants use.
LEMMA standbyMoves ==
  ASSUME TypeInv, NEW w \in Workers, standby(w)
  PROVE  /\ pc[w] = "standby" /\ pc'[w] = "uncount" /\ at'[w] = at[w]
         /\ _td_wakeup_mtx' = _td_wakeup_mtx
         /\ _need_wakeup' = _need_wakeup
  BY Jump DEF standby, mutexes, pool

\* What uncount does to the state, in the terms the invariants use.
LEMMA uncountMoves ==
  ASSUME TypeInv, NEW w \in Workers, uncount(w)
  PROVE  /\ pc[w] = "uncount" /\ pc'[w] = "steal" /\ at'[w] = at[w]
         /\ _td_wakeup_mtx' = _td_wakeup_mtx
         /\ _need_wakeup' = _need_wakeup
  BY Jump DEF uncount, mutexes, pool

\* What tryStealOne does to the state, in the terms the invariants use.
LEMMA stealMoves ==
  ASSUME TypeInv, NEW w \in Workers, tryStealOne(w)
  PROVE  /\ pc[w] = "steal" /\ pc'[w] = "scan" /\ at'[w].by = "tryStealOne"
         /\ _td_wakeup_mtx' = _td_wakeup_mtx
         /\ _need_wakeup' = _need_wakeup
<1>0. at[w] \in AtType
  BY DEF TypeInv
<1>1. at'[w] = [at[w] EXCEPT !.by = "tryStealOne",
                             !.active_td = IF _exit THEN 0 ELSE _active_td_size]
  BY Set DEF tryStealOne
<1>2. at'[w].by = "tryStealOne"
  BY <1>0, <1>1 DEF AtType
<1> QED BY <1>2, Jump DEF tryStealOne, mutexes, pool

\* What scan does to the state, in the terms the invariants use.
LEMMA turnMoves ==
  ASSUME TypeInv, NEW w \in Workers, scan(w)
  PROVE  /\ pc[w] = "scan"
         /\ \/ /\ at[w].i \in Workers /\ pc'[w] = "pop" /\ at'[w] = at[w]
               /\ _td_wakeup_mtx' = _td_wakeup_mtx
            \/ /\ at[w].i \in Workers /\ status[at[w].i] = "STANDBY" /\ pc'[w] = "scan"
               /\ at'[w].by = at[w].by /\ at'[w].i = at[w].i + 1
               /\ at'[w].status = at[w].status /\ at'[w].active_td = at[w].active_td
               /\ _td_wakeup_mtx' = _td_wakeup_mtx
            \/ /\ at[w].i >= at[w].active_td /\ at'[w] = rest(w)
               /\ pc'[w] = (IF InWait(w) THEN "waiting" ELSE "sleep")
               /\ _td_wakeup_mtx' = (_td_wakeup_mtx \/ InWait(w))
         /\ _need_wakeup' = _need_wakeup
<1>0. at[w] \in AtType
  BY DEF TypeInv
<1> USE DEF scan, pool
<1>1. CASE at[w].i \in Workers /\ jump(w, "pop") /\ UNCHANGED <<at, _td_wakeup_mtx>>
  BY <1>1, Jump
<1>2. CASE /\ at[w].i \in Workers /\ status[at[w].i] = "STANDBY"
           /\ set(w, [at[w] EXCEPT !.i = at[w].i + 1]) /\ UNCHANGED <<pc, _td_wakeup_mtx>>
  <2>1. at'[w] = [at[w] EXCEPT !.i = at[w].i + 1]
    BY <1>2, Set
  <2>2. /\ at'[w].by = at[w].by /\ at'[w].i = at[w].i + 1
        /\ at'[w].status = at[w].status /\ at'[w].active_td = at[w].active_td
    BY <1>0, <2>1 DEF AtType
  <2> QED BY <1>2, <2>2
<1>3. CASE /\ at[w].i >= at[w].active_td /\ set(w, rest(w))
           /\ jump(w, IF InWait(w) THEN "waiting" ELSE "sleep")
           /\ _td_wakeup_mtx' = (_td_wakeup_mtx \/ InWait(w))
  BY <1>3, Set, Jump
<1> QED BY <1>1, <1>2, <1>3 DEF pool

\* What sleep does to the state, in the terms the invariants use.
LEMMA sleepMoves ==
  ASSUME TypeInv, NEW w \in Workers, sleep(w)
  PROVE  /\ pc[w] = "sleep" /\ pc'[w] = "predicate" /\ at'[w] = at[w]
         /\ _td_wakeup_mtx /\ ~_td_wakeup_mtx'
         /\ _need_wakeup' = _need_wakeup + 1
  BY Jump DEF sleep

\* What predicate does to the state, in the terms the invariants use.
LEMMA predicateMoves ==
  ASSUME TypeInv, NEW w \in Workers, predicate(w)
  PROVE  /\ pc[w] = "predicate" /\ _td_wakeup_mtx' = _td_wakeup_mtx
         /\ \/ _exit /\ pc'[w] = "got" /\ at'[w] = at[w]
            \/ /\ ~_exit /\ at[w].status = "STANDBY" /\ pc'[w] = "scan"
               /\ at'[w].by = "tryGetOne" /\ at'[w].active_td = _active_td_size
               /\ at'[w].status = at[w].status /\ at'[w].i = at[w].i
            \/ /\ ~_exit /\ at[w].status # "STANDBY" /\ pc'[w] = "pop"
               /\ at'[w].by = "tryGetOwn" /\ at'[w].status = at[w].status
         /\ _need_wakeup' = _need_wakeup
<1>0. at[w] \in AtType
  BY DEF TypeInv
<1> USE DEF predicate, mutexes, pool
<1>1. CASE _exit /\ jump(w, "got") /\ UNCHANGED at
  BY <1>1, Jump
<1>2. CASE /\ ~_exit /\ at[w].status = "STANDBY" /\ jump(w, "scan")
           /\ set(w, [at[w] EXCEPT !.by = "tryGetOne", !.active_td = _active_td_size])
  <2>1. at'[w] = [at[w] EXCEPT !.by = "tryGetOne", !.active_td = _active_td_size]
    BY <1>2, Set
  <2>2. /\ at'[w].by = "tryGetOne" /\ at'[w].active_td = _active_td_size
        /\ at'[w].status = at[w].status /\ at'[w].i = at[w].i
    BY <1>0, <2>1 DEF AtType
  <2> QED BY <1>2, <2>2, Jump
<1>3. CASE /\ ~_exit /\ at[w].status # "STANDBY" /\ jump(w, "pop")
           /\ set(w, [at[w] EXCEPT !.by = "tryGetOwn"])
  <2>1. at'[w] = [at[w] EXCEPT !.by = "tryGetOwn"]
    BY <1>3, Set
  <2>2. at'[w].by = "tryGetOwn" /\ at'[w].status = at[w].status
    BY <1>0, <2>1 DEF AtType
  <2> QED BY <1>3, <2>2, Jump
<1> QED BY <1>1, <1>2, <1>3 DEF pool

\* What woken does to the state, in the terms the invariants use.
LEMMA wokenMoves ==
  ASSUME TypeInv, NEW w \in Workers, woken(w)
  PROVE  /\ pc[w] = "woken" /\ pc'[w] = "predicate" /\ at'[w] = at[w]
         /\ _td_wakeup_mtx /\ ~_td_wakeup_mtx'
         /\ _need_wakeup' = _need_wakeup
  BY Jump DEF woken, pool

\* What got does to the state, in the terms the invariants use.
LEMMA gotMoves ==
  ASSUME TypeInv, NEW w \in Workers, got(w)
  PROVE  /\ pc[w] = "got" /\ _td_wakeup_mtx'
         /\ \/ at[w].task = 0 /\ pc'[w] = "top" /\ at'[w].by = "tryConsume"
            \/ /\ at[w].task # 0 /\ pc'[w] = "run" /\ at'[w].by = "tryGetOne"
               /\ at'[w].task = at[w].task
         /\ _need_wakeup' = _need_wakeup - 1
<1>1. at'[w] = IF at[w].task = 0 THEN Start
                 ELSE [Start EXCEPT !.by = "tryGetOne", !.task = at[w].task]
  BY Set DEF got
<1>2. /\ at[w].task = 0 => at'[w].by = "tryConsume"
      /\ at[w].task # 0 => at'[w].by = "tryGetOne" /\ at'[w].task = at[w].task
  BY SMT, <1>1 DEF Start
<1> QED BY <1>2, Jump DEF got

\* A step of a worker's loop keeps what each worker's place in its loop implies.
LEMMA WorkerPosted ==
  ASSUME TypeInv, NEW w \in Workers, worker(w), \A v \in Workers : Posted(v)
  PROVE  \A v \in Workers : Posted(v)'
<1>0. Posted(w) /\ rest(w).by = "tryConsume" /\ rest(w).i = 0
  BY AtFields
<1>v. ASSUME NEW v \in Workers \ {w} PROVE Posted(v)'
  BY WorkerFrame DEF SameWorker, Posted, queue
<1> SUFFICES Posted(w)'
  BY <1>v
<1> USE <1>0 DEF Posted, queue
<1>1. CASE loop_top(w)
  BY SMT, <1>1, topMoves
<1>2. CASE pop_copy(w)
  <2>1. CASE pc'[w] = "cas" /\ SameTurn(w)
    <3>1. queue(w)' = queue(w) /\ queue(w) \in Workers
      BY <1>2, <2>1, SameTurnQueue, copyMoves
    <3> QED BY SMT, <2>1, <3>1
  <2>2. \/ pc'[w] = "cas" /\ SameTurn(w)
        \/ at'[w] = rest(w) /\ pc'[w] \in {"standby", "steal", "waiting"}
        \/ at'[w].by = at[w].by /\ at[w].by \in {"tryStealOne", "tryGetOne"} /\ pc'[w] = "scan"
    BY <1>2, copyMoves
  <2> QED BY SMTT(30), <2>1, <2>2
<1>3. CASE pop_cas(w)
  <2>1. /\ queue(w)' = queue(w) /\ queue(w) \in Workers
        /\ pc'[w] \in {"got", "run", "again"}
    BY <1>3, SameTurnQueue, popMoves
  <2> QED BY SMT, <2>1
<1>4. CASE run(w)
  BY SMTT(30), <1>4, taskMoves
<1>5. CASE standby(w)
  BY SMT, <1>5, standbyMoves
<1>6. CASE uncount(w)
  BY SMTT(30), <1>6, uncountMoves
<1>7. CASE tryStealOne(w)
  BY SMTT(30), <1>7, stealMoves
<1>8. CASE scan(w)
  BY SMTT(30), <1>8, turnMoves
<1>9. CASE sleep(w)
  BY SMTT(30), <1>9, sleepMoves
<1>10. CASE predicate(w)
  BY SMTT(30), <1>10, predicateMoves
<1>11. CASE woken(w)
  BY SMTT(30), <1>11, wokenMoves
<1>12. CASE got(w)
  BY SMT, <1>12, gotMoves
<1> QED BY <1>1, <1>2, <1>3, <1>4, <1>5, <1>6, <1>7, <1>8, <1>9, <1>10, <1>11, <1>12
        DEF worker

\* A notification wakes those who wait, and moves nobody else.
LEMMA NotifyMoves ==
  ASSUME notify_all, NEW w \in Workers
  PROVE  \/ pc[w] = "waiting" /\ pc'[w] = "woken"
         \/ pc[w] # "waiting" /\ pc'[w] = pc[w]
  BY DEF notify_all

\* A notification keeps what each worker's place in its loop implies.
LEMMA NotifyPosted ==
  ASSUME \A v \in Workers : Posted(v), at' = at, pc' = pc \/ notify_all
  PROVE  \A v \in Workers : Posted(v)'
<1> TAKE v \in Workers
<1>1. Posted(v) /\ (pc'[v] = pc[v] \/ (pc[v] = "waiting" /\ pc'[v] = "woken")) /\ at'[v] = at[v]
  BY NotifyMoves
<1> QED BY SMT, <1>1 DEF Posted, queue

-----------------------------------------------------------------------------
(* The mutexes, and the count of the sleepers.                             *)

\* A step of a submitting thread keeps _td_mtx with the one thread that looks for a worker.
LEMMA ThreadPairsAlone ==
  ASSUME TypeInv, NEW t \in Threads, thread(t), PairsAlone
  PROVE  PairsAlone'
<1>u. \A u \in Threads \ {t} : tpc'[u] = tpc[u]
  BY ThreadFrame DEF SameThread
<1>0. \/ /\ tpc'[t] \notin {"scan", "count"} /\ tpc[t] \notin {"scan", "count"}
         /\ _td_mtx' = _td_mtx
      \/ tpc[t] = "lock" /\ tpc'[t] = "scan" /\ _td_mtx /\ ~_td_mtx'
      \/ tpc[t] \in {"scan", "count"} /\ tpc'[t] \notin {"scan", "count"} /\ _td_mtx'
      \/ tpc[t] = "scan" /\ tpc'[t] \in {"scan", "count"} /\ _td_mtx' = _td_mtx
  <2>1. CASE submit(t)
    BY SMT, <2>1, submitMoves
  <2>2. CASE getActiveThread_lock(t)
    BY <2>2, lockMoves
  <2>3. CASE getActiveThread_scan(t)
    <3>1. /\ tpc[t] = "scan"
          /\ \/ tpc'[t] = "run" /\ _td_mtx'
             \/ tpc'[t] \in {"scan", "count"} /\ _td_mtx' = _td_mtx
      BY <2>3, scanMoves
    <3> QED BY SMT, <3>1
  <2>4. CASE getActiveThread_pair(t)
    BY SMT, <2>4, pairMoves
  <2>5. CASE push(t)
    <3>1. tpc[t] = "push" /\ tpc'[t] \in {"run", "publish"} /\ _td_mtx' = _td_mtx
      BY <2>5, pushMoves
    <3> QED BY SMT, <3>1
  <2>6. CASE push_publish(t)
    BY SMT, <2>6, publishMoves
  <2>7. CASE push_delayed(t)
    BY SMT, <2>7, delayedMoves
  <2>8. CASE submit_run(t)
    BY SMT, <2>8, runMoves
  <2>9. CASE submit_load(t)
    BY SMTT(30), <2>9, loadMoves
  <2>10. CASE submit_notify(t)
    BY SMTT(30), <2>10, notifyMoves
  <2>11. CASE thread_exit(t)
    BY SMTT(30), <2>11, exitMoves
  <2>12. CASE deleteThreadLocalPairThread(t)
    BY SMTT(30), <2>12, deleteMoves
  <2>13. CASE deleteThreadLocalPairThread_cas(t)
    <3>1. /\ tpc[t] \in {"exit_cas", "exit_again"} /\ tpc'[t] \in {"exit_again", "ended"}
          /\ _td_mtx' = _td_mtx
      BY <2>13, casMoves
    <3> QED BY SMT, <3>1
  <2> QED BY <2>1, <2>2, <2>3, <2>4, <2>5, <2>6, <2>7, <2>8, <2>9, <2>10, <2>11, <2>12,
          <2>13 DEF thread
<1> QED BY SMT, <1>u, <1>0 DEF PairsAlone

\* What a worker's step does to _td_wakeup_mtx and to _need_wakeup.
LEMMA SleepMoves ==
  ASSUME TypeInv, NEW w \in Workers, worker(w), Posted(w)
  PROVE  /\ \/ (Locked(w)' <=> Locked(w)) /\ _td_wakeup_mtx' = _td_wakeup_mtx
            \/ ~Locked(w) /\ _td_wakeup_mtx /\ Locked(w)' /\ ~_td_wakeup_mtx'
            \/ Locked(w) /\ ~Locked(w)' /\ _td_wakeup_mtx'
         /\ \/ (Sleeps(w)' <=> Sleeps(w)) /\ _need_wakeup' = _need_wakeup
            \/ ~Sleeps(w) /\ Sleeps(w)' /\ _need_wakeup' = _need_wakeup + 1
            \/ Sleeps(w) /\ ~Sleeps(w)' /\ _need_wakeup' = _need_wakeup - 1
<1>0. rest(w).by = "tryConsume"
  BY AtFields
<1> USE <1>0 DEF Locked, Sleeps, InWait, Posted
<1>1. CASE loop_top(w)
  BY SMTT(30), <1>1, topMoves
<1>2. CASE pop_copy(w)
  <2>0. pc[w] \in {"pop", "again"} /\ _need_wakeup' = _need_wakeup
    BY <1>2, copyMoves
  <2>1. \/ pc'[w] = "cas" /\ at'[w].by = at[w].by /\ _td_wakeup_mtx' = _td_wakeup_mtx
        \/ /\ at[w].by = "tryConsume" /\ at'[w] = rest(w) /\ pc'[w] \in {"standby", "steal"}
           /\ _td_wakeup_mtx' = _td_wakeup_mtx
        \/ at[w].by = "tryGetOwn" /\ at'[w] = rest(w) /\ pc'[w] = "waiting" /\ _td_wakeup_mtx'
        \/ /\ at'[w].by = at[w].by /\ at[w].by \in {"tryStealOne", "tryGetOne"} /\ pc'[w] = "scan"
           /\ _td_wakeup_mtx' = _td_wakeup_mtx
    BY <1>2, copyMoves DEF SameTurn
  <2> QED BY SMT, <2>0, <2>1
<1>3. CASE pop_cas(w)
  <2>1. /\ at'[w].by = at[w].by /\ pc[w] = "cas" /\ _td_wakeup_mtx' = _td_wakeup_mtx
        /\ pc'[w] = "again" \/ pc'[w] = (IF InWait(w) THEN "got" ELSE "run")
        /\ _need_wakeup' = _need_wakeup
    BY <1>3, popMoves DEF SameTurn
  <2> QED BY SMT, <2>1
<1>4. CASE run(w)
  BY SMTT(30), <1>4, taskMoves
<1>5. CASE standby(w)
  BY SMTT(30), <1>5, standbyMoves
<1>6. CASE uncount(w)
  BY SMTT(30), <1>6, uncountMoves
<1>7. CASE tryStealOne(w)
  BY SMTT(30), <1>7, stealMoves
<1>8. CASE scan(w)
  <2>1. /\ pc[w] = "scan" /\ _need_wakeup' = _need_wakeup
        /\ \/ /\ pc'[w] \in {"pop", "scan"} /\ at'[w].by = at[w].by
              /\ _td_wakeup_mtx' = _td_wakeup_mtx
           \/ /\ at'[w] = rest(w) /\ pc'[w] = (IF InWait(w) THEN "waiting" ELSE "sleep")
              /\ _td_wakeup_mtx' = (_td_wakeup_mtx \/ InWait(w))
    BY <1>8, turnMoves
  <2>2. CASE pc'[w] \in {"pop", "scan"} /\ at'[w].by = at[w].by
    BY SMTT(30), <2>1, <2>2
  <2>3. CASE at'[w] = rest(w) /\ InWait(w) /\ pc'[w] = "waiting" /\ _td_wakeup_mtx'
    <3>1. pc[w] = "scan" /\ _need_wakeup' = _need_wakeup /\ at'[w].by = "tryConsume"
      BY <2>1, <2>3
    <3>2. Locked(w) /\ Sleeps(w)
      BY <2>3, <3>1
    <3>3. ~Locked(w)' /\ Sleeps(w)'
      BY <2>3, <3>1
    <3> HIDE DEF Locked, Sleeps
    <3> QED BY <2>3, <3>1, <3>2, <3>3
  <2>4. CASE at'[w] = rest(w) /\ ~InWait(w) /\ pc'[w] = "sleep"
             /\ _td_wakeup_mtx' = _td_wakeup_mtx
    BY SMTT(30), <2>1, <2>4
  <2>5. \/ pc'[w] \in {"pop", "scan"} /\ at'[w].by = at[w].by
        \/ at'[w] = rest(w) /\ InWait(w) /\ pc'[w] = "waiting" /\ _td_wakeup_mtx'
        \/ /\ at'[w] = rest(w) /\ ~InWait(w) /\ pc'[w] = "sleep"
           /\ _td_wakeup_mtx' = _td_wakeup_mtx
    <3> HIDE DEF InWait
    <3>1. _td_wakeup_mtx \in BOOLEAN
      BY DEF TypeInv
    <3> QED BY <2>1, <3>1
  <2> QED BY <2>2, <2>3, <2>4, <2>5
<1>9. CASE sleep(w)
  BY SMTT(30), <1>9, sleepMoves
<1>10. CASE predicate(w)
  BY SMTT(30), <1>10, predicateMoves
<1>11. CASE woken(w)
  BY SMTT(30), <1>11, wokenMoves
<1>12. CASE got(w)
  BY SMTT(30), <1>12, gotMoves
<1> QED BY <1>1, <1>2, <1>3, <1>4, <1>5, <1>6, <1>7, <1>8, <1>9, <1>10, <1>11, <1>12
        DEF worker

\* A step of a worker's loop keeps the wakeup mutex in one hand.
LEMMA WorkerWaitsAlone ==
  ASSUME TypeInv, NEW w \in Workers, worker(w), Posted(w), WaitsAlone
  PROVE  WaitsAlone'
<1>1. \A v \in Workers \ {w} : Locked(v)' <=> Locked(v)
  BY WorkerFrame DEF SameWorker, Locked, InWait
<1>2. \/ (Locked(w)' <=> Locked(w)) /\ _td_wakeup_mtx' = _td_wakeup_mtx
      \/ ~Locked(w) /\ _td_wakeup_mtx /\ Locked(w)' /\ ~_td_wakeup_mtx'
      \/ Locked(w) /\ ~Locked(w)' /\ _td_wakeup_mtx'
  BY SleepMoves
<1>3. CASE (Locked(w)' <=> Locked(w)) /\ _td_wakeup_mtx' = _td_wakeup_mtx
  BY <1>1, <1>3 DEF WaitsAlone
<1>4. CASE ~Locked(w) /\ _td_wakeup_mtx /\ Locked(w)' /\ ~_td_wakeup_mtx'
  BY <1>1, <1>4 DEF WaitsAlone
<1>5. CASE Locked(w) /\ ~Locked(w)' /\ _td_wakeup_mtx'
  BY <1>1, <1>5 DEF WaitsAlone
<1> QED BY <1>2, <1>3, <1>4, <1>5

\* One worker more or less in a set of workers.
LEMMA OneMore ==
  ASSUME NEW S \in SUBSET Workers, NEW w \in Workers, w \notin S
  PROVE  Cardinality(S \cup {w}) = Cardinality(S) + 1
<1>1. IsFiniteSet(S)
  BY FS_Subset, WorkersFacts
<1> QED BY <1>1, FS_AddElement

\* A set of workers has a cardinality, at most _td_capacity.
LEMMA CountsNat ==
  ASSUME NEW S \in SUBSET Workers
  PROVE  /\ IsFiniteSet(S) /\ Cardinality(S) \in Nat /\ Cardinality(S) <= _td_capacity
         /\ Cardinality(S) = 0 <=> S = {}
<1>1. IsFiniteSet(S) /\ Cardinality(S) \in Nat /\ (Cardinality(S) = 0 <=> S = {})
  BY FS_Subset, FS_EmptySet, FS_CardinalityType, WorkersFacts
<1>2. Cardinality(S) <= Cardinality(Workers)
  BY FS_Subset, WorkersFacts
<1>3. Cardinality(Workers) = _td_capacity
  <2>1. 0 \in Int /\ _td_capacity - 1 \in Int
    BY SMT, WorkersFacts
  <2>2. Cardinality(Workers) = IF 0 > _td_capacity - 1 THEN 0 ELSE _td_capacity - 1 - 0 + 1
    BY <2>1, FS_Interval DEF Workers
  <2> QED BY SMT, <2>2, WorkersFacts
<1> QED BY <1>1, <1>2, <1>3

\* A step of a worker's loop keeps _need_wakeup exact.
LEMMA WorkerCounted ==
  ASSUME TypeInv, NEW w \in Workers, worker(w), Posted(w), Counted
  PROVE  Counted'
<1>1. \A v \in Workers \ {w} : Sleeps(v)' <=> Sleeps(v)
  BY WorkerFrame DEF SameWorker, Sleeps, Locked, InWait
<1>2. \/ (Sleeps(w)' <=> Sleeps(w)) /\ _need_wakeup' = _need_wakeup
      \/ ~Sleeps(w) /\ Sleeps(w)' /\ _need_wakeup' = _need_wakeup + 1
      \/ Sleeps(w) /\ ~Sleeps(w)' /\ _need_wakeup' = _need_wakeup - 1
  BY SleepMoves
<1>0. Asleep \in SUBSET Workers /\ Asleep' \in SUBSET Workers
  BY DEF Asleep
<1>c. Cardinality(Asleep) \in Nat /\ Cardinality(Asleep') \in Nat
  BY <1>0, CountsNat
<1>3. CASE (Sleeps(w)' <=> Sleeps(w)) /\ _need_wakeup' = _need_wakeup
  <2>1. Asleep' = Asleep
    BY <1>1, <1>3 DEF Asleep
  <2> QED BY <1>3, <2>1 DEF Counted
<1>4. CASE ~Sleeps(w) /\ Sleeps(w)' /\ _need_wakeup' = _need_wakeup + 1
  <2>1. Asleep' = Asleep \cup {w} /\ w \notin Asleep
    BY <1>1, <1>4 DEF Asleep
  <2>2. Cardinality(Asleep') = Cardinality(Asleep) + 1
    BY <1>0, <2>1, OneMore
  <2> QED BY <1>4, <2>2 DEF Counted
<1>5. CASE Sleeps(w) /\ ~Sleeps(w)' /\ _need_wakeup' = _need_wakeup - 1
  <2>1. Asleep = Asleep' \cup {w} /\ w \notin Asleep'
    BY <1>1, <1>5 DEF Asleep
  <2>2. Cardinality(Asleep) = Cardinality(Asleep') + 1
    <3> DEFINE S == Asleep'
    <3>1. S \in SUBSET Workers /\ Asleep = S \cup {w} /\ w \notin S
      BY <1>0, <2>1
    <3> HIDE DEF S
    <3>2. Cardinality(Asleep) = Cardinality(S) + 1
      BY <3>1, OneMore
    <3> QED BY <3>2 DEF S
  <2> QED BY SMTT(30), <1>c, <1>5, <2>2 DEF Counted
<1> QED BY <1>2, <1>3, <1>4, <1>5

\* A notification keeps the mutex and the count.
LEMMA NotifyLocked ==
  ASSUME at' = at, pc' = pc \/ notify_all, UNCHANGED <<_td_wakeup_mtx, _need_wakeup>>,
         WaitsAlone, Counted
  PROVE  /\ WaitsAlone' /\ Counted'
         /\ \A w \in Workers : Locked(w)' <=> Locked(w)
<1>1. ASSUME NEW w \in Workers PROVE (Locked(w)' <=> Locked(w)) /\ (Sleeps(w)' <=> Sleeps(w))
  <2>1. (pc'[w] = pc[w] \/ (pc[w] = "waiting" /\ pc'[w] = "woken")) /\ at'[w] = at[w]
    BY NotifyMoves
  <2> QED BY SMT, <2>1 DEF Locked, Sleeps, InWait
<1>2. WaitsAlone'
  BY <1>1 DEF WaitsAlone
<1>3. Asleep' = Asleep
  BY <1>1 DEF Asleep
<1> QED BY <1>1, <1>2, <1>3 DEF Counted

-----------------------------------------------------------------------------
(* The destructor.                                                         *)

\* A step of a submitting thread keeps what the destructor's progress implies of threads and workers.
LEMMA ThreadClosing ==
  ASSUME TypeInv, NEW t \in Threads, thread(t), Closing
  PROVE  Closing'
<1>0. \A u \in Threads \ {t} : tpc'[u] = tpc[u]
  BY ThreadFrame DEF SameThread
<1>1. UNCHANGED <<at, dpc, deleted, _exit>>
  BY ThreadFrame
<1>2. ASSUME _exit PROVE tpc'[t] \in {"idle"} \cup Ending
  <2>0. tpc[t] \in {"idle", "exit", "exit_cas", "exit_again", "ended"}
    BY <1>2 DEF Closing, Ending
  <2>1. CASE thread_exit(t)
    BY <2>1, exitMoves DEF Ending
  <2>2. CASE deleteThreadLocalPairThread(t)
    BY <2>2, deleteMoves DEF Ending
  <2>3. CASE deleteThreadLocalPairThread_cas(t)
    BY <2>3, casMoves DEF Ending
  <2> QED BY <1>2, <2>0, <2>1, <2>2, <2>3 DEF thread, submit, getActiveThread_lock,
          getActiveThread_scan, getActiveThread_pair, push, push_publish, push_delayed,
          submit_run, submit_load, submit_notify
<1>3. \A u \in Threads : _exit => tpc'[u] \in {"idle"} \cup Ending
  BY <1>0, <1>2 DEF Closing
<1>4. ASSUME NEW w \in Workers, dpc = "join"
      PROVE  pc'[w] # "waiting" /\ pc'[w] = pc[w]
  BY <1>4, ThreadFrame, NotifyMoves DEF Closing
<1> QED BY <1>1, <1>3, <1>4 DEF Closing, InWait

\* A step of a worker's loop keeps what the destructor's progress implies of threads and workers.
LEMMA WorkerClosing ==
  ASSUME TypeInv, NEW w \in Workers, worker(w), Closing, Posted(w)
  PROVE  Closing'
<1>1. UNCHANGED <<tpc, dpc, deleted, _exit>> /\ \A v \in Workers \ {w} : SameWorker(v)
  BY WorkerFrame
<1>2. ASSUME dpc = "join"
      PROVE  pc'[w] # "waiting" /\ (pc'[w] \in {"scan", "pop", "again", "cas"} => ~InWait(w)')
  <2>0. /\ _exit /\ pc[w] # "waiting"
        /\ pc[w] \in {"scan", "pop", "again", "cas"} => ~InWait(w)
    BY <1>2 DEF Closing, TypeInv
  <2> USE DEF InWait
  <2>1. CASE loop_top(w)
    BY SMTT(30), <2>1, topMoves
  <2>2. CASE pop_copy(w)
    <3>1. /\ at[w].by \in {"tryConsume", "tryStealOne"}
      BY <2>0, <2>2, copyMoves, AtFields
    <3>2. \/ pc'[w] = "cas" /\ at'[w].by = at[w].by
          \/ pc'[w] \in {"standby", "steal"}
          \/ at'[w].by = at[w].by /\ pc'[w] = "scan"
      BY <2>2, <3>1, copyMoves DEF SameTurn
    <3> QED BY SMTT(30), <3>1, <3>2
  <2>3. CASE pop_cas(w)
    <3>1. ~InWait(w)
      BY <2>0, <2>3, popMoves
    <3>2. ~InWait(w)' /\ pc'[w] # "waiting"
      BY <2>3, <3>1, popMoves DEF SameTurn
    <3> QED BY <3>2
  <2>4. CASE run(w)
    BY SMT, <2>4, taskMoves
  <2>5. CASE standby(w)
    BY SMT, <2>5, standbyMoves
  <2>6. CASE uncount(w)
    BY SMT, <2>6, uncountMoves
  <2>7. CASE tryStealOne(w)
    BY SMT, <2>7, stealMoves
  <2>8. CASE scan(w)
    <3>1. ~InWait(w)
      BY <2>0, <2>8, turnMoves
    <3>2. \/ at'[w].by = at[w].by /\ pc'[w] \in {"pop", "scan"}
          \/ pc'[w] = "sleep"
      BY <2>8, <3>1, turnMoves
    <3> QED BY SMT, <3>1, <3>2
  <2>9. CASE sleep(w)
    BY SMTT(30), <2>9, sleepMoves
  <2>10. CASE predicate(w)
    BY SMTT(30), <2>0, <2>10, predicateMoves
  <2>11. CASE woken(w)
    BY SMTT(30), <2>11, wokenMoves
  <2>12. CASE got(w)
    BY SMT, <2>12, gotMoves
  <2> QED BY <2>1, <2>2, <2>3, <2>4, <2>5, <2>6, <2>7, <2>8, <2>9, <2>10, <2>11, <2>12
          DEF worker
<1> QED BY <1>1, <1>2 DEF Closing, SameWorker, InWait

\* A step of ~ThreadPool keeps what the destructor's progress implies of threads and workers.
LEMMA DestructorClosing ==
  ASSUME TypeInv, destructor_step, Closing, WaitsAlone
  PROVE  Closing'
<1>0. UNCHANGED <<tpc, at>>
  BY DestructorFrame
<1>1. CASE destruct
  <2>1. /\ dpc = "idle" /\ dpc' = "notify" /\ _exit' /\ UNCHANGED <<deleted, pc>>
        /\ \A t \in Threads : tpc[t] \in {"idle", "exit", "exit_cas", "exit_again", "ended"}
    BY <1>1 DEF destruct, workers
  <2> QED BY <1>0, <2>1 DEF Closing, Ending
<1>2. CASE destruct_notify
  <2>1. /\ dpc = "notify" /\ dpc' = "join" /\ _td_wakeup_mtx /\ notify_all
        /\ UNCHANGED <<deleted, _exit>>
    BY <1>2 DEF destruct_notify, pool
  <2>2. ASSUME NEW w \in Workers
        PROVE  pc'[w] # "waiting" /\ (pc'[w] \in {"scan", "pop", "again", "cas"} => ~InWait(w)')
    <3>1. ~Locked(w) /\ pc'[w] # "waiting"
      BY <2>1, NotifyMoves DEF WaitsAlone
    <3>2. pc'[w] = pc[w] \/ pc'[w] = "woken"
      BY <2>1, NotifyMoves
    <3> QED BY SMT, <1>0, <3>1, <3>2 DEF Locked, InWait
  <2> QED BY <1>0, <2>1, <2>2 DEF Closing
<1>3. CASE destruct_delete
  <2>1. dpc = "join" /\ UNCHANGED <<dpc, _exit, pc>>
    BY <1>3 DEF destruct_delete, pool, workers
  <2> QED BY <1>0, <2>1 DEF Closing, InWait
<1> QED BY <1>1, <1>2, <1>3 DEF destructor_step

-----------------------------------------------------------------------------
(* Pairs of threads and workers.                                           *)

\* The step of thread t neither pairs nor parts anybody.
LEMMA PairedSame ==
  ASSUME Paired, NEW t \in Threads, status' = status,
         \A u \in Threads \ {t} : SameThread(u),
         \A w \in Workers : Owns(t, w)' => Owns(t, w),
         tpc'[t] \in {"exit_cas", "exit_again"} => my'[t].status = "ACTIVE",
         \A w \in Workers : Winding(w)' => Winding(w)
  PROVE  Paired'
<1>1. ASSUME NEW u \in Threads, NEW w \in Workers, Owns(u, w)' PROVE Owns(u, w)
  BY <1>1 DEF SameThread, Owns
<1>2. \A u \in Threads : tpc'[u] \in {"exit_cas", "exit_again"} => my'[u].status = "ACTIVE"
  BY DEF SameThread, Paired
<1>3. ASSUME NEW u \in Threads, NEW w \in Workers, Owns(u, w)'
      PROVE  status'[w] = "ACTIVE" /\ \A v \in Threads : Owns(v, w)' => v = u
  BY <1>1, <1>3 DEF Paired
<1>4. \A w \in Workers : Winding(w)' => status'[w] = "INACTIVE"
  BY DEF Paired
<1> QED BY <1>2, <1>3, <1>4 DEF Paired

\* A notification changes nothing of which workers are winding down.
LEMMA ThreadWinding ==
  ASSUME TypeInv, at' = at, pc' = pc \/ notify_all, NEW w \in Workers
  PROVE  Winding(w)' <=> Winding(w)
<1>1. (pc'[w] = pc[w] \/ (pc[w] = "waiting" /\ pc'[w] = "woken")) /\ at'[w] = at[w]
  BY NotifyMoves
<1> QED BY SMT, <1>1 DEF Winding

\* The mark unpaired is never cleared.
LEMMA UnpairedStays ==
  ASSUME TypeInv, Next, ~unpaired'
  PROVE  ~unpaired
<1>1. ASSUME NEW t \in Threads, thread(t) PROVE unpaired => unpaired'
  BY <1>1 DEF thread, submit, getActiveThread_lock, getActiveThread_scan, getActiveThread_pair,
     push, push_publish, push_delayed, submit_run, submit_load, submit_notify, thread_exit,
     deleteThreadLocalPairThread, deleteThreadLocalPairThread_cas, history
<1>2. ASSUME NEW w \in Workers, worker(w) PROVE unpaired' = unpaired
  BY <1>2, WorkerFrame
<1>3. ASSUME destructor_step PROVE unpaired' = unpaired
  BY <1>3, DestructorFrame
<1> QED BY <1>1, <1>2, <1>3 DEF Next

\* A step of a submitting thread keeps the worker of a thread active, and the worker of no other.
LEMMA ThreadPaired ==
  ASSUME TypeInv, NEW t \in Threads, thread(t), \A u \in Threads : Placed(u), Paired, ~unpaired'
  PROVE  Paired'
<1>0. Placed(t) /\ None \notin Workers
  BY WorkersFacts
<1>u. \A u \in Threads \ {t} : SameThread(u)
  BY ThreadFrame
<1>w. \A w \in Workers : Winding(w)' <=> Winding(w)
  BY ThreadFrame, ThreadWinding
<1>c. \A u \in Threads : tpc[u] \in {"exit_cas", "exit_again"} => my[u].status = "ACTIVE"
  BY DEF Paired
<1>n. ASSUME tpc[t] \notin {"count", "exit", "exit_cas", "exit_again"},
             tpc'[t] \notin {"count", "exit", "exit_cas", "exit_again"},
             _paired_thread'[t] = _paired_thread[t], status' = status
      PROVE  Paired'
  <2>1. \A w \in Workers : Owns(t, w)' => Owns(t, w)
    BY SMT, <1>n DEF Owns
  <2> QED BY <1>u, <1>w, <1>n, <2>1, PairedSame
<1> USE DEF pool, Keeps
<1>1. CASE submit(t)
  <2>1. status' = status
    BY <1>1 DEF submit
  <2> QED BY SMT, <1>n, <1>1, <2>1, submitMoves
<1>2. CASE getActiveThread_lock(t)
  <2>1. status' = status
    BY <1>2 DEF getActiveThread_lock
  <2> QED BY SMT, <1>n, <1>2, <2>1, lockMoves
<1>3. CASE getActiveThread_scan(t)
  <2>1. CASE tpc'[t] \in {"run", "scan"} /\ status' = status
    <3>1. tpc[t] = "scan" /\ _paired_thread'[t] = _paired_thread[t]
      BY <1>3, scanMoves
    <3> QED BY SMT, <1>n, <2>1, <3>1
  <2>2. CASE /\ tpc'[t] = "count" /\ my[t].i \in Workers /\ my'[t].td = my[t].i
             /\ status[my[t].i] = "STANDBY"
             /\ status' = [status EXCEPT ![my[t].i] = "ACTIVE"]
    <3> DEFINE i == my[t].i
    <3>0. _paired_thread'[t] = None /\ status \in [Workers -> Statuses] /\ i \in Workers
      BY <1>0, <1>3, <2>2, scanMoves DEF Placed, TypeInv
    <3>1. status'[i] = "ACTIVE" /\ \A w \in Workers \ {i} : status'[w] = status[w]
      BY <2>2, <3>0
    <3>2. \A w \in Workers : Owns(t, w)' <=> w = i
      BY <1>0, <2>2, <3>0 DEF Owns
    <3>3. \A u \in Threads \ {t}, w \in Workers : Owns(u, w)' <=> Owns(u, w)
      BY <1>u DEF SameThread, Owns
    <3>4. (\A u \in Threads : ~Owns(u, i)) /\ ~Winding(i)
      BY <2>2, <3>0 DEF Paired
    <3>5. ASSUME NEW u \in Threads, NEW w \in Workers, Owns(u, w)'
          PROVE  status'[w] = "ACTIVE" /\ \A v \in Threads : Owns(v, w)' => v = u
      <4>1. CASE w = i
        <5>1. \A v \in Threads : Owns(v, w)' => v = t
          BY <3>3, <3>4, <4>1
        <5> QED BY <3>1, <3>5, <4>1, <5>1
      <4>2. CASE w # i
        <5>1. u # t /\ Owns(u, w) /\ \A v \in Threads : Owns(v, w)' => Owns(v, w)
          BY <3>2, <3>3, <3>5, <4>2
        <5> QED BY <3>1, <4>2, <5>1 DEF Paired
      <4> QED BY <4>1, <4>2
    <3>6. \A u \in Threads : tpc'[u] \in {"exit_cas", "exit_again"} => my'[u].status = "ACTIVE"
      <4>1. tpc'[t] \notin {"exit_cas", "exit_again"}
        BY <2>2
      <4> QED BY <1>u, <1>c, <4>1 DEF SameThread
    <3>7. \A w \in Workers : Winding(w)' => status'[w] = "INACTIVE"
      BY <1>w, <3>1, <3>4 DEF Paired
    <3> QED BY <3>5, <3>6, <3>7 DEF Paired
  <2> QED BY <1>3, <2>1, <2>2, scanMoves
<1>4. CASE getActiveThread_pair(t)
  <2>1. status' = status /\ tpc[t] = "count" /\ tpc'[t] = "push" /\ _paired_thread'[t] = my[t].td
    BY <1>4, pairMoves DEF getActiveThread_pair
  <2>2. \A w \in Workers : Owns(t, w)' => Owns(t, w)
    BY SMT, <2>1 DEF Owns
  <2> QED BY <1>u, <1>w, <2>1, <2>2, PairedSame
<1>5. CASE push(t)
  <2>1. /\ status' = status /\ tpc[t] = "push" /\ tpc'[t] \in {"run", "publish"}
        /\ _paired_thread'[t] = _paired_thread[t]
    BY <1>5, pushMoves DEF push
  <2> QED BY SMT, <1>n, <2>1
<1>6. CASE push_publish(t)
  <2>1. status' = status
    BY <1>6 DEF push_publish
  <2> QED BY SMT, <1>n, <1>6, <2>1, publishMoves
<1>7. CASE push_delayed(t)
  <2>1. status' = status
    BY <1>7 DEF push_delayed
  <2> QED BY SMT, <1>n, <1>7, <2>1, delayedMoves
<1>8. CASE submit_run(t)
  <2>1. status' = status
    BY <1>8 DEF submit_run
  <2> QED BY SMT, <1>n, <1>8, <2>1, runMoves
<1>9. CASE submit_load(t)
  <2>1. status' = status
    BY <1>9 DEF submit_load
  <2> QED BY SMT, <1>n, <1>9, <2>1, loadMoves
<1>10. CASE submit_notify(t)
  <2>1. status' = status
    BY <1>10 DEF submit_notify
  <2> QED BY SMT, <1>n, <1>10, <2>1, notifyMoves
<1>11. CASE thread_exit(t)
  <2>1. /\ status' = status /\ tpc'[t] = "exit" /\ _paired_thread'[t] = None
        /\ my'[t].td = _paired_thread[t]
    BY <1>11, exitMoves DEF thread_exit
  <2>2. \A w \in Workers : Owns(t, w)' => Owns(t, w)
    BY <1>0, <2>1 DEF Owns
  <2> QED BY <1>u, <1>w, <2>1, <2>2, PairedSame
<1>12. CASE deleteThreadLocalPairThread(t)
  <2>1. /\ status' = status /\ tpc[t] = "exit" /\ tpc'[t] = "exit_cas"
        /\ _paired_thread'[t] = _paired_thread[t] /\ my'[t].status = status[my[t].td]
        /\ my'[t].td = my[t].td
    BY <1>12, deleteMoves DEF deleteThreadLocalPairThread
  <2>2. \A w \in Workers : Owns(t, w)' => Owns(t, w)
    BY <2>1 DEF Owns
  <2>3. my[t].td \in Workers /\ Owns(t, my[t].td)
    BY <1>0, <2>1 DEF Owns, Placed
  <2>4. my'[t].status = "ACTIVE"
    BY <2>1, <2>3 DEF Paired
  <2> QED BY <1>u, <1>w, <2>1, <2>2, <2>4, PairedSame
<1>13. CASE deleteThreadLocalPairThread_cas(t)
  <2>0. /\ tpc[t] \in {"exit_cas", "exit_again"} /\ my[t].td \in Workers
        /\ _paired_thread'[t] = None
    BY <1>0, <1>13, casMoves DEF Placed, Ending
  <2>1. CASE tpc'[t] = "ended" /\ UNCHANGED status
    <3>1. \A w \in Workers : Owns(t, w)' => Owns(t, w)
      BY <1>0, <2>0, <2>1 DEF Owns
    <3> QED BY <1>u, <1>w, <2>1, <3>1, PairedSame
  <2>2. CASE /\ tpc'[t] = "exit_again" /\ my'[t] = my[t] /\ status[my[t].td] = my[t].status
             /\ status' = [status EXCEPT ![my[t].td] = "INACTIVE"]
    <3> DEFINE w == my[t].td
    <3>0. my[t].status = "ACTIVE" /\ status[w] = "ACTIVE" /\ w \in Workers
      BY <2>0, <2>2 DEF Paired
    <3>1. \A u \in Threads \ {t} : ~Serves(w, u)
      BY <1>13, <2>0, <2>2, <3>0 DEF deleteThreadLocalPairThread_cas, return, goto
    <3>2. \A u \in Threads \ {t} : ~Owns(u, w)
      BY <3>0, <3>1 DEF Serves, Owns
    <3>3. \A v \in Workers : ~Owns(t, v)'
      BY <1>0, <2>0, <2>2 DEF Owns
    <3>4. \A u \in Threads \ {t}, v \in Workers : Owns(u, v)' <=> Owns(u, v)
      BY <1>u DEF SameThread, Owns
    <3>5. status'[w] = "INACTIVE" /\ \A v \in Workers \ {w} : status'[v] = status[v]
      BY <2>2, <3>0 DEF TypeInv
    <3>6. ASSUME NEW u \in Threads, NEW v \in Workers, Owns(u, v)'
          PROVE  status'[v] = "ACTIVE" /\ \A x \in Threads : Owns(x, v)' => x = u
      <4>1. u # t /\ Owns(u, v) /\ v # w
        BY <3>2, <3>3, <3>4, <3>6
      <4> QED BY <3>3, <3>4, <3>5, <4>1 DEF Paired
    <3>7. \A u \in Threads : tpc'[u] \in {"exit_cas", "exit_again"} => my'[u].status = "ACTIVE"
      <4>1. my'[t].status = "ACTIVE"
        BY <2>2, <3>0
      <4> QED BY <1>u, <1>c, <4>1 DEF SameThread
    <3>8. \A v \in Workers : Winding(v)' => status'[v] = "INACTIVE"
      BY <1>w, <3>5 DEF Paired
    <3> QED BY <3>6, <3>7, <3>8 DEF Paired
  <2> QED BY <1>13, <2>1, <2>2, casMoves
<1> QED BY <1>1, <1>2, <1>3, <1>4, <1>5, <1>6, <1>7, <1>8, <1>9, <1>10, <1>11, <1>12,
        <1>13 DEF thread

\* A step of a worker's loop keeps the worker of a thread active, and the worker of no other.
LEMMA WorkerPaired ==
  ASSUME TypeInv, NEW w \in Workers, worker(w), Paired, Posted(w)
  PROVE  Paired'
<1>0. UNCHANGED <<_paired_thread, tpc, my>> /\ \A v \in Workers \ {w} : SameWorker(v)
  BY WorkerFrame
<1>1. \A t \in Threads, v \in Workers : Owns(t, v)' <=> Owns(t, v)
  BY <1>0 DEF Owns
<1>2. \A v \in Workers \ {w} : Winding(v)' <=> Winding(v)
  BY <1>0 DEF SameWorker, Winding
<1>e. \A t \in Threads : tpc'[t] \in {"exit_cas", "exit_again"} => my'[t].status = "ACTIVE"
  BY <1>0 DEF Paired
<1>k. ASSUME status' = status, Winding(w)' => Winding(w) \/ status[w] = "INACTIVE"
      PROVE  Paired'
  BY <1>1, <1>2, <1>e, <1>k DEF Paired
<1>n. ASSUME status' = status, pc'[w] \notin {"standby", "pop", "again", "cas", "run"}
      PROVE  Paired'
  <2>1. ~Winding(w)'
    BY <1>n DEF Winding
  <2> QED BY <1>k, <1>n, <2>1
<1> USE DEF pool
<1>3. CASE loop_top(w)
  <2>1. status' = status /\ (Winding(w)' => status[w] = "INACTIVE")
    BY <1>3, topMoves DEF loop_top, Winding
  <2> QED BY <1>k, <2>1
<1>4. CASE pop_copy(w)
  <2>0. status' = status
    BY <1>4 DEF pop_copy
  <2>1. CASE pc'[w] = "cas" /\ SameTurn(w)
    <3>1. Winding(w)' => Winding(w)
      BY <1>4, <2>1, copyMoves DEF Winding, SameTurn
    <3> QED BY <1>k, <2>0, <3>1
  <2>2. CASE at[w].by = "tryConsume" /\ at[w].status = "INACTIVE"
    <3>1. Winding(w)
      BY <1>4, <2>2, copyMoves DEF Winding
    <3> QED BY <1>k, <2>0, <3>1
  <2>3. CASE pc'[w] \in {"steal", "scan", "waiting"}
    BY <1>n, <2>0, <2>3
  <2> QED BY <1>4, <2>1, <2>2, <2>3, copyMoves
<1>5. CASE pop_cas(w)
  <2>1. status' = status /\ pc[w] = "cas" /\ SameTurn(w) /\ pc'[w] # "standby"
    BY <1>5, popMoves DEF pop_cas
  <2>2. Winding(w)' => Winding(w)
    BY <2>1 DEF Winding, SameTurn
  <2> QED BY <1>k, <2>1, <2>2
<1>6. CASE run(w)
  <2>1. status' = status /\ (Winding(w)' => Winding(w))
    BY <1>6, taskMoves DEF run, Winding
  <2> QED BY <1>k, <2>1
<1>7. CASE standby(w)
  <2>1. Winding(w) /\ ~Winding(w)'
    BY <1>7, standbyMoves DEF Winding
  <2>2. status[w] = "INACTIVE" /\ status' = [status EXCEPT ![w] = "STANDBY"]
    BY <1>7, <2>1 DEF standby, Paired
  <2>3. \A v \in Workers \ {w} : status'[v] = status[v]
    BY <2>2 DEF TypeInv
  <2>4. \A t \in Threads : ~Owns(t, w)
    BY <2>2 DEF Paired
  <2>5. ASSUME NEW t \in Threads, NEW v \in Workers, Owns(t, v)'
        PROVE  status'[v] = "ACTIVE" /\ \A u \in Threads : Owns(u, v)' => u = t
    <3>1. Owns(t, v) /\ v # w
      BY <1>1, <2>4, <2>5
    <3>2. status[v] = "ACTIVE" /\ \A u \in Threads : Owns(u, v) => u = t
      BY <3>1 DEF Paired
    <3> QED BY <1>1, <2>3, <3>1, <3>2
  <2>6. \A v \in Workers : Winding(v)' => status'[v] = "INACTIVE"
    BY <1>2, <2>1, <2>3 DEF Paired
  <2> QED BY <1>e, <2>5, <2>6 DEF Paired
<1>8. CASE uncount(w)
  BY <1>n, <1>8, uncountMoves DEF uncount
<1>9. CASE tryStealOne(w)
  BY <1>n, <1>9, stealMoves DEF tryStealOne
<1>10. CASE scan(w)
  <2>0. status' = status
    BY <1>10 DEF scan
  <2>1. CASE pc'[w] = "pop" /\ at'[w] = at[w]
    <3>1. at[w].by \in {"tryStealOne", "tryGetOne"}
      BY <1>10 DEF scan, Posted
    <3>2. ~Winding(w)'
      BY <2>1, <3>1 DEF Winding
    <3> QED BY <2>0, <1>k, <3>2
  <2>2. CASE pc'[w] \in {"scan", "waiting", "sleep"}
    BY <1>n, <2>0, <2>2
  <2> QED BY <1>10, <2>1, <2>2, turnMoves
<1>11. CASE sleep(w)
  BY <1>n, <1>11, sleepMoves DEF sleep
<1>12. CASE predicate(w)
  <2>1. status' = status /\ (Winding(w)' => Winding(w))
    BY <1>12, predicateMoves DEF predicate, Winding
  <2> QED BY <1>k, <2>1
<1>13. CASE woken(w)
  BY <1>n, <1>13, wokenMoves DEF woken
<1>14. CASE got(w)
  <2>1. status' = status /\ (Winding(w)' => Winding(w))
    BY <1>14, gotMoves DEF got, Winding
  <2> QED BY <1>k, <2>1
<1> QED BY <1>3, <1>4, <1>5, <1>6, <1>7, <1>8, <1>9, <1>10, <1>11, <1>12, <1>13, <1>14
        DEF worker

\* A step of ~ThreadPool keeps the worker of a thread active, and the worker of no other.
LEMMA DestructorPaired ==
  ASSUME TypeInv, destructor_step, Paired
  PROVE  Paired'
<1>0. UNCHANGED <<status, _paired_thread, tpc, my, at>> /\ (pc' = pc \/ notify_all)
  BY DestructorFrame
<1>1. \A w \in Workers : Winding(w)' <=> Winding(w)
  BY <1>0, ThreadWinding
<1>2. \A t \in Threads, w \in Workers : Owns(t, w)' <=> Owns(t, w)
  BY <1>0 DEF Owns
<1> QED BY <1>0, <1>1, <1>2 DEF Paired

-----------------------------------------------------------------------------
(* The number of active workers.                                           *)

\* At most one thread is between the choice of a worker and its count.
LEMMA CountingOne ==
  ASSUME PairsAlone
  PROVE  \/ Counting = {} /\ Cardinality(Counting) = 0
         \/ \E t \in Threads : Counting = {t} /\ Cardinality(Counting) = 1
<1>1. CASE Counting = {}
  BY <1>1, FS_EmptySet
<1>2. ASSUME NEW t \in Counting
      PROVE  t \in Threads /\ Counting = {t} /\ Cardinality(Counting) = 1
  <2>1. t \in Threads /\ tpc[t] = "count"
    BY <1>2 DEF Counting
  <2>2. \A u \in Counting : u = t
    BY <2>1 DEF PairsAlone, Counting
  <2>3. Counting = {t}
    BY <1>2, <2>2
  <2> QED BY <2>1, <2>3, FS_Singleton
<1> QED BY <1>1, <1>2

\* A step of a submitting thread keeps what _active_td_size counts.
LEMMA ThreadCounts ==
  ASSUME TypeInv, NEW t \in Threads, thread(t), PairsAlone, PairsAlone', Paired, ActiveCounted,
         \A u \in Threads : Placed(u)
  PROVE  ActiveCounted'
<1>c. /\ Cardinality(Up) \in Nat /\ Cardinality(Uncounting) \in Nat
      /\ Cardinality(Counting) \in Nat /\ _active_td_size \in Int
  <2>1. Up \in SUBSET Workers /\ Uncounting \in SUBSET Workers
    BY DEF Up, Uncounting
  <2>2. Cardinality(Counting) \in Nat
    BY SMT, CountingOne
  <2> QED BY <2>1, <2>2, CountsNat DEF TypeInv
<1>u. \A u \in Threads \ {t} : tpc'[u] = tpc[u]
  BY ThreadFrame DEF SameThread
<1>p. Uncounting' = Uncounting
  <2>1. \A w \in Workers : pc'[w] = "uncount" <=> pc[w] = "uncount"
    BY ThreadFrame, NotifyMoves
  <2> QED BY <2>1 DEF Uncounting
<1>n. ASSUME tpc[t] # "count", tpc'[t] # "count", status' = status,
             _active_td_size' = _active_td_size
      PROVE  ActiveCounted'
  <2>1. Up' = Up /\ Counting' = Counting
    BY <1>u, <1>n DEF Up, Counting
  <2> QED BY <1>p, <1>n, <2>1 DEF ActiveCounted
<1> USE DEF pool
<1>1. CASE submit(t)
  BY <1>n, <1>1, submitMoves DEF submit
<1>2. CASE getActiveThread_lock(t)
  BY <1>n, <1>2, lockMoves DEF getActiveThread_lock
<1>3. CASE getActiveThread_scan(t)
  <2>0. tpc[t] = "scan" /\ _active_td_size' = _active_td_size
    BY <1>3, scanMoves DEF getActiveThread_scan
  <2>1. CASE tpc'[t] \in {"run", "scan"} /\ status' = status
    BY <1>n, <2>0, <2>1
  <2>2. CASE /\ tpc'[t] = "count" /\ my[t].i \in Workers /\ status[my[t].i] = "STANDBY"
             /\ status' = [status EXCEPT ![my[t].i] = "ACTIVE"]
    <3>1. \A w \in Workers : status'[w] = IF w = my[t].i THEN "ACTIVE" ELSE status[w]
      BY <2>2 DEF TypeInv
    <3>2. Up' = Up \cup {my[t].i} /\ my[t].i \notin Up
      <4>1. \A w \in Workers : w \in Up' <=> w \in Up \/ w = my[t].i
        BY <3>1 DEF Up
      <4>2. Up' \subseteq Workers /\ Up \subseteq Workers /\ my[t].i \notin Up
        BY <2>2 DEF Up
      <4> HIDE DEF Up
      <4> QED BY <2>2, <4>1, <4>2
    <3>3. Cardinality(Up') = Cardinality(Up) + 1
      BY <2>2, <3>2, OneMore DEF Up
    <3>4. Counting' = {t} /\ Counting = {}
      <4>1. \A u \in Threads : tpc[u] # "count"
        BY <2>0 DEF PairsAlone
      <4> QED BY <1>u, <2>2, <4>1 DEF Counting
    <3>5. Cardinality(Counting) = 0 /\ Cardinality(Counting') = 1
      BY <3>4, FS_EmptySet, FS_Singleton
    <3> QED BY SMTT(30), <1>c, <1>p, <2>0, <3>3, <3>5 DEF ActiveCounted
  <2> QED BY <1>3, <2>1, <2>2, scanMoves
<1>4. CASE getActiveThread_pair(t)
  <2>1. /\ tpc[t] = "count" /\ tpc'[t] = "push" /\ status' = status
        /\ _active_td_size' = _active_td_size + 1
    BY <1>4, pairMoves DEF getActiveThread_pair
  <2>2. Counting = {t} /\ Counting' = {} /\ Up' = Up
    <3>1. \A u \in Threads : tpc[u] = "count" => u = t
      BY <2>1 DEF PairsAlone
    <3> QED BY <1>u, <2>1, <3>1 DEF Counting, Up
  <2>3. Cardinality(Counting) = 1 /\ Cardinality(Counting') = 0
    BY <2>2, FS_EmptySet, FS_Singleton
  <2> QED BY SMTT(30), <1>c, <1>p, <2>1, <2>2, <2>3 DEF ActiveCounted
<1>5. CASE push(t)
  BY <1>n, <1>5, pushMoves DEF push
<1>6. CASE push_publish(t)
  BY <1>n, <1>6, publishMoves DEF push_publish
<1>7. CASE push_delayed(t)
  BY <1>n, <1>7, delayedMoves DEF push_delayed
<1>8. CASE submit_run(t)
  BY <1>n, <1>8, runMoves DEF submit_run
<1>9. CASE submit_load(t)
  BY <1>n, <1>9, loadMoves DEF submit_load
<1>10. CASE submit_notify(t)
  BY <1>n, <1>10, notifyMoves DEF submit_notify
<1>11. CASE thread_exit(t)
  BY <1>n, <1>11, exitMoves DEF thread_exit
<1>12. CASE deleteThreadLocalPairThread(t)
  BY <1>n, <1>12, deleteMoves DEF deleteThreadLocalPairThread
<1>13. CASE deleteThreadLocalPairThread_cas(t)
  <2>0. /\ tpc[t] \in {"exit_cas", "exit_again"} /\ tpc'[t] \in {"exit_again", "ended"}
        /\ _active_td_size' = _active_td_size
    BY <1>13, casMoves DEF deleteThreadLocalPairThread_cas
  <2>1. CASE status' = status
    BY <1>n, <2>0, <2>1
  <2>2. CASE /\ status[my[t].td] = my[t].status
             /\ status' = [status EXCEPT ![my[t].td] = "INACTIVE"]
    <3>1. my[t].td \in Workers /\ status[my[t].td] = "ACTIVE"
      BY <2>0, <2>2 DEF Placed, Paired
    <3>2. \A w \in Workers : status'[w] = IF w = my[t].td THEN "INACTIVE" ELSE status[w]
      BY <2>2 DEF TypeInv
    <3>3. Up' = Up
      <4>1. \A w \in Workers : w \in Up' <=> w \in Up
        BY <3>1, <3>2 DEF Up
      <4>2. Up' \subseteq Workers /\ Up \subseteq Workers
        BY DEF Up
      <4> QED BY <4>1, <4>2
    <3>4. Counting' = Counting
      BY <1>u, <2>0 DEF Counting
    <3> QED BY <1>p, <2>0, <3>3, <3>4 DEF ActiveCounted
  <2> QED BY <1>13, <2>1, <2>2, casMoves
<1> QED BY <1>1, <1>2, <1>3, <1>4, <1>5, <1>6, <1>7, <1>8, <1>9, <1>10, <1>11, <1>12,
        <1>13 DEF thread

\* A step of a worker's loop keeps what _active_td_size counts.
LEMMA WorkerCounts ==
  ASSUME TypeInv, NEW w \in Workers, worker(w), PairsAlone, Paired, ActiveCounted
  PROVE  ActiveCounted'
<1>0. UNCHANGED tpc /\ \A v \in Workers \ {w} : pc'[v] = pc[v]
  BY WorkerFrame DEF SameWorker
<1>t. Counting' = Counting
  BY <1>0 DEF Counting
<1>s. Up \in SUBSET Workers /\ Up' \in SUBSET Workers /\ Uncounting \in SUBSET Workers
      /\ Uncounting' \in SUBSET Workers
  BY DEF Up, Uncounting
<1>c. /\ Cardinality(Up) \in Nat /\ Cardinality(Uncounting) \in Nat
      /\ Cardinality(Up') \in Nat /\ Cardinality(Uncounting') \in Nat
      /\ Cardinality(Counting) \in Nat /\ _active_td_size \in Int
  <2>2. Cardinality(Counting) \in Nat
    BY SMT, CountingOne
  <2> QED BY <1>s, <2>2, CountsNat DEF TypeInv
<1>n. ASSUME pc[w] # "uncount", pc'[w] # "uncount", status' = status,
             _active_td_size' = _active_td_size
      PROVE  ActiveCounted'
  <2>1. Up' = Up /\ Uncounting' = Uncounting
    BY <1>0, <1>n DEF Up, Uncounting
  <2> QED BY <1>t, <1>n, <2>1 DEF ActiveCounted
<1> USE DEF pool
<1>1. CASE loop_top(w)
  BY <1>n, <1>1, topMoves DEF loop_top
<1>2. CASE pop_copy(w)
  BY <1>n, <1>2, copyMoves DEF pop_copy
<1>3. CASE pop_cas(w)
  BY <1>n, <1>3, popMoves DEF pop_cas
<1>4. CASE run(w)
  BY <1>n, <1>4, taskMoves DEF run
<1>5. CASE standby(w)
  <2>1. /\ pc[w] = "standby" /\ pc'[w] = "uncount" /\ _active_td_size' = _active_td_size
        /\ status' = [status EXCEPT ![w] = "STANDBY"]
    BY <1>5, standbyMoves DEF standby
  <2>2. status[w] = "INACTIVE"
    BY <2>1 DEF Paired, Winding
  <2>3. \A v \in Workers : status'[v] = IF v = w THEN "STANDBY" ELSE status[v]
    BY <2>1 DEF TypeInv
  <2> DEFINE S == Up'
  <2>4. Up = S \cup {w} /\ w \notin S /\ S \in SUBSET Workers
    BY <2>2, <2>3 DEF Up
  <2>5. Uncounting' = Uncounting \cup {w} /\ w \notin Uncounting
    BY <1>0, <2>1 DEF Uncounting
  <2>6. Cardinality(Uncounting') = Cardinality(Uncounting) + 1
    BY <1>s, <2>5, OneMore
  <2>7. Cardinality(Up) = Cardinality(S) + 1
    <3> HIDE DEF S
    <3> QED BY <2>4, OneMore
  <2>8. Cardinality(Up) = Cardinality(Up') + 1
    BY <2>7
  <2> QED BY SMTT(30), <1>c, <1>t, <2>1, <2>6, <2>8 DEF ActiveCounted
<1>6. CASE uncount(w)
  <2>1. /\ pc[w] = "uncount" /\ pc'[w] = "steal" /\ _active_td_size' = _active_td_size - 1
        /\ status' = status
    BY <1>6, uncountMoves DEF uncount
  <2> DEFINE S == Uncounting'
  <2>2. Up' = Up /\ Uncounting = S \cup {w} /\ w \notin S /\ S \in SUBSET Workers
    BY <1>0, <2>1 DEF Up, Uncounting
  <2>3. Cardinality(Uncounting) = Cardinality(S) + 1
    <3> HIDE DEF S
    <3> QED BY <2>2, OneMore
  <2>4. Cardinality(Uncounting) = Cardinality(Uncounting') + 1
    BY <2>3
  <2> QED BY SMTT(30), <1>c, <1>t, <2>1, <2>2, <2>4 DEF ActiveCounted
<1>7. CASE tryStealOne(w)
  BY <1>n, <1>7, stealMoves DEF tryStealOne
<1>8. CASE scan(w)
  BY <1>n, <1>8, turnMoves DEF scan
<1>9. CASE sleep(w)
  BY <1>n, <1>9, sleepMoves DEF sleep
<1>10. CASE predicate(w)
  BY <1>n, <1>10, predicateMoves DEF predicate
<1>11. CASE woken(w)
  BY <1>n, <1>11, wokenMoves DEF woken
<1>12. CASE got(w)
  BY <1>n, <1>12, gotMoves DEF got
<1> QED BY <1>1, <1>2, <1>3, <1>4, <1>5, <1>6, <1>7, <1>8, <1>9, <1>10, <1>11, <1>12
        DEF worker

-----------------------------------------------------------------------------
(* The end of the workers.                                                 *)

\* A notification ends no worker.
LEMMA NotifyEnded ==
  ASSUME Ended, pc' = pc \/ notify_all, _exit => _exit'
  PROVE  Ended'
  BY NotifyMoves DEF Ended

\* A step of a worker's loop ends no worker before _exit.
LEMMA WorkerEnded ==
  ASSUME TypeInv, Ended, NEW w \in Workers, worker(w)
  PROVE  Ended'
<1>0. _exit' = _exit /\ \A v \in Workers \ {w} : pc'[v] = pc[v]
  BY WorkerFrame DEF SameWorker
<1> SUFFICES pc'[w] = "end" => _exit
  BY <1>0 DEF Ended
<1>1. CASE loop_top(w)
  BY <1>1, Jump DEF loop_top
<1>2. CASE pop_copy(w)
  BY <1>2, copyMoves
<1>3. CASE pop_cas(w)
  BY <1>3, popMoves
<1>4. CASE run(w)
  BY <1>4, taskMoves
<1>5. CASE standby(w)
  BY <1>5, standbyMoves
<1>6. CASE uncount(w)
  BY <1>6, uncountMoves
<1>7. CASE tryStealOne(w)
  BY <1>7, stealMoves
<1>8. CASE scan(w)
  BY <1>8, turnMoves
<1>9. CASE sleep(w)
  BY <1>9, sleepMoves
<1>10. CASE predicate(w)
  BY <1>10, predicateMoves
<1>11. CASE woken(w)
  BY <1>11, wokenMoves
<1>12. CASE got(w)
  BY <1>12, gotMoves
<1> QED BY <1>1, <1>2, <1>3, <1>4, <1>5, <1>6, <1>7, <1>8, <1>9, <1>10, <1>11, <1>12
        DEF worker

\* A thread that looks for a worker finds nothing deleted, and one that ends
\* deactivates a worker that was its own.
LEMMA ThreadLeft ==
  ASSUME TypeInv, NEW t \in Threads, thread(t), Placed(t), Paired, Closing, Left
  PROVE  Left'
<1>0. deleted' = deleted /\ deleted \subseteq Workers
  BY ThreadFrame DEF TypeInv
<1>1. CASE getActiveThread_scan(t)
  <2>1. tpc[t] = "scan"
    BY <1>1, scanMoves
  <2>2. ~_exit
    BY <2>1 DEF Closing, Ending
  <2>3. deleted = {}
    BY <2>2 DEF Closing, TypeInv
  <2> QED BY <1>0, <2>3 DEF Left
<1>2. CASE deleteThreadLocalPairThread_cas(t)
  <2>1. CASE status' = status
    BY <1>0, <2>1 DEF Left
  <2>2. CASE /\ status[my[t].td] = my[t].status
             /\ status' = [status EXCEPT ![my[t].td] = "INACTIVE"]
    <3>1. my[t].td \in Workers /\ status[my[t].td] = "ACTIVE"
      BY <1>2, <2>2, casMoves DEF Placed, Paired
    <3>2. my[t].td \notin deleted
      BY <3>1 DEF Left
    <3>3. \A w \in Workers \ {my[t].td} : status'[w] = status[w]
      BY <2>2 DEF TypeInv
    <3> QED BY <1>0, <3>2, <3>3 DEF Left
  <2> QED BY <1>2, <2>1, <2>2, casMoves
<1>3. status' = status \/ getActiveThread_scan(t) \/ deleteThreadLocalPairThread_cas(t)
  BY DEF thread, submit, getActiveThread_lock, getActiveThread_pair, push, push_publish,
     push_delayed, submit_run, submit_load, submit_notify, thread_exit,
     deleteThreadLocalPairThread, pool
<1> QED BY <1>0, <1>1, <1>2, <1>3 DEF Left

\* A step of a worker's loop leaves only workers that stand by deleted.
LEMMA WorkerLeft ==
  ASSUME TypeInv, NEW w \in Workers, worker(w), Left
  PROVE  Left'
<1>0. deleted' = deleted /\ deleted \subseteq Workers
  BY WorkerFrame DEF TypeInv
<1>1. status' = status \/ status' = [status EXCEPT ![w] = "STANDBY"]
  BY DEF worker, loop_top, pop_copy, pop_cas, run, standby, uncount, tryStealOne, scan, sleep,
     predicate, woken, got, pool
<1>2. \A v \in Workers : status'[v] = status[v] \/ status'[v] = "STANDBY"
  BY <1>1 DEF TypeInv
<1> QED BY <1>0, <1>2 DEF Left

\* A step of ~ThreadPool leaves only workers that stand by deleted.
LEMMA DestructorLeft ==
  ASSUME destructor_step, Left
  PROVE  Left'
<1>1. status' = status
  BY DestructorFrame
<1>2. \A w \in deleted' : w \in deleted \/ status[w] = "STANDBY"
  BY DEF destructor_step, destruct, destruct_notify, destruct_delete
<1> QED BY <1>1, <1>2 DEF Left

-----------------------------------------------------------------------------
(* The queues.                                                             *)

\* Two threads that push have two queues.
LEMMA PushesAlone ==
  ASSUME TypeInv, Paired, \A u \in Threads : Placed(u), NEW t \in Threads, NEW u \in Threads,
         tpc[t] \in {"push", "publish", "published_late"},
         tpc[u] \in {"push", "publish", "published_late"}, u # t
  PROVE  my[u].td # my[t].td
<1>1. /\ _paired_thread[t] = my[t].td /\ my[t].td \in Workers
      /\ _paired_thread[u] = my[u].td
  BY DEF Placed
<1> SUFFICES ASSUME my[u].td = my[t].td PROVE FALSE
  OBVIOUS
<1>2. Owns(t, my[t].td) /\ Owns(u, my[t].td)
  BY <1>1 DEF Owns
<1> QED BY <1>1, <1>2 DEF Paired

\* A step that touches no queue and enters no compare-and-swap keeps Queues.
LEMMA QueuesSame ==
  ASSUME Queues, UNCHANGED <<_buffer, _read_idx, _write_idx>>,
         \A w \in Workers : pc'[w] = "cas" => pc[w] = "cas" /\ at'[w] = at[w],
         \A t \in Threads : tpc'[t] \in {"publish", "published_late"} =>
           tpc[t] \in {"publish", "published_late"} /\ my'[t] = my[t]
  PROVE  Queues'
<1>1. ASSUME NEW w \in Workers PROVE Ring(w)'
  BY DEF Queues, Ring
<1>2. ASSUME NEW w \in Workers PROVE Copied(w)'
  <2> SUFFICES ASSUME pc'[w] = "cas" PROVE Copied(w)'
    BY DEF Copied
  <2>1. pc[w] = "cas" /\ at'[w] = at[w]
    OBVIOUS
  <2>2. queue(w)' = queue(w) /\ \A q : Empty(q)' = Empty(q)
    BY <2>1 DEF queue, Empty
  <2>3. Copied(w)
    BY DEF Queues
  <2> QED BY <2>1, <2>2, <2>3 DEF Copied
<1>3. ASSUME NEW t \in Threads PROVE Filled(t)'
  BY DEF Queues, Filled
<1> QED BY <1>1, <1>2, <1>3 DEF Queues

\* A step of a submitting thread keeps every ring buffer between its indices.
LEMMA ThreadQueues ==
  ASSUME TypeInv, NEW t \in Threads, thread(t), \A u \in Threads : Placed(u),
         \A w \in Workers : Posted(w), Paired, Queues
  PROVE  Queues'
<1>0. /\ \A u \in Threads \ {t} : tpc'[u] = tpc[u] /\ my'[u] = my[u]
      /\ at' = at /\ _read_idx' = _read_idx
  BY ThreadFrame DEF SameThread
<1>c. \A w \in Workers : pc'[w] = "cas" => pc[w] = "cas" /\ at'[w] = at[w]
  BY <1>0, ThreadFrame, NotifyMoves
<1>n. ASSUME tpc'[t] \in {"publish", "published_late"} =>
               tpc[t] \in {"publish", "published_late"} /\ my'[t] = my[t],
             UNCHANGED <<_buffer, _read_idx, _write_idx>>
      PROVE  Queues'
  <2>1. \A u \in Threads : tpc'[u] \in {"publish", "published_late"} =>
           tpc[u] \in {"publish", "published_late"} /\ my'[u] = my[u]
    BY <1>0, <1>n
  <2> QED BY <1>c, <1>n, <2>1, QueuesSame
<1> DEFINE w == my[t].td
           x == _write_idx[w]
           r == _read_idx[w]
<1>p. ASSUME tpc[t] \in {"push", "publish", "published_late"}
      PROVE  /\ w \in Workers /\ x \in Nat /\ r \in Nat /\ r <= x /\ x <= r + _queue_size
             /\ \A u \in Threads \ {t} : tpc[u] \in {"publish", "published_late"} => my[u].td # w
             /\ \A u \in Threads : tpc[u] \in {"publish", "published_late"} => my[u].td \in Workers
  <2>1. w \in Workers
    BY <1>p DEF Placed
  <2>2. Ring(w) /\ x \in Nat /\ r \in Nat
    BY <2>1 DEF Queues, TypeInv
  <2>3. \A u \in Threads \ {t} : tpc[u] \in {"publish", "published_late"} => my[u].td # w
    BY <1>p, PushesAlone
  <2> QED BY <2>1, <2>2, <2>3 DEF Ring, Placed
<1> HIDE DEF w, x, r
<1> USE DEF queues
<1>1. CASE submit(t)
  BY <1>n, <1>1, submitMoves DEF submit
<1>2. CASE getActiveThread_lock(t)
  BY <1>n, <1>2, lockMoves DEF getActiveThread_lock
<1>3. CASE getActiveThread_scan(t)
  BY <1>n, <1>3, scanMoves DEF getActiveThread_scan
<1>4. CASE getActiveThread_pair(t)
  BY <1>n, <1>4, pairMoves DEF getActiveThread_pair
<1>5. CASE push(t)
  <2>0. tpc[t] = "push" /\ my'[t] = my[t] /\ _write_idx' = _write_idx
    BY <1>5, pushMoves DEF push, Keeps
  <2>1. CASE tpc'[t] = "run" /\ UNCHANGED _buffer
    BY <1>0, <1>n, <2>0, <2>1
  <2>2. CASE /\ tpc'[t] = "publish" /\ ~full(my[t].td)
             /\ _buffer' = [_buffer EXCEPT
                  ![my[t].td][_write_idx[my[t].td] % _queue_size] = my[t].task]
    <3>1. /\ w \in Workers /\ x \in Nat /\ r \in Nat /\ r <= x /\ x < r + _queue_size
          /\ \A u \in Threads \ {t} : tpc[u] \in {"publish", "published_late"} => my[u].td # w
      <4>1. ~(x >= r + _queue_size)
        BY <2>2 DEF full, w, x, r
      <4>2. w \in Workers /\ x \in Nat /\ r \in Nat /\ r <= x /\ x <= r + _queue_size
        BY <1>p, <2>0
      <4>3. x < r + _queue_size
        BY <4>1, <4>2, RingSteps, WorkersFacts
      <4> QED BY <1>p, <2>0, <4>2, <4>3
    <3>2. \A v \in Workers : v # w => _buffer'[v] = _buffer[v]
      BY <2>2, <3>1 DEF TypeInv, w
    <3>3. /\ _buffer'[w][x % _queue_size] = my[t].task
          /\ \A s \in 0..(_queue_size - 1) : s # x % _queue_size =>
               _buffer'[w][s] = _buffer[w][s]
      <4>1. _buffer'[w] = [_buffer[w] EXCEPT ![x % _queue_size] = my[t].task]
        BY <2>2, <3>1 DEF TypeInv, w, x
      <4>2. _buffer[w] \in [0..(_queue_size - 1) -> 0..MaxTasks]
        BY <3>1 DEF TypeInv
      <4>3. x % _queue_size \in 0..(_queue_size - 1)
        BY <3>1, SlotInRange
      <4> QED BY <4>1, <4>2, <4>3
    <3>4. ASSUME NEW v \in Workers PROVE Ring(v)'
      BY <1>0, <2>0 DEF Queues, Ring
    <3>5. ASSUME NEW v \in Workers, pc'[v] = "cas" PROVE Copied(v)'
      <4> DEFINE q == queue(v)
      <4>0. /\ pc[v] = "cas" /\ at'[v] = at[v]
        BY <1>c, <3>5
      <4>1. /\ queue(v)' = q /\ at[v].read <= _read_idx[q]
            /\ at[v].read = _read_idx[q] =>
                 ~Empty(q) /\ at[v].task = _buffer[q][_read_idx[q] % _queue_size]
        BY <4>0 DEF Queues, Copied, queue
      <4> HIDE DEF q
      <4>2. ASSUME at[v].read = _read_idx[q], q \in Workers
            PROVE  _buffer'[q][_read_idx[q] % _queue_size] = _buffer[q][_read_idx[q] % _queue_size]
        <5>1. CASE q = w
          <6>1. r # x
            BY <4>1, <4>2, <5>1 DEF Empty, r, x
          <6>2. r < x
            BY <3>1, <6>1, <1>p, <2>0, RingSteps, WorkersFacts
          <6>3. r % _queue_size # x % _queue_size /\ r % _queue_size \in 0..(_queue_size - 1)
            BY <3>1, <6>2, SlotsApart, SlotInRange
          <6> QED BY <3>3, <5>1, <6>3 DEF r
        <5> QED BY <3>2, <4>2, <5>1
      <4>3. q \in Workers
        BY <4>0 DEF Posted, q
      <4> QED BY <1>0, <2>0, <4>0, <4>1, <4>2, <4>3 DEF Copied, Empty
    <3>6. ASSUME NEW u \in Threads PROVE Filled(u)'
      <4>1. CASE u = t
        BY <1>0, <2>0, <3>1, <3>3, <4>1 DEF Filled, w, x, r
      <4>2. CASE u # t
        <5>1. tpc[u] \in {"publish", "published_late"} =>
                _buffer'[my[u].td] = _buffer[my[u].td]
          BY <1>p, <2>0, <3>1, <3>2, <4>2
        <5> QED BY <1>0, <2>0, <4>2, <5>1 DEF Queues, Filled
      <4> QED BY <4>1, <4>2
    <3>7. ASSUME NEW v \in Workers PROVE Copied(v)'
      BY <3>5 DEF Copied
    <3> QED BY <3>4, <3>6, <3>7 DEF Queues
  <2> QED BY <1>5, <2>1, <2>2, pushMoves
<1>6. CASE push_publish(t)
  <2>0. /\ tpc[t] \in {"publish", "published_late"} /\ tpc'[t] \notin {"publish", "published_late"}
        /\ _buffer' = _buffer /\ _write_idx' = [_write_idx EXCEPT ![w] = @ + 1]
    BY <1>6, publishMoves DEF push_publish, w
  <2>1. /\ w \in Workers /\ x \in Nat /\ r \in Nat /\ r <= x /\ x < r + _queue_size
        /\ \A u \in Threads \ {t} : tpc[u] \in {"publish", "published_late"} => my[u].td # w
    <3>1. x < r + _queue_size
      BY <2>0 DEF Queues, Filled, x, r, w
    <3> QED BY <1>p, <2>0, <3>1
  <2>2. _write_idx'[w] = x + 1 /\ \A v \in Workers : v # w => _write_idx'[v] = _write_idx[v]
    BY <2>0, <2>1 DEF TypeInv, x
  <2>3. r <= x + 1 /\ x + 1 <= r + _queue_size /\ r # x + 1
    BY <1>p, <2>0, <2>1, RingSteps, WorkersFacts
  <2>4. ASSUME NEW v \in Workers PROVE Ring(v)'
    <3>1. CASE v = w
      BY <1>0, <2>2, <2>3, <3>1 DEF Ring, r
    <3>2. CASE v # w
      BY <1>0, <2>2, <3>2 DEF Ring, Queues
    <3> QED BY <3>1, <3>2
  <2>5. ASSUME NEW v \in Workers PROVE Copied(v)'
    <3> SUFFICES ASSUME pc'[v] = "cas" PROVE Copied(v)'
      BY DEF Copied
    <3>0. pc[v] = "cas" /\ at'[v] = at[v] /\ queue(v)' = queue(v) /\ queue(v) \in Workers
      BY <1>c DEF Posted, queue
    <3>1. ~Empty(queue(v)) => ~Empty(queue(v))'
      BY <1>0, <2>2, <2>3, <3>0 DEF Empty, r
    <3> QED BY <1>0, <2>0, <3>0, <3>1 DEF Queues, Copied
  <2>6. ASSUME NEW u \in Threads PROVE Filled(u)'
    <3>1. CASE u = t
      BY <2>0, <3>1 DEF Filled
    <3>2. CASE u # t
      <4>1. tpc[u] \in {"publish", "published_late"} => _write_idx'[my[u].td] = _write_idx[my[u].td]
        BY <1>p, <2>0, <2>1, <2>2, <3>2
      <4> QED BY ZenonT(40), <1>0, <2>0, <3>2, <4>1 DEF Queues, Filled
    <3> QED BY <3>1, <3>2
  <2> QED BY <2>4, <2>5, <2>6 DEF Queues
<1>7. CASE push_delayed(t)
  BY <1>n, <1>7, delayedMoves DEF push_delayed, Keeps
<1>8. CASE submit_run(t)
  BY <1>n, <1>8, runMoves DEF submit_run
<1>9. CASE submit_load(t)
  BY <1>n, <1>9, loadMoves DEF submit_load
<1>10. CASE submit_notify(t)
  BY <1>n, <1>10, notifyMoves DEF submit_notify
<1>11. CASE thread_exit(t)
  BY <1>n, <1>11, exitMoves DEF thread_exit
<1>12. CASE deleteThreadLocalPairThread(t)
  BY <1>n, <1>12, deleteMoves DEF deleteThreadLocalPairThread
<1>13. CASE deleteThreadLocalPairThread_cas(t)
  BY <1>n, <1>13, casMoves DEF deleteThreadLocalPairThread_cas
<1> QED BY <1>1, <1>2, <1>3, <1>4, <1>5, <1>6, <1>7, <1>8, <1>9, <1>10, <1>11, <1>12,
        <1>13 DEF thread

\* A step of a worker's loop keeps every ring buffer between its indices.
LEMMA WorkerQueues ==
  ASSUME TypeInv, NEW w \in Workers, worker(w), Posted(w), Queues,
         \A u \in Threads : Placed(u), \A v \in Workers : Posted(v)
  PROVE  Queues'
<1>0. /\ UNCHANGED <<tpc, my, _buffer, _write_idx>>
      /\ \A v \in Workers \ {w} : pc'[v] = pc[v] /\ at'[v] = at[v]
  BY WorkerFrame DEF SameWorker
<1>n. ASSUME _read_idx' = _read_idx, pc'[w] # "cas" PROVE Queues'
  <2>1. \A v \in Workers : pc'[v] = "cas" => pc[v] = "cas" /\ at'[v] = at[v]
    BY <1>0, <1>n
  <2> QED BY <1>0, <1>n, <2>1, QueuesSame
<1> USE DEF queues
<1>1. CASE loop_top(w)
  BY <1>n, <1>1, topMoves DEF loop_top
<1>2. CASE pop_copy(w)
  <2>0. _read_idx' = _read_idx
    BY <1>2 DEF pop_copy
  <2>1. CASE pc'[w] # "cas"
    BY <1>n, <2>0, <2>1
  <2>2. CASE /\ ~Empty(queue(w)) /\ SameTurn(w) /\ at'[w].read = _read_idx[queue(w)]
             /\ at'[w].task = _buffer[queue(w)][_read_idx[queue(w)] % _queue_size]
    <3>1. queue(w)' = queue(w) /\ queue(w) \in Workers
      BY <1>2, <2>2, copyMoves, SameTurnQueue DEF Posted
    <3>2. _read_idx[queue(w)] <= _read_idx[queue(w)]
      <4>1. _read_idx[queue(w)] \in Nat
        BY <3>1 DEF TypeInv
      <4>2. \A n \in Nat : n <= n
        BY SMT
      <4> QED BY <4>1, <4>2
    <3>3. Copied(w)'
      BY <1>0, <2>0, <2>2, <3>1, <3>2 DEF Copied, Empty
    <3>4. ASSUME NEW v \in Workers \ {w} PROVE Copied(v)'
      <4>1. Copied(v) /\ queue(v)' = queue(v)
        BY <1>0 DEF Queues, queue
      <4> QED BY <1>0, <2>0, <4>1 DEF Copied, Empty
    <3>5. ASSUME NEW t \in Threads PROVE Filled(t)'
      BY <1>0, <2>0 DEF Queues, Filled
    <3>6. ASSUME NEW v \in Workers PROVE Ring(v)'
      BY <1>0, <2>0 DEF Queues, Ring
    <3> QED BY <3>3, <3>4, <3>5, <3>6 DEF Queues
  <2> QED BY <1>2, <2>1, <2>2, copyMoves
<1>3. CASE pop_cas(w)
  <2>0. pc[w] = "cas" /\ pc'[w] # "cas" /\ queue(w) \in Workers
    BY <1>3, popMoves DEF Posted
  <2>1. CASE _read_idx' = _read_idx
    BY <1>n, <2>0, <2>1
  <2>2. CASE /\ _read_idx[queue(w)] = at[w].read
             /\ _read_idx' = [_read_idx EXCEPT ![queue(w)] = @ + 1]
    <3> DEFINE q == queue(w)
               r == _read_idx[q]
               x == _write_idx[q]
    <3>1. /\ r \in Nat /\ x \in Nat /\ r <= x /\ x <= r + _queue_size /\ r # x
      BY <2>0, <2>2 DEF TypeInv, Queues, Ring, Copied, Empty
    <3>2. /\ _read_idx'[q] = r + 1 /\ q \in Workers
          /\ \A v \in Workers : v # q => _read_idx'[v] = _read_idx[v]
      BY <2>0, <2>2 DEF TypeInv
    <3>3. ASSUME NEW v \in Workers PROVE Ring(v)'
      <4>1. CASE v = q
        <5>1. r + 1 <= x /\ x <= (r + 1) + _queue_size
          BY <3>1, RingSteps, WorkersFacts
        <5> QED BY <1>0, <3>2, <4>1, <5>1 DEF Ring
      <4>2. CASE v # q
        BY <1>0, <3>2, <4>2 DEF Ring, Queues
      <4> QED BY <4>1, <4>2
    <3>4. ASSUME NEW v \in Workers, pc'[v] = "cas" PROVE Copied(v)'
      <4>0. v # w /\ pc[v] = "cas" /\ at'[v] = at[v]
        BY <1>0, <2>0, <3>4
      <4>1. /\ Copied(v) /\ queue(v)' = queue(v) /\ queue(v) \in Workers
            /\ at[v].read \in Nat
        BY <4>0, AtFields DEF Queues, Posted, queue
      <4>2. CASE queue(v) = q
        <5>1. at[v].read <= r
          BY <4>0, <4>1, <4>2 DEF Copied
        <5>2. at[v].read <= r + 1 /\ at[v].read # r + 1
          BY ZenonT(40), <3>1, <4>1, <5>1, RingSteps, WorkersFacts
        <5> QED BY <3>2, <4>0, <4>1, <4>2, <5>2 DEF Copied
      <4>3. CASE queue(v) # q
        BY <1>0, <3>2, <4>0, <4>1, <4>3 DEF Copied, Empty
      <4> QED BY <4>2, <4>3
    <3>5. ASSUME NEW t \in Threads, tpc[t] \in {"publish", "published_late"} PROVE Filled(t)'
      <4>1. Filled(t) /\ my[t].td \in Workers
        BY <3>5 DEF Queues, Placed
      <4>2. CASE my[t].td = q
        <5>1. x < r + _queue_size
          BY <3>5, <4>1, <4>2 DEF Filled
        <5>2. x < (r + 1) + _queue_size
          BY <3>1, <5>1, RingSteps, WorkersFacts
        <5> QED BY <1>0, <3>2, <3>5, <4>1, <4>2, <5>2 DEF Filled
      <4>3. CASE my[t].td # q
        BY <1>0, <3>2, <4>1, <4>3 DEF Filled
      <4> QED BY <4>2, <4>3
    <3>6. \A v \in Workers : Copied(v)'
      BY <3>4 DEF Copied
    <3>7. \A t \in Threads : Filled(t)'
      BY <1>0, <3>5 DEF Filled
    <3> QED BY <3>3, <3>6, <3>7 DEF Queues
  <2> QED BY <1>3, <2>1, <2>2, popMoves
<1>4. CASE run(w)
  BY <1>n, <1>4, taskMoves DEF run
<1>5. CASE standby(w)
  BY <1>n, <1>5, standbyMoves DEF standby
<1>6. CASE uncount(w)
  BY <1>n, <1>6, uncountMoves DEF uncount
<1>7. CASE tryStealOne(w)
  BY <1>n, <1>7, stealMoves DEF tryStealOne
<1>8. CASE scan(w)
  BY <1>n, <1>8, turnMoves DEF scan
<1>9. CASE sleep(w)
  BY <1>n, <1>9, sleepMoves DEF sleep
<1>10. CASE predicate(w)
  BY <1>n, <1>10, predicateMoves DEF predicate
<1>11. CASE woken(w)
  BY <1>n, <1>11, wokenMoves DEF woken
<1>12. CASE got(w)
  BY <1>n, <1>12, gotMoves DEF got
<1> QED BY <1>1, <1>2, <1>3, <1>4, <1>5, <1>6, <1>7, <1>8, <1>9, <1>10, <1>11, <1>12
        DEF worker

\* A step of ~ThreadPool keeps every ring buffer between its indices.
LEMMA DestructorQueues ==
  ASSUME TypeInv, destructor_step, Queues
  PROVE  Queues'
<1>0. /\ UNCHANGED <<_buffer, _read_idx, _write_idx, tpc, my, at>>
      /\ pc' = pc \/ notify_all
  BY DestructorFrame
<1>1. \A w \in Workers : pc'[w] = "cas" => pc[w] = "cas" /\ at'[w] = at[w]
  BY <1>0, NotifyMoves
<1> QED BY <1>0, <1>1, QueuesSame

-----------------------------------------------------------------------------
(* The invariant.                                                          *)

\* In the constructed pool every thread and every worker is at its start.
LEMMA InitStill ==
  ASSUME Init
  PROVE  /\ \A t \in Threads : tpc[t] = "idle" /\ my[t] = Idle /\ _paired_thread[t] = None
         /\ \A w \in Workers : /\ pc[w] = "top" /\ at[w] = Start /\ status[w] = "STANDBY"
                               /\ _read_idx[w] = 0 /\ _write_idx[w] = 0
         /\ \A k \in Tasks : ran[k] = 0
         /\ ~_exit /\ dpc = "idle" /\ deleted = {} /\ submitted = 0
         /\ _active_td_size = 0 /\ _need_wakeup = 0
  BY DEF Init

\* The constructed pool satisfies the inductive invariant.
LEMMA InitPool == Init => PoolInv
<1> SUFFICES ASSUME Init PROVE PoolInv
  OBVIOUS
<1>0. TypeInv
  BY InitType
<1>1. /\ \A t \in Threads : tpc[t] = "idle" /\ my[t] = Idle /\ _paired_thread[t] = None
      /\ \A w \in Workers : /\ pc[w] = "top" /\ at[w] = Start /\ status[w] = "STANDBY"
                            /\ _read_idx[w] = 0 /\ _write_idx[w] = 0
      /\ ~_exit /\ dpc = "idle" /\ deleted = {} /\ _active_td_size = 0 /\ _need_wakeup = 0
  BY InitStill
<1>2. \A t \in Threads : Placed(t)
  BY <1>1 DEF Placed, Ending
<1>3. \A w \in Workers : Posted(w)
  <2>1. Start.by = "tryConsume"
    BY DEF Start
  <2> QED BY <1>1, <2>1 DEF Posted
<1>4. PairsAlone
  BY <1>1 DEF PairsAlone
<1>5. \A w \in Workers : ~Sleeps(w) /\ ~Locked(w)
  BY <1>1 DEF Sleeps, Locked
<1>6. WaitsAlone
  BY <1>5 DEF WaitsAlone
<1>z. Cardinality({}) = 0
  BY FS_EmptySet
<1>7. Counted
  <2>1. Asleep = {}
    BY <1>5 DEF Asleep
  <2> QED BY <1>1, <1>z, <2>1 DEF Counted
<1>8. Closing /\ Ended /\ Left
  BY <1>1 DEF Closing, Ended, Left
<1>9. Paired
  <2>1. \A t \in Threads, w \in Workers : ~Owns(t, w)
    BY <1>1, WorkersFacts DEF Owns
  <2>2. \A w \in Workers : ~Winding(w)
    BY <1>1 DEF Winding
  <2> QED BY <1>1, <2>1, <2>2 DEF Paired
<1>10. ActiveCounted
  <2>1. Up = {} /\ Uncounting = {} /\ Counting = {}
    BY <1>1 DEF Up, Uncounting, Counting
  <2>2. 0 = 0 + 0 - 0
    BY SMT
  <2> QED BY <1>1, <1>z, <2>1, <2>2 DEF ActiveCounted
<1>11. Queues
  <2>1. 0 <= 0 /\ 0 <= 0 + _queue_size
    BY SMT, PoolAssumption
  <2>2. \A w \in Workers : Ring(w) /\ Copied(w)
    BY <1>1, <2>1 DEF Ring, Copied
  <2>3. \A t \in Threads : Filled(t)
    BY <1>1 DEF Filled
  <2> QED BY <2>2, <2>3 DEF Queues
<1> QED BY <1>0, <1>2, <1>3, <1>4, <1>6, <1>7, <1>8, <1>9, <1>10, <1>11 DEF PoolInv

\* A step of a submitting thread keeps the whole inductive invariant.
LEMMA ThreadPoolInv ==
  ASSUME PoolInv, NEW t \in Threads, thread(t)
  PROVE  PoolInv'
<1>0. /\ TypeInv /\ (\A u \in Threads : Placed(u)) /\ (\A w \in Workers : Posted(w))
      /\ PairsAlone /\ WaitsAlone /\ Counted /\ Closing /\ Ended
  BY DEF PoolInv
<1>f. /\ UNCHANGED <<at, _exit, _need_wakeup, _td_wakeup_mtx>>
      /\ pc' = pc \/ notify_all
  BY <1>0, ThreadFrame
<1>1. TypeInv' /\ \A u \in Threads : Placed(u)'
  BY <1>0, ThreadType, ThreadPlaced
<1>2. \A w \in Workers : Posted(w)'
  BY <1>0, <1>f, NotifyPosted
<1>3. PairsAlone'
  BY <1>0, ThreadPairsAlone
<1>4. WaitsAlone' /\ Counted'
  BY <1>0, <1>f, NotifyLocked
<1>5. Closing' /\ Ended'
  BY <1>0, <1>f, ThreadClosing, NotifyEnded
<1>6. ASSUME ~unpaired'
      PROVE  ~unpaired /\ Paired' /\ ActiveCounted' /\ Left' /\ Queues'
  <2>1. ~unpaired
    BY <1>0, <1>6, UnpairedStays DEF Next
  <2>2. Paired /\ ActiveCounted /\ Left /\ Queues
    BY <2>1 DEF PoolInv
  <2>3. Paired'
    BY <1>0, <1>6, <2>2, ThreadPaired
  <2>4. ActiveCounted'
    BY <1>0, <1>3, <2>2, ThreadCounts
  <2>5. Left'
    BY <1>0, <2>2, ThreadLeft
  <2>6. Queues'
    BY <1>0, <2>2, ThreadQueues
  <2> QED BY <2>1, <2>3, <2>4, <2>5, <2>6
<1> QED BY <1>1, <1>2, <1>3, <1>4, <1>5, <1>6 DEF PoolInv

\* A step of a worker's loop keeps the whole inductive invariant.
LEMMA WorkerPoolInv ==
  ASSUME PoolInv, NEW w \in Workers, worker(w)
  PROVE  PoolInv'
<1>0. /\ TypeInv /\ (\A u \in Threads : Placed(u)) /\ (\A v \in Workers : Posted(v))
      /\ PairsAlone /\ WaitsAlone /\ Counted /\ Closing /\ Ended
  BY DEF PoolInv
<1>f. UNCHANGED <<tpc, my, _paired_thread, _exit, _td_mtx, unpaired, delayed>>
  BY <1>0, WorkerFrame
<1>1. TypeInv'
  BY <1>0, WorkerType
<1>2. \A u \in Threads : Placed(u)'
  BY <1>0, <1>f DEF Placed
<1>3. \A v \in Workers : Posted(v)'
  BY <1>0, WorkerPosted
<1>4. PairsAlone'
  BY <1>0, <1>f DEF PairsAlone
<1>5. WaitsAlone' /\ Counted'
  BY <1>0, WorkerWaitsAlone, WorkerCounted
<1>6. Closing' /\ Ended'
  BY <1>0, WorkerClosing, WorkerEnded
<1>7. ASSUME ~unpaired'
      PROVE  Paired' /\ ActiveCounted' /\ Left' /\ Queues'
  <2>1. Paired /\ ActiveCounted /\ Left /\ Queues
    BY <1>f, <1>7 DEF PoolInv
  <2>2. Paired' /\ ActiveCounted'
    BY <1>0, <2>1, WorkerPaired, WorkerCounts
  <2>3. Left' /\ Queues'
    BY <1>0, <2>1, WorkerLeft, WorkerQueues
  <2> QED BY <2>2, <2>3
<1> QED BY <1>1, <1>2, <1>3, <1>4, <1>5, <1>6, <1>7 DEF PoolInv

\* A step of ~ThreadPool leaves _exit set.
LEMMA DestructorExits ==
  ASSUME TypeInv, Closing, destructor_step
  PROVE  _exit'
  BY DEF destructor_step, destruct, destruct_notify, destruct_delete, pool, Closing, TypeInv

\* A step of ~ThreadPool keeps the whole inductive invariant.
LEMMA DestructorPoolInv ==
  ASSUME PoolInv, destructor_step
  PROVE  PoolInv'
<1>0. /\ TypeInv /\ (\A u \in Threads : Placed(u)) /\ (\A v \in Workers : Posted(v))
      /\ PairsAlone /\ WaitsAlone /\ Counted /\ Closing /\ Ended
  BY DEF PoolInv
<1>f. /\ UNCHANGED <<status, _active_td_size, _need_wakeup, _td_mtx, _td_wakeup_mtx,
                     _paired_thread, tpc, my, at, delayed, unpaired>>
      /\ pc' = pc \/ notify_all
  BY DestructorFrame
<1>1. TypeInv'
  BY <1>0, DestructorType
<1>2. \A u \in Threads : Placed(u)'
  BY <1>0, <1>f DEF Placed
<1>3. \A v \in Workers : Posted(v)'
  BY <1>0, <1>f, NotifyPosted
<1>4. PairsAlone'
  BY <1>0, <1>f DEF PairsAlone
<1>5. WaitsAlone' /\ Counted'
  BY <1>0, <1>f, NotifyLocked
<1>6. Closing' /\ Ended'
  BY <1>0, <1>f, DestructorExits, DestructorClosing, NotifyEnded
<1>7. ASSUME ~unpaired'
      PROVE  Paired' /\ ActiveCounted' /\ Left' /\ Queues'
  <2>1. Paired /\ ActiveCounted /\ Left /\ Queues
    BY <1>f, <1>7 DEF PoolInv
  <2>2. ActiveCounted'
    <3>1. \A w \in Workers : pc'[w] = "uncount" <=> pc[w] = "uncount"
      BY <1>f, NotifyMoves
    <3>2. Uncounting' = Uncounting /\ Up' = Up /\ Counting' = Counting
      BY <1>f, <3>1 DEF Uncounting, Up, Counting
    <3> QED BY <1>f, <2>1, <3>2 DEF ActiveCounted
  <2> QED BY <1>0, <2>1, <2>2, DestructorPaired, DestructorLeft, DestructorQueues
<1> QED BY <1>1, <1>2, <1>3, <1>4, <1>5, <1>6, <1>7 DEF PoolInv

\* A step that changes nothing keeps the inductive invariant.
LEMMA StutterPool == PoolInv /\ UNCHANGED vars => PoolInv'
<1> SUFFICES ASSUME PoolInv, UNCHANGED vars PROVE PoolInv'
  OBVIOUS
<1> USE DEF vars, pool, mutexes, queues, threads, workers, destructor, history
<1>1. TypeInv'
  BY DEF PoolInv, TypeInv
<1>2. /\ \A t \in Threads : Placed(t)'
      /\ \A w \in Workers : Posted(w)'
  BY DEF PoolInv, Placed, Posted, queue
<1>3. PairsAlone' /\ Ended'
  BY DEF PoolInv, PairsAlone, Ended
<1>4. (\A w \in Workers : Locked(w)' <=> Locked(w)) /\ Asleep' = Asleep
  BY DEF Locked, InWait, Asleep, Sleeps
<1>5. WaitsAlone' /\ Counted'
  BY <1>4 DEF PoolInv, WaitsAlone, Counted
<1>6. Closing'
  BY DEF PoolInv, Closing, InWait
<1>7. \A t \in Threads, w \in Workers : Owns(t, w)' <=> Owns(t, w)
  BY DEF Owns
<1>8. ~unpaired => Paired' /\ ActiveCounted' /\ Left'
  <2>1. \A w \in Workers : Winding(w)' <=> Winding(w)
    BY DEF Winding
  <2>2. Up' = Up /\ Uncounting' = Uncounting /\ Counting' = Counting
    BY DEF Up, Uncounting, Counting
  <2>3. Paired => Paired'
    BY <1>7, <2>1 DEF Paired
  <2>4. ActiveCounted => ActiveCounted'
    BY <2>2 DEF ActiveCounted
  <2> QED BY <2>3, <2>4 DEF PoolInv, Left
<1>9. ~unpaired => Queues'
  BY QueuesSame DEF PoolInv
<1> QED BY <1>1, <1>2, <1>3, <1>5, <1>6, <1>8, <1>9 DEF PoolInv

\* The invariant of the pool: who holds which mutex and what is counted, that a
\* worker is owned by one thread while it is ACTIVE (until a second turn of the
\* loop in deleteThreadLocalPairThread takes the worker of another thread), and
\* that the queues are rings whose published slots nobody overwrites.
THEOREM PoolAccounted == Spec => []PoolInv
<1>1. PoolInv /\ [Next]_vars => PoolInv'
  BY ThreadPoolInv, WorkerPoolInv, DestructorPoolInv, StutterPool DEF Next
<1> QED BY <1>1, InitPool, PTL DEF Spec

\* The inductive invariant contains the property PairsKept.
LEMMA PairsFollow == PoolInv => PairsKept
<1> SUFFICES ASSUME PoolInv, ~unpaired PROVE PairsKept
  BY DEF PairsKept
<1>0. TypeInv /\ Counted /\ Paired /\ ActiveCounted /\ Left /\ Queues
  BY DEF PoolInv
<1>1. _need_wakeup \in 0.._td_capacity
  <2>1. Asleep \in SUBSET Workers
    BY DEF Asleep
  <2>2. Cardinality(Asleep) \in Nat /\ Cardinality(Asleep) <= _td_capacity
    BY <2>1, CountsNat
  <2>3. \A n, m \in Nat : n <= m => n \in 0..m
    BY SMT
  <2> QED BY <1>0, <2>2, <2>3, WorkersFacts DEF Counted
<1>2. ASSUME NEW w \in Workers
      PROVE  _read_idx[w] \in 0.._write_idx[w] /\ _write_idx[w] <= _read_idx[w] + _queue_size
  <2>1. _read_idx[w] \in Nat /\ _write_idx[w] \in Nat /\ Ring(w)
    BY <1>0 DEF TypeInv, Queues
  <2>2. \A n, m \in Nat : n <= m => n \in 0..m
    BY SMT
  <2> QED BY <2>1, <2>2 DEF Ring
<1>3. TypeOK
  BY <1>0, <1>1, <1>2 DEF TypeOK, TypeInv, Statuses
<1>4. ASSUME NEW t \in Threads
      PROVE  /\ _paired_thread[t] \notin deleted
             /\ tpc[t] \in {"exit", "exit_cas"} => my[t].td \notin deleted
  <2>1. ASSUME NEW w \in deleted PROVE ~Owns(t, w)
    <3>1. w \in Workers /\ status[w] = "STANDBY"
      BY <1>0 DEF TypeInv, Left
    <3> QED BY <1>0, <3>1 DEF Paired
  <2> QED BY <2>1 DEF Owns
<1> QED BY <1>0, <1>3, <1>4 DEF PairsKept, ActiveCounted, Up, Uncounting, Counting

\* The pairs of threads and workers are kept, _active_td_size is right up to the
\* steps between a store and its count, the indices of a queue stay in its ring,
\* and ~ThreadPool, which joins and deletes one worker after the other, deletes none
\* that a thread has not yet given back: for every number of threads, workers and
\* tasks.
THEOREM PairsAreKept == Spec => []PairsKept
  BY PoolAccounted, PairsFollow, PTL
=============================================================================
