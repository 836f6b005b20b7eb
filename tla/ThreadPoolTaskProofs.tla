------------------------ MODULE ThreadPoolTaskProofs -------------------------
(***************************************************************************)
(* What the pool keeps of the tasks: that each is in one place, and that   *)
(* none is left in a queue when everybody waits.  It stands on the         *)
(* invariant of module ThreadPoolProofs.                                   *)
(***************************************************************************)
EXTENDS ThreadPoolProofs

\* As there, Zenon is the default prover and a leaf with arithmetic cites SMT.
USE Zenon

\* A worker stands by only with an empty queue.
Drained == \A w \in Workers : status[w] = "STANDBY" \/ pc[w] = "standby" => Empty(w)

\* Task k is with thread t, at index i of the queue of w, in the hands of w.
With(t, k) == my[t].task = k /\ tpc[t] \in Holding
At(w, i, k) ==
  i \in Int /\ _read_idx[w] <= i /\ i < _write_idx[w] /\ _buffer[w][i % _queue_size] = k
Held(w, k) == at[w].task = k /\ pc[w] \in {"run", "got"}

OnePlace(k) ==
  /\ \A t \in Threads : With(t, k) =>
       /\ \A u \in Threads : With(u, k) => u = t
       /\ \A w \in Workers : ~Held(w, k)
       /\ \A w \in Workers : \A i : ~At(w, i, k)
       /\ ran[k] = 0
  /\ \A w \in Workers : Held(w, k) =>
       /\ \A v \in Workers : Held(v, k) => v = w
       /\ \A v \in Workers : \A i : ~At(v, i, k)
       /\ ran[k] = 0
  /\ \A w \in Workers : \A i : At(w, i, k) =>
       /\ \A v \in Workers : \A j : At(v, j, k) => v = w /\ j = i
       /\ ran[k] = 0
  /\ \/ \E t \in Threads : With(t, k)
     \/ \E w \in Workers : Held(w, k)
     \/ \E w \in Workers : \E i : At(w, i, k)
     \/ ran[k] = 1

\* Whatever lies somewhere was submitted, and what was not has not run.
Known ==
  /\ \A t \in Threads, k \in 0..MaxTasks : With(t, k) => k \in 1..submitted
  /\ \A w \in Workers, k \in 0..MaxTasks : Held(w, k) => k \in 1..submitted
  /\ \A w \in Workers, k \in 0..MaxTasks : \A i : At(w, i, k) => k \in 1..submitted
  /\ \A k \in Tasks : k > submitted => ran[k] = 0

Places == Known /\ \A k \in 1..submitted : OnePlace(k)

\* Some thread is inside submit, and will look at _need_wakeup before it leaves.
Pending == \E t \in Threads : tpc[t] \in Inside

\* Unless somebody will be told, a worker that waits has seen every queue it looks
\* after empty: its own, or the first ones, which are those of the workers that do
\* not stand by.
Seen(w) ==
  /\ pc[w] = "waiting" /\ at[w].status # "STANDBY" => Empty(w)
  /\ pc[w] = "waiting" /\ at[w].status = "STANDBY" =>
       \A v \in Workers : Empty(v) \/ Cardinality(Up) <= v
  /\ pc[w] \in {"scan", "pop", "again", "cas"} /\ at[w].by = "tryGetOne" =>
       /\ Cardinality(Up) <= at[w].active_td
       /\ \A v \in Workers : v < at[w].i => Empty(v)
  /\ pc[w] \in {"scan", "pop", "again", "cas"} /\ InWait(w) =>
       (at[w].status = "STANDBY") = (at[w].by = "tryGetOne")

TaskInv ==
  /\ PoolInv
  /\ ~unpaired /\ ~_exit => Drained /\ Places
  /\ ~unpaired /\ ~_exit /\ ~delayed /\ ~Pending => \A w \in Workers : Seen(w)

-----------------------------------------------------------------------------
(* Indices and tasks.                                                      *)

\* How the indices between read and write change when either moves by one.
LEMMA IndexSteps ==
  ASSUME NEW r \in Nat, NEW x \in Nat
  PROVE  /\ \A i : i \in Int /\ r <= i /\ i < x + 1 <=>
                (i \in Int /\ r <= i /\ i < x) \/ (i = x /\ r <= x)
         /\ \A i : i \in Int /\ r + 1 <= i /\ i < x <=>
                i \in Int /\ r <= i /\ i < x /\ i # r
         /\ \A i \in Int : r <= i => i \in Nat
         /\ r < x => r \in Int /\ r <= r
BY SMT

\* The tasks submitted so far, and one more.
LEMMA TaskSteps ==
  ASSUME NEW n \in Nat, NEW m \in Nat, n <= m
  PROVE  /\ \A k : k \in 1..(n + 1) <=> k \in 1..n \/ k = n + 1
         /\ n + 1 \notin 1..n /\ 0 \notin 1..n /\ n + 1 > n
         /\ \A k \in Int : k > n + 1 => k > n
         /\ \A k \in 1..n : k \in 1..m /\ k \in 0..m
         /\ n < m => n + 1 \in 1..m /\ n + 1 \in 0..m
         /\ \A k \in 1..m : k \in Int
         /\ 0 + 1 = 1
BY SMT

\* The write index is less than one ring past an index not yet read.
LEMMA Overtaken ==
  ASSUME NEW n \in Nat, NEW r \in Nat, NEW x \in Nat, NEW i \in Int, r <= i, x < r + n
  PROVE  i \in Nat /\ x < i + n
BY SMT

\* The arithmetic of a scan that moves on by one queue.
LEMMA TurnSteps ==
  /\ \A i, v \in Int : v < i + 1 => v < i \/ v = i
  /\ \A a, c, i, v \in Int : c <= a /\ i >= a => v < i \/ c <= v
  /\ \A b, c, v \in Int : b <= c /\ c <= v => b <= v
  /\ \A v \in Nat : ~(v < 0)
  /\ \A b, c \in Nat : c <= c + b - 0
BY SMT

-----------------------------------------------------------------------------
(* A worker that stands by has an empty queue.                             *)

\* A step of a submitting thread lets a worker stand by only with an empty queue.
LEMMA ThreadDrained ==
  ASSUME TypeInv, NEW t \in Threads, thread(t), \A u \in Threads : Placed(u), Paired, Drained
  PROVE  Drained'
<1>0. _read_idx' = _read_idx
  BY ThreadFrame
<1>1. \A w \in Workers : pc'[w] = "standby" => pc[w] = "standby"
  BY ThreadFrame, NotifyMoves
<1>2. \A w \in Workers : status'[w] = "STANDBY" => status[w] = "STANDBY"
  <2>1. CASE getActiveThread_scan(t)
    BY <2>1, scanMoves DEF TypeInv
  <2>2. CASE deleteThreadLocalPairThread_cas(t)
    BY <2>2, casMoves DEF TypeInv
  <2>3. CASE status' = status
    BY <2>3
  <2>4. status' = status \/ getActiveThread_scan(t) \/ deleteThreadLocalPairThread_cas(t)
    BY DEF thread, submit, getActiveThread_lock, getActiveThread_pair, push, push_publish,
       push_delayed, submit_run, submit_load, submit_notify, thread_exit,
       deleteThreadLocalPairThread, pool
  <2> QED BY <2>1, <2>2, <2>3, <2>4
<1>3. CASE _write_idx' = _write_idx
  BY <1>0, <1>1, <1>2, <1>3 DEF Drained, Empty
<1>4. CASE push_publish(t)
  <2>1. /\ my[t].td \in Workers /\ _paired_thread[t] = my[t].td
        /\ _write_idx' = [_write_idx EXCEPT ![my[t].td] = @ + 1]
    BY <1>4 DEF push_publish, Placed
  <2>2. status[my[t].td] = "ACTIVE"
    BY <2>1 DEF Paired, Owns
  <2>3. ~(status[my[t].td] = "STANDBY" \/ pc[my[t].td] = "standby")
    BY <2>1, <2>2 DEF Paired, Winding
  <2>4. \A v \in Workers : v # my[t].td => _write_idx'[v] = _write_idx[v]
    BY <2>1 DEF TypeInv
  <2> QED BY <1>0, <1>1, <1>2, <2>3, <2>4 DEF Drained, Empty
<1>5. _write_idx' = _write_idx \/ push_publish(t)
  BY DEF thread, submit, getActiveThread_lock, getActiveThread_scan, getActiveThread_pair, push,
     push_delayed, submit_run, submit_load, submit_notify, thread_exit,
     deleteThreadLocalPairThread, deleteThreadLocalPairThread_cas, queues
<1> QED BY <1>3, <1>4, <1>5

\* A queue that is empty is popped by nobody.
LEMMA WorkerEmpty ==
  ASSUME TypeInv, NEW w \in Workers, worker(w), Posted(w), Queues
  PROVE  /\ \A v \in Workers : Empty(v) => Empty(v)'
         /\ pop_cas(w) \/ _read_idx' = _read_idx
<1>0. _write_idx' = _write_idx
  BY WorkerFrame
<1>1. pop_cas(w) \/ _read_idx' = _read_idx
  BY DEF worker, loop_top, pop_copy, run, standby, uncount, tryStealOne, scan, sleep, predicate,
     woken, got, queues
<1>2. CASE _read_idx' = _read_idx
  BY <1>0, <1>1, <1>2 DEF Empty
<1>3. CASE pop_cas(w) /\ _read_idx[queue(w)] = at[w].read
           /\ _read_idx' = [_read_idx EXCEPT ![queue(w)] = @ + 1]
  <2>1. ~Empty(queue(w))
    BY <1>3, popMoves DEF Queues, Copied
  <2>2. \A v \in Workers : v # queue(w) => _read_idx'[v] = _read_idx[v]
    BY <1>3 DEF TypeInv
  <2> QED BY <1>0, <1>1, <2>1, <2>2 DEF Empty
<1> QED BY <1>1, <1>2, <1>3, popMoves

\* A step of a worker's loop lets a worker stand by only with an empty queue.
LEMMA WorkerDrained ==
  ASSUME TypeInv, NEW w \in Workers, worker(w), Posted(w), Queues, ~_exit, Drained
  PROVE  Drained'
<1>0. \A v \in Workers \ {w} : pc'[v] = pc[v]
  BY WorkerFrame DEF SameWorker
<1>e. \A v \in Workers : Empty(v) => Empty(v)'
  BY WorkerEmpty
<1>n. ASSUME \/ status' = status
             \/ pc[w] = "standby" /\ status' = [status EXCEPT ![w] = "STANDBY"],
             pc'[w] = "standby" => Empty(w)
      PROVE  Drained'
  <2>1. \A v \in Workers : status'[v] = "STANDBY" => Empty(v)
    BY <1>n DEF Drained, TypeInv
  <2>2. \A v \in Workers : pc'[v] = "standby" => Empty(v)
    BY <1>0, <1>n DEF Drained
  <2> QED BY <1>e, <2>1, <2>2 DEF Drained
<1> USE DEF pool
<1>1. CASE loop_top(w)
  BY <1>n, <1>1, topMoves DEF loop_top
<1>2. CASE pop_copy(w)
  <2>1. pc'[w] = "standby" => at[w].by = "tryConsume" /\ Empty(queue(w))
    BY <1>2, copyMoves
  <2>2. pc'[w] = "standby" => Empty(w)
    BY <2>1 DEF queue
  <2> QED BY <1>n, <1>2, <2>2 DEF pop_copy
<1>3. CASE pop_cas(w)
  BY <1>n, <1>3, popMoves DEF pop_cas
<1>4. CASE run(w)
  BY <1>n, <1>4, taskMoves DEF run
<1>5. CASE standby(w)
  BY <1>n, <1>5, standbyMoves DEF standby
<1>6. CASE uncount(w)
  BY <1>n, <1>6, uncountMoves DEF uncount
<1>7. CASE tryStealOne(w)
  BY <1>n, <1>7, stealMoves DEF tryStealOne
<1>8. CASE scan(w)
  BY <1>n, <1>8, turnMoves DEF scan
<1>9. CASE sleep(w)
  BY <1>n, <1>9, sleepMoves DEF sleep
<1>10. CASE predicate(w)
  BY <1>n, <1>10, predicateMoves DEF predicate
<1>11. CASE woken(w)
  BY <1>n, <1>11, wokenMoves DEF woken
<1>12. CASE got(w)
  BY <1>n, <1>12, gotMoves DEF got
<1> QED BY <1>1, <1>2, <1>3, <1>4, <1>5, <1>6, <1>7, <1>8, <1>9, <1>10, <1>11, <1>12
        DEF worker

-----------------------------------------------------------------------------
(* Every task in one place.                                                *)

\* A task whose possible places do not change stays in one place.
LEMMA OneSame ==
  ASSUME NEW k, OnePlace(k), ran'[k] = ran[k],
         \A t \in Threads : With(t, k)' <=> With(t, k),
         \A w \in Workers : Held(w, k)' <=> Held(w, k),
         \A w \in Workers : \A i : At(w, i, k)' <=> At(w, i, k)
  PROVE  OnePlace(k)'
<1>1. ASSUME NEW t \in Threads, With(t, k)'
      PROVE  /\ \A u \in Threads : With(u, k)' => u = t
             /\ \A w \in Workers : ~Held(w, k)'
             /\ \A w \in Workers : \A i : ~At(w, i, k)'
             /\ ran'[k] = 0
  BY <1>1 DEF OnePlace
<1>2. ASSUME NEW w \in Workers, Held(w, k)'
      PROVE  /\ \A v \in Workers : Held(v, k)' => v = w
             /\ \A v \in Workers : \A i : ~At(v, i, k)'
             /\ ran'[k] = 0
  BY <1>2 DEF OnePlace
<1>3. ASSUME NEW w \in Workers, NEW i, At(w, i, k)'
      PROVE  /\ \A v \in Workers : \A j : At(v, j, k)' => v = w /\ j = i
             /\ ran'[k] = 0
  BY <1>3 DEF OnePlace
<1>4. \/ \E t \in Threads : With(t, k)'
      \/ \E w \in Workers : Held(w, k)'
      \/ \E w \in Workers : \E i : At(w, i, k)'
      \/ ran'[k] = 1
  BY DEF OnePlace
<1> QED BY <1>1, <1>2, <1>3, <1>4 DEF OnePlace

\* A step that touches no queue leaves every queued task where it is.
LEMMA AtSame ==
  ASSUME UNCHANGED <<_buffer, _read_idx, _write_idx>>
  PROVE  \A w \in Workers : \A i, k : At(w, i, k)' <=> At(w, i, k)
  BY DEF At

\* A step that moves no task keeps every task in one place.
LEMMA PlacesSame ==
  ASSUME Places, UNCHANGED <<submitted, ran>>,
         \A t \in Threads : \A k : With(t, k)' <=> With(t, k),
         \A w \in Workers : \A k : Held(w, k)' <=> Held(w, k),
         \A w \in Workers : \A i, k : At(w, i, k)' <=> At(w, i, k)
  PROVE  Places'
<1>1. Known'
  <2>1. \A t \in Threads, k \in 0..MaxTasks : With(t, k)' => k \in 1..submitted
    BY DEF Places, Known
  <2>2. \A w \in Workers, k \in 0..MaxTasks : Held(w, k)' => k \in 1..submitted
    BY DEF Places, Known
  <2>3. \A w \in Workers, k \in 0..MaxTasks : \A i : At(w, i, k)' => k \in 1..submitted
    BY DEF Places, Known
  <2>4. \A k \in Tasks : k > submitted => ran[k] = 0
    BY DEF Places, Known
  <2> QED BY <2>1, <2>2, <2>3, <2>4 DEF Known
<1>2. ASSUME NEW k \in 1..submitted PROVE OnePlace(k)'
  BY OneSame DEF Places
<1> QED BY <1>1, <1>2 DEF Places

\* The tasks submitted so far are numbered from 1 and bounded by MaxTasks.
LEMMA SubmittedFacts ==
  ASSUME TypeInv
  PROVE  /\ submitted \in Nat /\ submitted <= MaxTasks /\ MaxTasks \in Nat
         /\ \A k \in 1..submitted : k \in Tasks /\ k \in 0..MaxTasks
         /\ 0 \notin 1..submitted
<1>1. submitted \in Nat /\ submitted <= MaxTasks /\ MaxTasks \in Nat
  BY SMT, PoolAssumption DEF TypeInv
<1> QED BY <1>1, TaskSteps DEF Tasks

\* A task that is with a thread is handed to the caller's own run.
LEMMA RanPlaces ==
  ASSUME TypeInv, Places, submitted' = submitted, NEW x \in 1..submitted,
         ran' = [ran EXCEPT ![x] = @ + 1],
         (\E t \in Threads : With(t, x)) \/ (\E w \in Workers : Held(w, x)),
         \A t \in Threads : \A k : With(t, k)' <=> With(t, k) /\ k # x,
         \A w \in Workers : \A k : Held(w, k)' <=> Held(w, k) /\ k # x,
         \A w \in Workers : \A i, k : At(w, i, k)' <=> At(w, i, k)
  PROVE  Places'
<1>0. x \in Tasks /\ ran \in [Tasks -> Nat] /\ \A k \in 1..submitted : k \in Tasks
  BY SubmittedFacts DEF TypeInv
<1>1. ran'[x] = ran[x] + 1 /\ \A k \in Tasks : k # x => ran'[k] = ran[k]
  BY <1>0
<1>2. OnePlace(x) /\ ran[x] = 0 /\ \A w \in Workers : \A i : ~At(w, i, x)
  BY DEF Places, OnePlace
<1>3. ran'[x] = 1
  BY <1>1, <1>2, SubmittedFacts, TaskSteps
<1>4. OnePlace(x)'
  <2>1. \A t \in Threads : ~With(t, x)'
    OBVIOUS
  <2>2. \A w \in Workers : ~Held(w, x)'
    OBVIOUS
  <2>3. \A w \in Workers : \A i : ~At(w, i, x)'
    BY <1>2
  <2> QED BY <1>3, <2>1, <2>2, <2>3 DEF OnePlace
<1>5. ASSUME NEW k \in 1..submitted, k # x PROVE OnePlace(k)'
  BY <1>0, <1>1, <1>5, OneSame DEF Places
<1>6. Known'
  <2>1. \A t \in Threads, k \in 0..MaxTasks : With(t, k)' => k \in 1..submitted
    BY DEF Places, Known
  <2>2. \A w \in Workers, k \in 0..MaxTasks : Held(w, k)' => k \in 1..submitted
    BY DEF Places, Known
  <2>3. \A w \in Workers, k \in 0..MaxTasks : \A i : At(w, i, k)' => k \in 1..submitted
    BY DEF Places, Known
  <2>4. ASSUME NEW k \in Tasks, k > submitted PROVE ran'[k] = 0
    <3>1. ~(x > submitted)
      BY SMT, SubmittedFacts
    <3> QED BY <1>1, <2>4, <3>1 DEF Places, Known
  <2> QED BY <2>1, <2>2, <2>3, <2>4 DEF Known
<1> QED BY <1>4, <1>5, <1>6 DEF Places

\* A step of a submitting thread keeps every task in one place.
LEMMA ThreadPlaces ==
  ASSUME TypeInv, NEW t \in Threads, thread(t), \A u \in Threads : Placed(u), Paired, Queues,
         Places
  PROVE  Places'
<1>u. /\ \A u \in Threads \ {t} : tpc'[u] = tpc[u] /\ my'[u] = my[u]
      /\ _read_idx' = _read_idx
  BY ThreadFrame DEF SameThread
<1>w. \A u \in Threads \ {t} : \A k : With(u, k)' <=> With(u, k)
  BY <1>u DEF With
<1>h. \A w \in Workers : \A k : Held(w, k)' <=> Held(w, k)
  <2>1. \A w \in Workers : (pc'[w] = pc[w] \/ (pc[w] = "waiting" /\ pc'[w] = "woken"))
                           /\ at'[w] = at[w]
    BY ThreadFrame, NotifyMoves
  <2> QED BY <2>1 DEF Held
<1>m. my[t] \in MyType /\ my[t].task \in 0..MaxTasks
  BY DEF TypeInv, MyType
<1>n. ASSUME UNCHANGED <<submitted, ran>>,
             \/ tpc[t] \notin Holding /\ tpc'[t] \notin Holding
             \/ tpc[t] \in Holding /\ tpc'[t] \in Holding /\ my'[t].task = my[t].task,
             \A w \in Workers : \A i, k : At(w, i, k)' <=> At(w, i, k)
      PROVE  Places'
  <2>1. \A k : With(t, k)' <=> With(t, k)
    BY <1>n DEF With
  <2> QED BY <1>w, <1>h, <1>n, <2>1, PlacesSame
<1>q. ASSUME UNCHANGED <<submitted, ran, _buffer, _write_idx>>,
             \/ tpc[t] \notin Holding /\ tpc'[t] \notin Holding
             \/ tpc[t] \in Holding /\ tpc'[t] \in Holding /\ my'[t].task = my[t].task
      PROVE  Places'
  BY <1>u, <1>n, <1>q, AtSame
<1> USE DEF queues, history
<1>1. CASE submit(t)
  <2>0. /\ tpc[t] \notin Holding /\ tpc'[t] \in Holding /\ my'[t].task = submitted + 1
        /\ submitted < MaxTasks /\ submitted' = submitted + 1 /\ ran' = ran
        /\ UNCHANGED <<_buffer, _read_idx, _write_idx>>
    BY <1>1, submitMoves DEF submit, Holding
  <2>1. \A k : ~With(t, k) /\ (With(t, k)' <=> k = submitted + 1)
    BY <2>0 DEF With
  <2>2. \A w \in Workers : \A i, k : At(w, i, k)' <=> At(w, i, k)
    BY <2>0, AtSame
  <2>3. /\ \A k : k \in 1..(submitted + 1) <=> k \in 1..submitted \/ k = submitted + 1
        /\ submitted + 1 \notin 1..submitted /\ submitted + 1 \in 0..MaxTasks
        /\ submitted + 1 \in Tasks /\ submitted + 1 > submitted
        /\ \A k \in Tasks : k > submitted + 1 => k > submitted
    BY <2>0, SubmittedFacts, TaskSteps DEF Tasks
  <2>4. ASSUME NEW k \in 1..submitted PROVE OnePlace(k)'
    BY <1>w, <1>h, <2>0, <2>1, <2>2, <2>3, OneSame DEF Places
  <2>5. ASSUME NEW k, k = submitted + 1 PROVE OnePlace(k)'
    <3>1. /\ \A u \in Threads : ~With(u, k) /\ \A w \in Workers : ~Held(w, k)
          /\ \A w \in Workers : \A i : ~At(w, i, k)
      BY <2>3, <2>5 DEF Places, Known
    <3>2. ran'[k] = 0
      BY <2>0, <2>3, <2>5 DEF Places, Known
    <3>3. \A u \in Threads : With(u, k)' <=> u = t
      BY <1>w, <2>1, <2>5, <3>1
    <3>4. /\ \A w \in Workers : ~Held(w, k)'
          /\ \A w \in Workers : \A i : ~At(w, i, k)'
      BY <1>h, <2>2, <3>1
    <3> QED BY <3>2, <3>3, <3>4 DEF OnePlace
  <2>6. Known'
    <3>1. \A u \in Threads, k \in 0..MaxTasks : With(u, k)' => k \in 1..submitted'
      BY <1>w, <2>0, <2>1, <2>3 DEF Places, Known
    <3>2. \A w \in Workers, k \in 0..MaxTasks : Held(w, k)' => k \in 1..submitted'
      BY <1>h, <2>0, <2>3 DEF Places, Known
    <3>3. \A w \in Workers, k \in 0..MaxTasks : \A i : At(w, i, k)' => k \in 1..submitted'
      BY <2>0, <2>2, <2>3 DEF Places, Known
    <3>4. \A k \in Tasks : k > submitted' => ran'[k] = 0
      BY <2>0, <2>3 DEF Places, Known
    <3> QED BY <3>1, <3>2, <3>3, <3>4 DEF Known
  <2> QED BY <2>0, <2>3, <2>4, <2>5, <2>6 DEF Places
<1>2. CASE getActiveThread_lock(t)
  BY <1>q, <1>2, lockMoves DEF getActiveThread_lock, Holding, Keeps
<1>3. CASE getActiveThread_scan(t)
  BY <1>q, <1>3, scanMoves DEF getActiveThread_scan, Holding
<1>4. CASE getActiveThread_pair(t)
  BY <1>q, <1>4, pairMoves DEF getActiveThread_pair, Holding
<1>5. CASE push(t)
  <2>0. tpc[t] = "push" /\ my'[t] = my[t] /\ UNCHANGED <<_write_idx, submitted, ran>>
    BY <1>5, pushMoves DEF push, Keeps
  <2>1. CASE tpc'[t] = "run" /\ UNCHANGED _buffer
    BY <1>q, <2>0, <2>1 DEF Holding
  <2>2. CASE /\ tpc'[t] = "publish" /\ ~full(my[t].td)
             /\ _buffer' = [_buffer EXCEPT
                  ![my[t].td][_write_idx[my[t].td] % _queue_size] = my[t].task]
    <3> DEFINE w == my[t].td
               x == _write_idx[w]
               r == _read_idx[w]
    <3>1. w \in Workers /\ x \in Nat /\ r \in Nat /\ r <= x /\ x < r + _queue_size
      <4>1. ~(x >= r + _queue_size)
        BY <2>2 DEF full
      <4>2. w \in Workers
        BY <2>0 DEF Placed
      <4>3. x \in Nat /\ r \in Nat /\ r <= x /\ x <= r + _queue_size
        BY <4>2 DEF TypeInv, Queues, Ring
      <4> HIDE DEF w, x, r
      <4>4. x < r + _queue_size
        BY <4>1, <4>3, RingSteps, WorkersFacts
      <4> QED BY <4>2, <4>3, <4>4
    <3>2. \A v \in Workers : v # w => _buffer'[v] = _buffer[v]
      BY <2>2, <3>1 DEF TypeInv
    <3>3. \A s \in 0..(_queue_size - 1) : s # x % _queue_size =>
               _buffer'[w][s] = _buffer[w][s]
      <4>1. _buffer'[w] = [_buffer[w] EXCEPT ![x % _queue_size] = my[t].task]
        BY <2>2, <3>1 DEF TypeInv
      <4>2. _buffer[w] \in [0..(_queue_size - 1) -> 0..MaxTasks]
        BY <3>1 DEF TypeInv
      <4> QED BY <4>1, <4>2
    <3>4. ASSUME NEW i \in Int, r <= i, i < x
          PROVE  _buffer'[w][i % _queue_size] = _buffer[w][i % _queue_size]
      <4>1. i \in Nat /\ x < i + _queue_size
        BY <3>1, <3>4, Overtaken, WorkersFacts
      <4>2. i % _queue_size # x % _queue_size /\ i % _queue_size \in 0..(_queue_size - 1)
        BY <3>1, <3>4, <4>1, SlotsApart, SlotInRange
      <4> QED BY <3>3, <4>2
    <3>5. ASSUME NEW v \in Workers, NEW i, NEW k PROVE At(v, i, k)' <=> At(v, i, k)
      <4>1. CASE v = w
        BY <1>u, <2>0, <3>4, <4>1 DEF At
      <4>2. CASE v # w
        BY <1>u, <2>0, <3>2, <4>2 DEF At
      <4> QED BY <4>1, <4>2
    <3> QED BY <1>n, <2>0, <2>2, <3>5 DEF Holding
  <2> QED BY <1>5, <2>1, <2>2, pushMoves
<1>6. CASE push_publish(t)
  <2> DEFINE w == my[t].td
             x == _write_idx[w]
             r == _read_idx[w]
  <2> HIDE DEF w, x, r
  <2>0. /\ tpc[t] \in {"publish", "published_late"} /\ tpc'[t] \notin Holding
        /\ _buffer' = _buffer /\ _write_idx' = [_write_idx EXCEPT ![w] = @ + 1]
        /\ UNCHANGED <<submitted, ran>>
    BY <1>6, publishMoves DEF push_publish, Holding, w
  <2>1. w \in Workers /\ x \in Nat /\ r \in Nat /\ r <= x
    <3>1. w \in Workers
      BY <2>0 DEF Placed, w
    <3> QED BY <3>1 DEF TypeInv, Queues, Ring, x, r
  <2>2. _write_idx'[w] = x + 1 /\ \A v \in Workers : v # w => _write_idx'[v] = _write_idx[v]
    BY <2>0, <2>1 DEF TypeInv, x
  <2>3. _buffer[w][x % _queue_size] = my[t].task
    BY <2>0 DEF Queues, Filled, w, x
  <2>4. \A v \in Workers : \A i, k :
          At(v, i, k)' <=> At(v, i, k) \/ (v = w /\ i = x /\ k = my[t].task)
    <3> TAKE v \in Workers
    <3> TAKE i, k
    <3>1. CASE v = w
      <4>1. i \in Int /\ r <= i /\ i < x + 1 <=>
              (i \in Int /\ r <= i /\ i < x) \/ (i = x /\ r <= x)
        BY <2>1, IndexSteps
      <4> QED BY <1>u, <2>0, <2>1, <2>2, <2>3, <3>1, <4>1 DEF At, x, r
    <3>2. CASE v # w
      BY <1>u, <2>0, <2>2, <3>2 DEF At
    <3> QED BY <3>1, <3>2
  <2>5. \A k : (With(t, k) <=> k = my[t].task) /\ ~With(t, k)'
    BY <2>0 DEF With, Holding
  <2>6. my[t].task \in 1..submitted
    BY <1>m, <2>5 DEF Places, Known
  <2>7. ASSUME NEW k \in 1..submitted, k # my[t].task PROVE OnePlace(k)'
    <3>1. ASSUME NEW v \in Workers, NEW i PROVE At(v, i, k)' <=> At(v, i, k)
      <4>1. At(v, i, k)' <=> At(v, i, k) \/ (v = w /\ i = x /\ k = my[t].task)
        BY <2>4
      <4> QED BY <2>7, <4>1
    <3>2. \A u \in Threads : With(u, k)' <=> With(u, k)
      BY <1>w, <2>5, <2>7
    <3> QED BY <1>h, <2>0, <3>1, <3>2, OneSame DEF Places
  <2>8. ASSUME NEW k \in 1..submitted, k = my[t].task PROVE OnePlace(k)'
    <3>1. /\ \A u \in Threads : With(u, k) => u = t
          /\ \A v \in Workers : ~Held(v, k)
          /\ \A v \in Workers : \A i : ~At(v, i, k)
          /\ ran[k] = 0
      BY <2>5, <2>8 DEF Places, OnePlace
    <3>2. \A u \in Threads : ~With(u, k)'
      BY <1>w, <2>5, <3>1
    <3>3. \A v \in Workers : ~Held(v, k)'
      BY <1>h, <3>1
    <3>4. ASSUME NEW v \in Workers, NEW i PROVE At(v, i, k)' <=> v = w /\ i = x
      <4>1. At(v, i, k)' <=> At(v, i, k) \/ (v = w /\ i = x /\ k = my[t].task)
        BY <2>4
      <4> QED BY <2>8, <3>1, <4>1
    <3>5. \E v \in Workers : \E i : At(v, i, k)'
      BY <2>1, <3>4
    <3>6. ASSUME NEW v \in Workers, NEW i, At(v, i, k)'
          PROVE  \A y \in Workers : \A j : At(y, j, k)' => y = v /\ j = i
      <4>1. v = w /\ i = x
        BY <3>4, <3>6
      <4>2. ASSUME NEW y \in Workers, NEW j, At(y, j, k)' PROVE y = w /\ j = x
        BY <3>4, <4>2
      <4> QED BY <4>1, <4>2
    <3> QED BY <2>0, <3>1, <3>2, <3>3, <3>5, <3>6 DEF OnePlace
  <2>9. Known'
    <3>1. \A u \in Threads, k \in 0..MaxTasks : With(u, k)' => k \in 1..submitted
      BY <1>w, <2>5 DEF Places, Known
    <3>2. \A v \in Workers, k \in 0..MaxTasks : Held(v, k)' => k \in 1..submitted
      BY <1>h DEF Places, Known
    <3>3. \A v \in Workers, k \in 0..MaxTasks : \A i : At(v, i, k)' => k \in 1..submitted
      BY <2>4, <2>6 DEF Places, Known
    <3>4. \A k \in Tasks : k > submitted => ran[k] = 0
      BY DEF Places, Known
    <3> QED BY <2>0, <3>1, <3>2, <3>3, <3>4 DEF Known
  <2> QED BY <2>0, <2>7, <2>8, <2>9 DEF Places
<1>7. CASE push_delayed(t)
  BY <1>q, <1>7, delayedMoves DEF push_delayed, Holding, Keeps
<1>8. CASE submit_run(t)
  <2>0. /\ tpc[t] = "run" /\ tpc'[t] \notin Holding /\ ran' = [ran EXCEPT ![my[t].task] = @ + 1]
        /\ UNCHANGED <<submitted, _buffer, _read_idx, _write_idx>>
    BY <1>8, runMoves DEF submit_run, Holding
  <2>1. \A k : (With(t, k) <=> k = my[t].task) /\ ~With(t, k)'
    BY <2>0 DEF With, Holding
  <2>2. my[t].task \in 1..submitted
    BY <1>m, <2>1 DEF Places, Known
  <2>3. ASSUME NEW x \in 1..submitted, x = my[t].task PROVE Places'
    <3>1. With(t, x) /\ OnePlace(x)
      BY <2>1, <2>3 DEF Places
    <3>2. \A u \in Threads : \A k : With(u, k)' <=> With(u, k) /\ k # x
      BY <1>w, <2>1, <2>3, <3>1 DEF OnePlace
    <3>3. \A w \in Workers : \A k : Held(w, k)' <=> Held(w, k) /\ k # x
      BY <1>h, <3>1 DEF OnePlace
    <3>4. \A w \in Workers : \A i, k : At(w, i, k)' <=> At(w, i, k)
      BY <2>0, AtSame
    <3> QED BY <2>0, <2>3, <3>1, <3>2, <3>3, <3>4, RanPlaces
  <2> QED BY <2>2, <2>3
<1>9. CASE submit_load(t)
  BY <1>q, <1>9, loadMoves DEF submit_load, Holding
<1>10. CASE submit_notify(t)
  BY <1>q, <1>10, notifyMoves DEF submit_notify, Holding
<1>11. CASE thread_exit(t)
  BY <1>q, <1>11, exitMoves DEF thread_exit, Holding
<1>12. CASE deleteThreadLocalPairThread(t)
  BY <1>q, <1>12, deleteMoves DEF deleteThreadLocalPairThread, Holding
<1>13. CASE deleteThreadLocalPairThread_cas(t)
  BY <1>q, <1>13, casMoves DEF deleteThreadLocalPairThread_cas, Holding
<1> QED BY <1>1, <1>2, <1>3, <1>4, <1>5, <1>6, <1>7, <1>8, <1>9, <1>10, <1>11, <1>12,
        <1>13 DEF thread

\* A step of a worker's loop keeps every task in one place.
LEMMA WorkerPlaces ==
  ASSUME TypeInv, NEW w \in Workers, worker(w), Posted(w), Queues, ~_exit, Places
  PROVE  Places'
<1>0. /\ UNCHANGED <<tpc, my, submitted, _buffer, _write_idx>>
      /\ \A v \in Workers \ {w} : pc'[v] = pc[v] /\ at'[v] = at[v]
  BY WorkerFrame DEF SameWorker
<1>w. \A t \in Threads : \A k : With(t, k)' <=> With(t, k)
  BY <1>0 DEF With
<1>h. \A v \in Workers \ {w} : \A k : Held(v, k)' <=> Held(v, k)
  BY <1>0 DEF Held
<1>m. at[w].task \in 0..MaxTasks
  BY AtFields
<1>n. ASSUME _read_idx' = _read_idx, ran' = ran,
             \/ pc[w] \notin {"run", "got"} /\ pc'[w] \notin {"run", "got"}
             \/ /\ pc[w] \in {"run", "got"} /\ pc'[w] \in {"run", "got"}
                /\ at'[w].task = at[w].task
      PROVE  Places'
  <2>1. \A k : Held(w, k)' <=> Held(w, k)
    BY <1>n DEF Held
  <2>2. \A v \in Workers : \A k : Held(v, k)' <=> Held(v, k)
    BY <1>h, <2>1
  <2>3. \A v \in Workers : \A i, k : At(v, i, k)' <=> At(v, i, k)
    BY <1>0, <1>n, AtSame
  <2> QED BY <1>0, <1>w, <1>n, <2>2, <2>3, PlacesSame
<1> USE DEF queues, history
<1>1. CASE loop_top(w)
  BY <1>n, <1>1, topMoves DEF loop_top
<1>2. CASE pop_copy(w)
  <2>1. pc[w] \notin {"run", "got"} /\ pc'[w] \notin {"run", "got"}
    BY <1>2, copyMoves
  <2> QED BY <1>n, <1>2, <2>1 DEF pop_copy
<1>3. CASE pop_cas(w)
  <2>0. pc[w] = "cas" /\ queue(w) \in Workers /\ ran' = ran /\ at'[w].task = at[w].task
    BY <1>3, popMoves DEF Posted, pop_cas
  <2>1. CASE _read_idx' = _read_idx /\ pc'[w] = "again"
    BY <1>n, <2>0, <2>1
  <2>2. CASE /\ _read_idx[queue(w)] = at[w].read
             /\ _read_idx' = [_read_idx EXCEPT ![queue(w)] = @ + 1]
             /\ pc'[w] = (IF InWait(w) THEN "got" ELSE "run")
    <3> DEFINE q == queue(w)
               r == _read_idx[q]
               x == _write_idx[q]
    <3>1. /\ q \in Workers /\ r \in Nat /\ x \in Nat /\ r <= x /\ x <= r + _queue_size
          /\ r # x /\ at[w].task = _buffer[q][r % _queue_size]
      BY <2>0, <2>2 DEF TypeInv, Queues, Ring, Copied, Empty
    <3>2. /\ _read_idx'[q] = r + 1
          /\ \A v \in Workers : v # q => _read_idx'[v] = _read_idx[v]
      BY <2>0, <2>2 DEF TypeInv
    <3>f. x = _write_idx[q] /\ r = _read_idx[q]
      OBVIOUS
    <3> HIDE DEF q, r, x
    <3>3. \A v \in Workers : \A i, k : At(v, i, k)' <=> At(v, i, k) /\ ~(v = q /\ i = r)
      <4> TAKE v \in Workers
      <4> TAKE i, k
      <4>1. CASE v = q
        <5>1. i \in Int /\ r + 1 <= i /\ i < x <=> i \in Int /\ r <= i /\ i < x /\ i # r
          BY <3>1, IndexSteps
        <5> QED BY <1>0, <3>1, <3>2, <3>f, <4>1, <5>1 DEF At
      <4>2. CASE v # q
        BY <1>0, <3>2, <4>2 DEF At
      <4> QED BY <4>1, <4>2
    <3>4. At(q, r, at[w].task)
      <4>1. r < x /\ r \in Int /\ r <= r
        BY <3>1, RingSteps, IndexSteps, WorkersFacts
      <4> QED BY <3>1, <3>f, <4>1 DEF At
    <3>5. at[w].task \in 1..submitted
      BY <1>m, <3>1, <3>4 DEF Places, Known
    <3>6. \A k : ~Held(w, k) /\ (Held(w, k)' <=> k = at[w].task)
      BY <2>0, <2>2 DEF Held
    <3>7. ASSUME NEW k \in 1..submitted, k # at[w].task PROVE OnePlace(k)'
      <4>1. ASSUME NEW v \in Workers, NEW i PROVE At(v, i, k)' <=> At(v, i, k)
        <5>1. ~At(q, r, k)
          <6>1. _buffer[q][r % _queue_size] # k
            BY <3>1, <3>7
          <6> QED BY <6>1 DEF At
        <5>2. At(v, i, k)' <=> At(v, i, k) /\ ~(v = q /\ i = r)
          BY <3>3
        <5> QED BY <5>1, <5>2
      <4>2. \A v \in Workers : Held(v, k)' <=> Held(v, k)
        BY <1>h, <3>6, <3>7
      <4> QED BY <1>w, <2>0, <4>1, <4>2, OneSame DEF Places
    <3>8. ASSUME NEW k \in 1..submitted, k = at[w].task PROVE OnePlace(k)'
      <4>0. OnePlace(k) /\ At(q, r, k)
        BY <3>4, <3>8 DEF Places
      <4>1. /\ \A v \in Workers : \A i : At(v, i, k) => v = q /\ i = r
            /\ ran[k] = 0
        BY <3>1, <4>0 DEF OnePlace
      <4>2. /\ \A t \in Threads : ~With(t, k)
            /\ \A v \in Workers : ~Held(v, k)
        BY <3>1, <4>0 DEF OnePlace
      <4>3. ASSUME NEW v \in Workers, NEW i PROVE ~At(v, i, k)'
        <5>1. At(v, i, k)' <=> At(v, i, k) /\ ~(v = q /\ i = r)
          BY <3>3
        <5> QED BY <4>1, <5>1
      <4>4. \A v \in Workers : Held(v, k)' <=> v = w
        BY <1>h, <3>6, <3>8, <4>2
      <4>5. \A t \in Threads : ~With(t, k)'
        BY <1>w, <4>2
      <4> QED BY <2>0, <4>1, <4>3, <4>4, <4>5 DEF OnePlace
    <3>9. Known'
      <4>1. \A t \in Threads, k \in 0..MaxTasks : With(t, k)' => k \in 1..submitted
        BY <1>w DEF Places, Known
      <4>2. \A v \in Workers, k \in 0..MaxTasks : Held(v, k)' => k \in 1..submitted
        BY <1>h, <3>5, <3>6 DEF Places, Known
      <4>3. \A v \in Workers, k \in 0..MaxTasks : \A i : At(v, i, k)' => k \in 1..submitted
        BY <3>3 DEF Places, Known
      <4>4. \A k \in Tasks : k > submitted => ran[k] = 0
        BY DEF Places, Known
      <4> QED BY <1>0, <2>0, <4>1, <4>2, <4>3, <4>4 DEF Known
    <3> QED BY <1>0, <3>7, <3>8, <3>9 DEF Places
  <2> QED BY <1>3, <2>1, <2>2, popMoves
<1>4. CASE run(w)
  <2>0. /\ pc[w] = "run" /\ pc'[w] \notin {"run", "got"}
        /\ ran' = [ran EXCEPT ![at[w].task] = @ + 1] /\ _read_idx' = _read_idx
    BY <1>4, taskMoves DEF run
  <2>1. \A k : (Held(w, k) <=> k = at[w].task) /\ ~Held(w, k)'
    BY <2>0 DEF Held
  <2>2. at[w].task \in 1..submitted
    BY <1>m, <2>1 DEF Places, Known
  <2>3. ASSUME NEW x \in 1..submitted, x = at[w].task PROVE Places'
    <3>1. Held(w, x) /\ OnePlace(x)
      BY <2>1, <2>3 DEF Places
    <3>2. \A t \in Threads : \A k : With(t, k)' <=> With(t, k) /\ k # x
      BY <1>w, <3>1 DEF OnePlace
    <3>3. \A v \in Workers : \A k : Held(v, k)' <=> Held(v, k) /\ k # x
      BY <1>h, <2>1, <2>3, <3>1 DEF OnePlace
    <3>4. \A v \in Workers : \A i, k : At(v, i, k)' <=> At(v, i, k)
      BY <1>0, <2>0, AtSame
    <3> QED BY <1>0, <2>0, <2>3, <3>1, <3>2, <3>3, <3>4, RanPlaces
  <2> QED BY <2>2, <2>3
<1>5. CASE standby(w)
  BY <1>n, <1>5, standbyMoves DEF standby
<1>6. CASE uncount(w)
  BY <1>n, <1>6, uncountMoves DEF uncount
<1>7. CASE tryStealOne(w)
  BY <1>n, <1>7, stealMoves DEF tryStealOne
<1>8. CASE scan(w)
  <2>1. pc[w] \notin {"run", "got"} /\ pc'[w] \notin {"run", "got"}
    BY <1>8, turnMoves
  <2> QED BY <1>n, <1>8, <2>1 DEF scan
<1>9. CASE sleep(w)
  BY <1>n, <1>9, sleepMoves DEF sleep
<1>10. CASE predicate(w)
  <2>1. pc[w] \notin {"run", "got"} /\ pc'[w] \notin {"run", "got"}
    BY <1>10, predicateMoves
  <2> QED BY <1>n, <1>10, <2>1 DEF predicate
<1>11. CASE woken(w)
  BY <1>n, <1>11, wokenMoves DEF woken
<1>12. CASE got(w)
  <2>1. pc[w] = "got" /\ Held(w, at[w].task)
    BY <1>12, gotMoves DEF Held
  <2>2. at[w].task # 0
    BY <1>m, <2>1, SubmittedFacts DEF Places, Known
  <2>3. pc'[w] = "run" /\ at'[w].task = at[w].task
    BY <1>12, <2>2, gotMoves
  <2> QED BY <1>n, <1>12, <2>1, <2>3 DEF got
<1> QED BY <1>1, <1>2, <1>3, <1>4, <1>5, <1>6, <1>7, <1>8, <1>9, <1>10, <1>11, <1>12
        DEF worker

-----------------------------------------------------------------------------
(* What a worker that waits has seen.                                      *)

\* The mark delayed is never cleared.
LEMMA DelayedStays ==
  ASSUME NEW t \in Threads, thread(t), ~delayed'
  PROVE  ~delayed
  BY DEF thread, submit, getActiveThread_lock, getActiveThread_scan, getActiveThread_pair, push,
     push_publish, push_delayed, submit_run, submit_load, submit_notify, thread_exit,
     deleteThreadLocalPairThread, deleteThreadLocalPairThread_cas, history

\* Nothing is asked of a worker that neither sleeps nor is about to.
LEMMA SeenAwake ==
  ASSUME NEW w \in Workers, ~Locked(w), pc[w] # "waiting"
  PROVE  Seen(w)
  BY DEF Seen, Locked, InWait

\* A worker whose view does not change keeps it.
LEMMA SeenSame ==
  ASSUME NEW w \in Workers, Seen(w), UNCHANGED <<pc, at, _read_idx, _write_idx>>, Up' = Up
  PROVE  Seen(w)'
<1>1. \A v : Empty(v)' <=> Empty(v)
  BY DEF Empty
<1>2. InWait(w)' <=> InWait(w)
  BY DEF InWait
<1> HIDE DEF Up
<1> QED BY <1>1, <1>2 DEF Seen

\* A thread that gives its worker back changes no worker's being up.
LEMMA CasUp ==
  ASSUME TypeInv, NEW t \in Threads, deleteThreadLocalPairThread_cas(t), Placed(t), Paired
  PROVE  Up' = Up
<1>1. CASE status' = status
  BY <1>1 DEF Up
<1>2. CASE /\ status[my[t].td] = my[t].status
           /\ status' = [status EXCEPT ![my[t].td] = "INACTIVE"]
  <2>1. my[t].td \in Workers /\ status[my[t].td] = "ACTIVE"
    BY <1>2, casMoves DEF Placed, Paired
  <2>2. \A w \in Workers : status'[w] = IF w = my[t].td THEN "INACTIVE" ELSE status[w]
    BY <1>2 DEF TypeInv
  <2>3. \A w \in Workers : w \in Up' <=> w \in Up
    BY <2>1, <2>2 DEF Up
  <2>4. Up' \subseteq Workers /\ Up \subseteq Workers
    BY DEF Up
  <2> QED BY <2>3, <2>4
<1> QED BY <1>1, <1>2, casMoves

\* A thread leaves submit only when nobody sleeps, or all have been told.
LEMMA ThreadSeen ==
  ASSUME TypeInv, NEW t \in Threads, thread(t), Placed(t), Paired, WaitsAlone, Counted,
         ~delayed', ~Pending', ~delayed /\ ~Pending => \A w \in Workers : Seen(w)
  PROVE  \A w \in Workers : Seen(w)'
<1>0. /\ \A u \in Threads \ {t} : tpc'[u] = tpc[u]
      /\ at' = at /\ _read_idx' = _read_idx
      /\ pc' = pc \/ submit_notify(t)
  BY ThreadFrame DEF SameThread
<1>1. ~delayed /\ tpc'[t] \notin Inside /\ \A u \in Threads \ {t} : tpc[u] \notin Inside
  BY <1>0, DelayedStays DEF Pending
<1>n. ASSUME tpc[t] \notin Inside, pc' = pc, Up' = Up, _write_idx' = _write_idx
      PROVE  \A w \in Workers : Seen(w)'
  <2>1. ~Pending
    BY <1>1, <1>n DEF Pending
  <2>2. \A w \in Workers : Seen(w)
    BY <1>1, <2>1
  <2> QED BY <1>0, <1>n, <2>2, SeenSame
<1> USE DEF queues, pool, workers
<1>2. CASE submit(t)
  BY <1>1, <1>2, submitMoves DEF Inside, Holding
<1>3. CASE getActiveThread_lock(t)
  BY <1>1, <1>3, lockMoves DEF Inside, Holding
<1>4. CASE getActiveThread_scan(t)
  BY <1>1, <1>4, scanMoves DEF Inside, Holding
<1>5. CASE getActiveThread_pair(t)
  BY <1>1, <1>5, pairMoves DEF Inside, Holding
<1>6. CASE push(t)
  BY <1>1, <1>6, pushMoves DEF Inside, Holding
<1>7. CASE push_publish(t)
  BY <1>1, <1>7, publishMoves DEF Inside, Placed
<1>8. CASE push_delayed(t)
  BY <1>1, <1>8, delayedMoves DEF Inside, Holding
<1>9. CASE submit_run(t)
  BY <1>1, <1>9, runMoves DEF Inside
<1>10. CASE submit_load(t)
  <2>1. pc' = pc /\ _write_idx' = _write_idx /\ Up' = Up
    BY <1>10 DEF submit_load, Up
  <2>2. ~(_need_wakeup > 0)
    BY <1>1, <1>10, loadMoves DEF Inside
  <2>3. Asleep = {}
    <3>1. Asleep \in SUBSET Workers
      BY DEF Asleep
    <3>2. Cardinality(Asleep) \in Nat /\ (Cardinality(Asleep) = 0 <=> Asleep = {})
      BY <3>1, CountsNat
    <3>3. \A n \in Nat : ~(n > 0) => n = 0
      BY SMT
    <3> QED BY <2>2, <3>2, <3>3 DEF Counted
  <2>4. ASSUME NEW w \in Workers PROVE Seen(w)'
    <3>1. ~Sleeps(w)
      BY <2>3 DEF Asleep
    <3>2. Seen(w)
      BY <3>1, SeenAwake DEF Sleeps
    <3> QED BY <1>0, <2>1, <3>2, SeenSame
  <2> QED BY <2>4
<1>11. CASE submit_notify(t)
  <2>1. _td_wakeup_mtx /\ notify_all
    BY <1>11, notifyMoves
  <2>2. ASSUME NEW w \in Workers PROVE Seen(w)'
    <3>1. ~Locked(w)
      BY <2>1 DEF WaitsAlone
    <3>2. pc'[w] # "waiting" /\ (pc'[w] = pc[w] \/ pc'[w] = "woken") /\ at'[w] = at[w]
      BY <1>0, <2>1, NotifyMoves
    <3>3. ~Locked(w)'
      BY <3>1, <3>2 DEF Locked, InWait
    <3> QED BY <3>2, <3>3 DEF Seen, Locked, InWait
  <2> QED BY <2>2
<1>12. CASE thread_exit(t)
  <2>1. tpc[t] \notin Inside /\ pc' = pc /\ _write_idx' = _write_idx /\ Up' = Up
    BY <1>12 DEF thread_exit, Inside, Holding, Up
  <2> QED BY <1>n, <2>1
<1>13. CASE deleteThreadLocalPairThread(t)
  <2>1. tpc[t] \notin Inside /\ pc' = pc /\ _write_idx' = _write_idx /\ Up' = Up
    BY <1>13 DEF deleteThreadLocalPairThread, Inside, Holding, Up
  <2> QED BY <1>n, <2>1
<1>14. CASE deleteThreadLocalPairThread_cas(t)
  <2>1. tpc[t] \notin Inside /\ pc' = pc /\ _write_idx' = _write_idx
    BY <1>14 DEF deleteThreadLocalPairThread_cas, Inside, Holding
  <2> QED BY <1>n, <1>14, <2>1, CasUp
<1> QED BY <1>2, <1>3, <1>4, <1>5, <1>6, <1>7, <1>8, <1>9, <1>10, <1>11, <1>12, <1>13,
        <1>14 DEF thread

\* Of two sets of workers the smaller one has fewer.
LEMMA FewerUp ==
  ASSUME TypeInv, NEW w \in Workers, worker(w)
  PROVE  /\ Cardinality(Up) \in Nat /\ Cardinality(Up') \in Nat
         /\ Cardinality(Up') <= Cardinality(Up)
<1>1. status' = status \/ status' = [status EXCEPT ![w] = "STANDBY"]
  BY DEF worker, loop_top, pop_copy, pop_cas, run, standby, uncount, tryStealOne, scan, sleep,
     predicate, woken, got, pool
<1>2. \A v \in Workers : status'[v] = status[v] \/ status'[v] = "STANDBY"
  BY <1>1 DEF TypeInv
<1>3. Up' \subseteq Up /\ Up \subseteq Workers
  BY <1>2 DEF Up
<1>4. IsFiniteSet(Up)
  BY <1>3, CountsNat
<1> HIDE DEF Up
<1> QED BY <1>3, <1>4, CountsNat, FS_Subset

\* A step of a worker's loop keeps what a waiting worker has seen of the queues true.
LEMMA WorkerSeen ==
  ASSUME TypeInv, NEW w \in Workers, worker(w), Posted(w), Queues, Drained, ActiveCounted,
         ~_exit, ~Pending, \A v \in Workers : Seen(v)
  PROVE  \A v \in Workers : Seen(v)'
<1>0. \A v \in Workers \ {w} : pc'[v] = pc[v] /\ at'[v] = at[v]
  BY WorkerFrame DEF SameWorker
<1>e. \A v \in Workers : Empty(v) => Empty(v)'
  BY WorkerEmpty
<1>c. /\ Cardinality(Up) \in Int /\ Cardinality(Up') \in Int
      /\ Cardinality(Up') <= Cardinality(Up) /\ \A v \in Workers : v \in Int /\ v \in Nat
  <2>1. \A n \in Nat : n \in Int
    BY SMT
  <2> QED BY <2>1, FewerUp, WorkersFacts
<1>l. \A v \in Int : Cardinality(Up) <= v => Cardinality(Up') <= v
  BY <1>c, TurnSteps
<1>k. ASSUME NEW v \in Workers, Seen(v), pc'[v] = pc[v] \/ (pc[v] \in {"scan", "pop", "again", "cas"}
               /\ pc'[v] \in {"scan", "pop", "again", "cas"}),
             at'[v].by = at[v].by, at'[v].status = at[v].status,
             at'[v].active_td = at[v].active_td, at[v].active_td \in Int,
             at'[v].i = at[v].i \/ (at'[v].i = at[v].i + 1 /\ at[v].i \in Int /\
                                    (at[v].i \in Workers /\ at[v].by = "tryGetOne" => Empty(at[v].i)))
      PROVE  Seen(v)'
  <2>1. ASSUME pc'[v] = "waiting", at'[v].status # "STANDBY" PROVE Empty(v)'
    BY <1>k, <1>e, <2>1 DEF Seen
  <2>2. ASSUME pc'[v] = "waiting", at'[v].status = "STANDBY", NEW x \in Workers
        PROVE  Empty(x)' \/ Cardinality(Up') <= x
    <3>1. Empty(x) \/ Cardinality(Up) <= x
      BY <1>k, <2>2 DEF Seen
    <3> QED BY <1>e, <1>l, <1>c, <3>1
  <2>3. ASSUME pc'[v] \in {"scan", "pop", "again", "cas"}, at'[v].by = "tryGetOne"
        PROVE  /\ Cardinality(Up') <= at'[v].active_td
               /\ \A x \in Workers : x < at'[v].i => Empty(x)'
    <3>1. /\ Cardinality(Up) <= at[v].active_td
          /\ \A x \in Workers : x < at[v].i => Empty(x)
      BY <1>k, <2>3 DEF Seen
    <3>2. ASSUME NEW x \in Workers, x < at'[v].i PROVE Empty(x)
      <4>1. CASE at'[v].i = at[v].i
        BY <3>1, <3>2, <4>1
      <4>2. CASE /\ at'[v].i = at[v].i + 1 /\ at[v].i \in Int
                 /\ at[v].i \in Workers /\ at[v].by = "tryGetOne" => Empty(at[v].i)
        <5>0. x < at[v].i + 1 /\ x \in Int /\ at[v].i \in Int
          BY <1>c, <3>2, <4>2
        <5>1. x < at[v].i \/ x = at[v].i
          BY <5>0, TurnSteps
        <5> QED BY <1>k, <2>3, <3>1, <4>2, <5>1
      <4> QED BY <1>k, <4>1, <4>2
    <3> QED BY <1>e, <1>l, <1>k, <3>1, <3>2
  <2>4. pc'[v] \in {"scan", "pop", "again", "cas"} /\ InWait(v)' =>
       (at'[v].status = "STANDBY") = (at'[v].by = "tryGetOne")
    BY <1>k DEF Seen, InWait
  <2> HIDE DEF Up
  <2> QED BY <2>1, <2>2, <2>3, <2>4 DEF Seen
<1>v. ASSUME NEW v \in Workers \ {w} PROVE Seen(v)'
  <2>1. at[v].active_td \in Int
    BY AtFields
  <2> QED BY <1>0, <1>k, <2>1
<1> SUFFICES Seen(w)'
  BY <1>v
<1>a. ASSUME pc'[w] # "waiting",
             pc'[w] \notin {"scan", "pop", "again", "cas"} \/ at'[w].by \in {"tryConsume", "tryStealOne"}
      PROVE  Seen(w)'
  BY <1>a DEF Seen, InWait
<1>s. Seen(w) /\ at[w].active_td \in Int /\ at[w].i \in Int
  <2>1. \A n \in Nat : n \in Int
    BY SMT
  <2> QED BY <2>1, AtFields
<1>1. CASE loop_top(w)
  BY <1>a, <1>1, topMoves
<1>2. CASE pop_copy(w)
  <2>0. /\ pc[w] \in {"pop", "again"} /\ rest(w).by = "tryConsume" /\ rest(w).status = at[w].status
    BY <1>2, copyMoves, AtFields
  <2>1. CASE pc'[w] = "cas" /\ SameTurn(w)
    BY <1>k, <1>s, <2>0, <2>1 DEF SameTurn
  <2>2. CASE at[w].by = "tryConsume" /\ pc'[w] \in {"standby", "steal"}
    BY <1>a, <2>2
  <2>3. CASE /\ at[w].by \in {"tryStealOne", "tryGetOne"} /\ pc'[w] = "scan"
             /\ at'[w].by = at[w].by /\ at'[w].i = at[w].i + 1
             /\ at'[w].status = at[w].status /\ at'[w].active_td = at[w].active_td
             /\ Empty(queue(w)) \/ (_exit /\ ~InWait(w))
    <3>1. Empty(at[w].i)
      BY <2>3 DEF queue
    <3> QED BY <1>k, <1>s, <2>0, <2>3, <3>1
  <2>4. CASE /\ at[w].by = "tryGetOwn" /\ pc'[w] = "waiting" /\ at'[w] = rest(w)
             /\ Empty(queue(w)) \/ (_exit /\ ~InWait(w))
    <3>1. Empty(w)'
      BY <1>e, <2>4 DEF queue
    <3>2. at'[w].status # "STANDBY"
      BY <1>s, <2>0, <2>4 DEF Seen, InWait
    <3> QED BY <2>4, <3>1, <3>2 DEF Seen
  <2> QED BY <1>2, <2>1, <2>2, <2>3, <2>4, copyMoves
<1>3. CASE pop_cas(w)
  <2>0. pc[w] = "cas" /\ SameTurn(w)
    BY <1>3, popMoves
  <2>1. CASE pc'[w] = "again"
    BY <1>k, <1>s, <2>0, <2>1 DEF SameTurn
  <2>2. CASE pc'[w] \in {"got", "run"}
    BY <1>a, <2>2
  <2> QED BY <1>3, <2>1, <2>2, popMoves
<1>4. CASE run(w)
  BY <1>a, <1>4, taskMoves
<1>5. CASE standby(w)
  BY <1>a, <1>5, standbyMoves
<1>6. CASE uncount(w)
  BY <1>a, <1>6, uncountMoves
<1>7. CASE tryStealOne(w)
  BY <1>a, <1>7, stealMoves
<1>8. CASE scan(w)
  <2>0. pc[w] = "scan" /\ at[w].by \in {"tryStealOne", "tryGetOne"}
        /\ rest(w).by = "tryConsume" /\ rest(w).status = at[w].status
    BY <1>8, turnMoves, AtFields DEF Posted
  <2>1. CASE pc'[w] = "pop" /\ at'[w] = at[w]
    BY <1>k, <1>s, <2>0, <2>1
  <2>2. CASE /\ at[w].i \in Workers /\ status[at[w].i] = "STANDBY" /\ pc'[w] = "scan"
             /\ at'[w].by = at[w].by /\ at'[w].i = at[w].i + 1
             /\ at'[w].status = at[w].status /\ at'[w].active_td = at[w].active_td
    <3>1. Empty(at[w].i)
      BY <2>2 DEF Drained
    <3> QED BY <1>k, <1>s, <2>0, <2>2, <3>1
  <2>3. CASE ~InWait(w) /\ pc'[w] = "sleep"
    BY <1>a, <2>3
  <2>4. CASE /\ at[w].i >= at[w].active_td /\ at'[w] = rest(w) /\ InWait(w)
             /\ pc'[w] = "waiting"
    <3>1. at[w].by = "tryGetOne" /\ at[w].status = "STANDBY"
      BY <1>s, <2>0, <2>4 DEF Seen, InWait
    <3>2. /\ Cardinality(Up) <= at[w].active_td
          /\ \A x \in Workers : x < at[w].i => Empty(x)
      BY <1>s, <2>0, <3>1 DEF Seen
    <3>3. ASSUME NEW x \in Workers PROVE Empty(x)' \/ Cardinality(Up') <= x
      <4>1. x < at[w].i \/ Cardinality(Up) <= x
        BY <1>c, <1>s, <2>4, <3>2, TurnSteps
      <4> QED BY <1>c, <1>e, <1>l, <3>2, <4>1
    <3>4. at'[w].status = "STANDBY"
      BY <2>0, <2>4, <3>1
    <3> HIDE DEF Up
    <3> QED BY <2>4, <3>3, <3>4 DEF Seen
  <2> QED BY <1>8, <2>1, <2>2, <2>3, <2>4, turnMoves
<1>9. CASE sleep(w)
  BY <1>a, <1>9, sleepMoves
<1>10. CASE predicate(w)
  <2>1. CASE /\ at[w].status = "STANDBY" /\ pc'[w] = "scan"
             /\ at'[w].by = "tryGetOne" /\ at'[w].active_td = _active_td_size
             /\ at'[w].status = at[w].status /\ at'[w].i = at[w].i
    <3>1. at'[w].i = 0
      BY <1>10, <2>1, predicateMoves DEF Posted
    <3>2. Cardinality(Up) <= _active_td_size
      <4>1. Counting = {}
        BY DEF Counting, Pending, Inside, Holding
      <4>2. Cardinality(Counting) = 0
        BY <4>1, FS_EmptySet
      <4>3. Uncounting \in SUBSET Workers /\ Up \in SUBSET Workers
        BY DEF Uncounting, Up
      <4>4. Cardinality(Uncounting) \in Nat /\ Cardinality(Up) \in Nat
        BY <4>3, CountsNat
      <4> HIDE DEF Up, Uncounting, Counting
      <4> QED BY <4>2, <4>4, TurnSteps DEF ActiveCounted
    <3>3. Cardinality(Up') <= at'[w].active_td
      <4>1. _active_td_size \in Int
        BY DEF TypeInv
      <4> QED BY <1>l, <2>1, <3>2, <4>1
    <3>4. \A x \in Workers : ~(x < at'[w].i)
      BY <1>c, <3>1, TurnSteps
    <3> HIDE DEF Up
    <3> QED BY <2>1, <3>3, <3>4 DEF Seen
  <2>2. CASE /\ at[w].status # "STANDBY" /\ pc'[w] = "pop"
             /\ at'[w].by = "tryGetOwn" /\ at'[w].status = at[w].status
    BY <2>2 DEF Seen
  <2> QED BY <1>10, <2>1, <2>2, predicateMoves
<1>11. CASE woken(w)
  BY <1>a, <1>11, wokenMoves
<1>12. CASE got(w)
  BY <1>a, <1>12, gotMoves
<1> QED BY <1>1, <1>2, <1>3, <1>4, <1>5, <1>6, <1>7, <1>8, <1>9, <1>10, <1>11, <1>12
        DEF worker

-----------------------------------------------------------------------------
(* The invariant.                                                          *)

\* The constructed pool satisfies the inductive invariant of the tasks.
LEMMA InitTask == Init => TaskInv
<1> SUFFICES ASSUME Init PROVE TaskInv
  OBVIOUS
<1>1. /\ \A t \in Threads : tpc[t] = "idle"
      /\ \A w \in Workers : pc[w] = "top" /\ _read_idx[w] = 0 /\ _write_idx[w] = 0
      /\ (\A k \in Tasks : ran[k] = 0) /\ submitted = 0
  BY InitStill
<1>2. Drained
  BY <1>1 DEF Drained, Empty
<1>3. Places
  <2>0. (\A k : k \notin 1..0) /\ \A i \in Int : ~(0 <= i /\ i < 0)
    BY SMT
  <2>1. \A t \in Threads : \A k : ~With(t, k)
    BY <1>1 DEF With, Holding
  <2>2. \A w \in Workers : \A k : ~Held(w, k)
    BY <1>1 DEF Held
  <2>3. \A w \in Workers : \A i, k : ~At(w, i, k)
    BY <1>1, <2>0 DEF At
  <2>4. Known
    BY <1>1, <2>1, <2>2, <2>3 DEF Known
  <2> QED BY <1>1, <2>0, <2>4 DEF Places
<1>4. \A w \in Workers : Seen(w)
  <2>1. \A w \in Workers : ~Sleeps(w) /\ ~Locked(w)
    BY <1>1 DEF Sleeps, Locked
  <2> QED BY <1>1, <2>1, SeenAwake
<1> QED BY <1>2, <1>3, <1>4, InitPool DEF TaskInv

\* A step of a submitting thread keeps the whole inductive invariant of the tasks.
LEMMA ThreadTask ==
  ASSUME TaskInv, NEW t \in Threads, thread(t)
  PROVE  TaskInv'
<1>0. /\ PoolInv /\ TypeInv /\ (\A u \in Threads : Placed(u)) /\ (\A v \in Workers : Posted(v))
      /\ PairsAlone /\ WaitsAlone /\ Counted /\ Closing /\ Ended
  BY DEF TaskInv, PoolInv
<1>f. UNCHANGED _exit
  BY <1>0, ThreadFrame
<1>u. ~unpaired' => ~unpaired
  BY <1>0, UnpairedStays DEF Next
<1>1. PoolInv'
  BY <1>0, ThreadPoolInv
<1>2. ASSUME ~unpaired', ~_exit'
      PROVE  Drained' /\ Places'
  <2>1. Paired /\ Queues /\ Drained /\ Places
    BY <1>f, <1>u, <1>2 DEF TaskInv, PoolInv
  <2> QED BY <1>0, <2>1, ThreadDrained, ThreadPlaces
<1>3. ASSUME ~unpaired', ~_exit', ~delayed', ~Pending'
      PROVE  \A w \in Workers : Seen(w)'
  <2>1. Paired /\ (~delayed /\ ~Pending => \A w \in Workers : Seen(w))
    BY <1>f, <1>u, <1>3 DEF TaskInv, PoolInv
  <2> QED BY <1>0, <1>3, <2>1, ThreadSeen
<1> QED BY <1>1, <1>2, <1>3 DEF TaskInv

\* A step of a worker's loop keeps the whole inductive invariant of the tasks.
LEMMA WorkerTask ==
  ASSUME TaskInv, NEW w \in Workers, worker(w)
  PROVE  TaskInv'
<1>0. /\ PoolInv /\ TypeInv /\ (\A u \in Threads : Placed(u)) /\ (\A v \in Workers : Posted(v))
      /\ PairsAlone /\ WaitsAlone /\ Counted /\ Closing /\ Ended
  BY DEF TaskInv, PoolInv
<1>f. UNCHANGED <<tpc, _exit, unpaired, delayed>>
  BY <1>0, WorkerFrame
<1>1. PoolInv'
  BY <1>0, WorkerPoolInv
<1>2. ASSUME ~unpaired', ~_exit'
      PROVE  Drained' /\ Places'
  <2>1. Queues /\ Drained /\ Places /\ ~_exit
    BY <1>f, <1>2 DEF TaskInv, PoolInv
  <2> QED BY <1>0, <2>1, WorkerDrained, WorkerPlaces
<1>3. ASSUME ~unpaired', ~_exit', ~delayed', ~Pending'
      PROVE  \A v \in Workers : Seen(v)'
  <2>0. ~Pending
    BY <1>f, <1>3 DEF Pending
  <2>1. Queues /\ Drained /\ ActiveCounted /\ ~_exit /\ \A v \in Workers : Seen(v)
    BY <1>f, <1>3, <2>0 DEF TaskInv, PoolInv
  <2> QED BY <1>0, <2>0, <2>1, WorkerSeen
<1> QED BY <1>1, <1>2, <1>3 DEF TaskInv

\* A step of ~ThreadPool keeps the whole inductive invariant of the tasks.
LEMMA DestructorTask ==
  ASSUME TaskInv, destructor_step
  PROVE  TaskInv'
<1>0. /\ PoolInv /\ TypeInv /\ (\A u \in Threads : Placed(u)) /\ (\A v \in Workers : Posted(v))
      /\ PairsAlone /\ WaitsAlone /\ Counted /\ Closing /\ Ended
  BY DEF TaskInv, PoolInv
<1> QED BY <1>0, DestructorExits, DestructorPoolInv DEF TaskInv

\* A step that changes nothing keeps the inductive invariant.
LEMMA StutterTask == TaskInv /\ UNCHANGED vars => TaskInv'
<1> SUFFICES ASSUME TaskInv, UNCHANGED vars PROVE TaskInv'
  OBVIOUS
<1>1. PoolInv'
  BY StutterPool DEF TaskInv
<1> USE DEF vars, pool, mutexes, queues, threads, workers, destructor, history
<1>2. ~unpaired /\ ~_exit => Drained' /\ Places'
  <2>1. \A t \in Threads : \A k : With(t, k)' <=> With(t, k)
    BY DEF With
  <2>2. \A w \in Workers : \A k : Held(w, k)' <=> Held(w, k)
    BY DEF Held
  <2>3. Places => Places'
    BY <2>1, <2>2, AtSame, PlacesSame
  <2> QED BY <2>3 DEF TaskInv, Drained, Empty
<1>3. Pending' <=> Pending
  BY DEF Pending
<1>4. ~unpaired /\ ~_exit /\ ~delayed /\ ~Pending => \A w \in Workers : Seen(w)'
  <2>1. Up' = Up
    BY DEF Up
  <2> QED BY <2>1, SeenSame DEF TaskInv
<1> QED BY <1>1, <1>2, <1>3, <1>4 DEF TaskInv

\* The invariant of the tasks, on top of the one of the pool: a worker stands by
\* only with an empty queue, every task is in one place, and a worker that waits has
\* seen the queues that it looks after empty after it was counted in _need_wakeup.
THEOREM TasksAccounted == Spec => []TaskInv
<1>1. TaskInv /\ [Next]_vars => TaskInv'
  BY ThreadTask, WorkerTask, DestructorTask, StutterTask DEF Next
<1> QED BY <1>1, InitTask, PTL DEF Spec

-----------------------------------------------------------------------------
(* What the invariant says of the properties.                              *)

\* The inductive invariant contains the property TaskInOnePlace.
LEMMA TasksFollow == TaskInv => TaskInOnePlace
<1> SUFFICES ASSUME TaskInv, ~_exit, ~unpaired, NEW k \in 1..submitted
             PROVE  Cardinality({t \in Threads : my[t].task = k /\ tpc[t] \in
                       {"run", "lock", "scan", "count", "push", "publish", "published_late"}})
                      + Cardinality({w \in Workers : k \in queued(w)})
                      + Cardinality(holders(k)) + ran[k] = 1
  BY DEF TaskInOnePlace
<1> DEFINE T == {t \in Threads : my[t].task = k /\ tpc[t] \in
                   {"run", "lock", "scan", "count", "push", "publish", "published_late"}}
           Q == {w \in Workers : k \in queued(w)}
           H == holders(k)
<1>0. TypeInv /\ OnePlace(k)
  BY DEF TaskInv, PoolInv, Places
<1>1. \A t : t \in T <=> t \in Threads /\ With(t, k)
  BY DEF With, Holding
<1>2. \A w : w \in H <=> w \in Workers /\ Held(w, k)
  BY DEF holders, Held
<1>3. \A w : w \in Q <=> w \in Workers /\ \E i : At(w, i, k)
  <2>1. ASSUME NEW w \in Workers PROVE k \in queued(w) <=> \E i : At(w, i, k)
    <3>1. _read_idx[w] \in Nat /\ _write_idx[w] \in Nat
      BY <1>0 DEF TypeInv
    <3>2. \A r, x \in Nat : \A i : i \in r..(x - 1) <=> i \in Int /\ r <= i /\ i < x
      BY SMT
    <3>3. \A i : i \in _read_idx[w]..(_write_idx[w] - 1) <=>
                   i \in Int /\ _read_idx[w] <= i /\ i < _write_idx[w]
      BY <3>1, <3>2
    <3> QED BY <3>3 DEF queued, At
  <2> QED BY <2>1
<1> HIDE DEF T, Q, H
<1>e. Cardinality({}) = 0 /\ \A x : Cardinality({x}) = 1
  BY FS_EmptySet, FS_Singleton
<1>z. 1 + 0 + 0 + 0 = 1 /\ 0 + 1 + 0 + 0 = 1 /\ 0 + 0 + 1 + 0 = 1 /\ 0 + 0 + 0 + 1 = 1
  BY SMT
<1>c. Cardinality(T) + Cardinality(Q) + Cardinality(H) + ran[k] = 1
  <2>1. ASSUME NEW t \in Threads, With(t, k)
        PROVE  Cardinality(T) + Cardinality(Q) + Cardinality(H) + ran[k] = 1
    <3>1. T = {t} /\ Q = {} /\ H = {} /\ ran[k] = 0
      BY <1>0, <1>1, <1>2, <1>3, <2>1 DEF OnePlace
    <3> QED BY <1>e, <1>z, <3>1
  <2>2. ASSUME NEW w \in Workers, Held(w, k)
        PROVE  Cardinality(T) + Cardinality(Q) + Cardinality(H) + ran[k] = 1
    <3>1. T = {} /\ Q = {} /\ H = {w} /\ ran[k] = 0
      BY <1>0, <1>1, <1>2, <1>3, <2>2 DEF OnePlace
    <3> QED BY <1>e, <1>z, <3>1
  <2>3. ASSUME NEW w \in Workers, NEW i, At(w, i, k)
        PROVE  Cardinality(T) + Cardinality(Q) + Cardinality(H) + ran[k] = 1
    <3>0. /\ ~\E t \in Threads : With(t, k)
          /\ ~\E v \in Workers : Held(v, k)
          /\ ran[k] = 0 /\ \A v \in Workers : \A j : At(v, j, k) => v = w
      BY <1>0, <2>3 DEF OnePlace
    <3>1. T = {} /\ H = {}
      BY <1>1, <1>2, <3>0
    <3>2. \A v : v \in Q <=> v = w
      BY <1>3, <2>3, <3>0
    <3>3. Q = {w}
      BY <3>2
    <3> QED BY <1>e, <1>z, <3>0, <3>1, <3>3
  <2>4. CASE /\ ~\E t \in Threads : With(t, k)
             /\ ~\E w \in Workers : Held(w, k)
             /\ ~\E w \in Workers : \E i : At(w, i, k)
    <3>1. T = {} /\ Q = {} /\ H = {} /\ ran[k] = 1
      BY <1>0, <1>1, <1>2, <1>3, <2>4 DEF OnePlace
    <3> QED BY <1>e, <1>z, <3>1
  <2> QED BY <2>1, <2>2, <2>3, <2>4
<1> QED BY <1>c DEF T, Q, H

\* Until the pool is destroyed a task that was handed in is in one place: with the
\* thread that submits it, in one queue, with one worker, or run, once.  Pops that
\* race for it, steals and slots that are used again do not change that, for every
\* size of the queues and every number of threads and workers.
THEOREM TaskIsInOnePlace == Spec => []TaskInOnePlace
  BY TasksAccounted, TasksFollow, PTL

\* All workers up to w are in S: S has more than w elements.
LEMMA PrefixCount ==
  ASSUME NEW S \in SUBSET Workers, NEW w \in Workers, \A v \in Workers : v <= w => v \in S
  PROVE  ~(Cardinality(S) <= w)
<1>0. w \in Nat /\ w < _td_capacity
  BY WorkersFacts
<1>1. (0..w) \subseteq S
  BY SMT, <1>0, WorkersFacts
<1>2. IsFiniteSet(S) /\ Cardinality(S) \in Nat
  BY CountsNat
<1>3. Cardinality(0..w) <= Cardinality(S)
  BY <1>1, <1>2, FS_Subset
<1>4. Cardinality(0..w) = IF 0 > w THEN 0 ELSE w - 0 + 1
  <2>1. 0 \in Int /\ w \in Int
    BY SMT, <1>0
  <2> QED BY <2>1, FS_Interval
<1> QED BY SMT, <1>0, <1>2, <1>3, <1>4

\* The inductive invariant implies the property NothingStranded.
LEMMA StrandedFollows == TaskInv => NothingStranded
<1> SUFFICES ASSUME TaskInv, Quiet PROVE NothingStranded
  BY DEF NothingStranded
<1>1. ASSUME ~Hole, ~delayed, ~_exit, ~unpaired, NEW w \in Workers
      PROVE  queued(w) = {}
  <2>0. /\ TypeInv /\ Ended /\ Drained /\ ~Pending
    BY <1>1 DEF TaskInv, PoolInv, Quiet, Pending, Inside, Holding
  <2>1. Seen(w)
    BY <1>1, <2>0 DEF TaskInv, PoolInv
  <2>2. pc[w] = "waiting"
    BY <1>1, <2>0 DEF Quiet, Ended
  <2>3. Empty(w) \/ Cardinality(Up) <= w
    BY <2>1, <2>2 DEF Seen
  <2>4. ASSUME ~Empty(w) PROVE FALSE
    <3>1. status[w] # "STANDBY"
      BY <2>0, <2>4 DEF Drained
    <3>2. ASSUME NEW v \in Workers, v <= w PROVE v \in Up
      <4>1. v < w \/ v = w
        <5>1. \A x, y \in Nat : x <= y => x < y \/ x = y
          BY SMT
        <5> QED BY <3>2, <5>1, WorkersFacts
      <4> QED BY <1>1, <3>1, <4>1 DEF Hole, Up
    <3>3. Up \in SUBSET Workers
      BY DEF Up
    <3> HIDE DEF Up
    <3> QED BY <2>3, <2>4, <3>2, <3>3, PrefixCount
  <2>5. _read_idx[w] = _write_idx[w] /\ _write_idx[w] \in Nat
    BY <2>0, <2>4 DEF Empty, TypeInv
  <2>6. \A n \in Nat : n..(n - 1) = {}
    BY SMT
  <2> QED BY <2>5, <2>6 DEF queued
<1>2. ASSUME dpc = "join", NEW w \in Workers PROVE pc[w] = "end"
  <2>1. Closing
    BY DEF TaskInv, PoolInv
  <2> QED BY <1>2, <2>1 DEF Closing, Quiet
<1> QED BY <1>1, <1>2 DEF NothingStranded

\* No wake-up is lost: when everybody waits, the queues are empty, because a worker
\* looked at them after it was counted in _need_wakeup and a thread looks at
\* _need_wakeup after its push; and the destructor never joins a worker that waits.
THEOREM NothingIsStranded == Spec => []NothingStranded
  BY TasksAccounted, StrandedFollows, PTL
=============================================================================
