----------------------------- MODULE ThreadPool -----------------------------
(***************************************************************************)
(* ThreadPool (include/common/thread_pool.h).  A thread that submits is    *)
(* paired with a worker of the pool and pushes into that worker's          *)
(* SPMCQueue (include/common/lockfree_queue.h); workers run what is in     *)
(* their own queue, steal from the others and then wait on a condition     *)
(* variable.  When a paired thread ends, its worker stands by again.       *)
(*                                                                         *)
(* A step is one access to shared memory; scans of the workers go worker   *)
(* by worker.  The reads of pop are one step: they count only if the       *)
(* compare-and-swap then finds the index unmoved.  So are the full test of *)
(* push and the store into a slot nobody reads before it is published.     *)
(* That publishing store may stay in the store buffer of an x86 processor  *)
(* while submit already loads _need_wakeup (push_delayed).                 *)
(***************************************************************************)
EXTENDS Integers, FiniteSets

CONSTANTS Threads,      \* that submit tasks
          _td_capacity,
          _queue_size,
          MaxTasks,     \* bound: calls of submit
          MaxEnds       \* bound: threads that end

ASSUME PoolAssumption == _td_capacity \in Nat /\ _queue_size \in Nat \ {0} /\ MaxTasks \in Nat

Workers == 0..(_td_capacity - 1)
Tasks == 1..MaxTasks
None == -1

VARIABLES
  status, _active_td_size, _exit, _need_wakeup,
  _td_mtx, _td_wakeup_mtx,          \* TRUE when free
  _buffer, _read_idx, _write_idx,   \* the queue of each worker
  _paired_thread,       \* thread -> its worker
  tpc, my,              \* submitting threads: position, local variables
  pc, at,               \* workers: position, local variables
  dpc, joined, deleted, \* ~ThreadPool: position, workers joined, and deleted
  submitted, ran,       \* history: calls of submit, how often each task was run
  delayed,              \* history: a task was published after _need_wakeup was read
  unpaired              \* history: a thread's end took the worker of another thread

queues == <<_buffer, _read_idx, _write_idx>>
pool == <<status, _active_td_size, _exit, _need_wakeup>>
mutexes == <<_td_mtx, _td_wakeup_mtx>>
threads == <<_paired_thread, tpc, my>>
workers == <<pc, at>>
destructor == <<dpc, joined, deleted>>
history == <<submitted, ran, delayed, unpaired>>
vars == <<pool, mutexes, queues, threads, workers, destructor, history>>

\* task_package, td, i, status.
Idle == [task |-> 0, td |-> None, i |-> 0, status |-> "STANDBY"]

\* status as read at the top of the loop; who called pop; the loop over
\* active_td workers; the queue, the index and the task of pop.
Start == [status |-> "STANDBY", by |-> "tryConsume", active_td |-> 0, i |-> 0,
          read |-> 0, task |-> 0]

\* After init(): every worker is about to enter its loop.
Init ==
  /\ status = [w \in Workers |-> "STANDBY"]
  /\ _active_td_size = 0 /\ _exit = FALSE /\ _need_wakeup = 0
  /\ _td_mtx = TRUE /\ _td_wakeup_mtx = TRUE
  /\ _buffer = [w \in Workers |-> [s \in 0..(_queue_size - 1) |-> 0]]
  /\ _read_idx = [w \in Workers |-> 0] /\ _write_idx = [w \in Workers |-> 0]
  /\ _paired_thread = [t \in Threads |-> None]
  /\ tpc = [t \in Threads |-> "idle"] /\ my = [t \in Threads |-> Idle]
  /\ pc = [w \in Workers |-> "top"] /\ at = [w \in Workers |-> Start]
  /\ dpc = "idle" /\ joined = 0 /\ deleted = {}
  /\ submitted = 0 /\ ran = [k \in Tasks |-> 0]
  /\ delayed = FALSE /\ unpaired = FALSE

----------------------------------------------------------------------------
(* A thread that submits, and the end of such a thread.                    *)

goto(t, label) == tpc' = [tpc EXCEPT ![t] = label]
return(t, label) == goto(t, label) /\ my' = [my EXCEPT ![t] = Idle]

\* submit() and the first half of getActiveThread(): without a free worker, or
\* while the pool is destroyed, the task is run here.
submit(t) ==
  /\ tpc[t] = "idle" /\ submitted < MaxTasks /\ ~_exit
  /\ submitted' = submitted + 1
  /\ my' = [my EXCEPT ![t] = [Idle EXCEPT !.task = submitted + 1,
                                          !.td = _paired_thread[t]]]
  /\ goto(t, CASE _active_td_size = _td_capacity -> "run"
               [] _active_td_size # _td_capacity /\ _paired_thread[t] = None -> "lock"
               [] OTHER -> "push")
  /\ UNCHANGED <<pool, mutexes, queues, _paired_thread, workers, destructor, ran,
                 delayed, unpaired>>

getActiveThread_lock(t) ==
  /\ tpc[t] = "lock" /\ _td_mtx
  /\ _td_mtx' = FALSE
  /\ goto(t, "scan")
  /\ UNCHANGED <<pool, _td_wakeup_mtx, queues, _paired_thread, my, workers, destructor,
                 history>>

\* One turn of the loop that looks for a worker that stands by.
getActiveThread_scan(t) ==
  /\ tpc[t] = "scan"
  /\ LET i == my[t].i IN
     \/ /\ i = _td_capacity
        /\ _td_mtx' = TRUE /\ goto(t, "run") /\ UNCHANGED <<status, my>>
     \/ /\ i < _td_capacity /\ status[i] # "STANDBY"
        /\ my' = [my EXCEPT ![t].i = i + 1] /\ UNCHANGED <<status, _td_mtx, tpc>>
     \/ /\ i < _td_capacity /\ status[i] = "STANDBY"
        /\ status' = [status EXCEPT ![i] = "ACTIVE"]
        /\ my' = [my EXCEPT ![t].td = i]
        /\ goto(t, "count") /\ UNCHANGED _td_mtx
  /\ UNCHANGED <<_active_td_size, _exit, _need_wakeup, _td_wakeup_mtx, queues,
                 _paired_thread, workers, destructor, history>>

\* _active_td_size.fetch_add() and pthread_setspecific().
getActiveThread_pair(t) ==
  /\ tpc[t] = "count"
  /\ _active_td_size' = _active_td_size + 1
  /\ _paired_thread' = [_paired_thread EXCEPT ![t] = my[t].td]
  /\ _td_mtx' = TRUE
  /\ goto(t, "push")
  /\ UNCHANGED <<status, _exit, _need_wakeup, _td_wakeup_mtx, queues, my, workers,
                 destructor, history>>

\* SPMCQueue::push: the full test.
full(w) == _write_idx[w] >= _read_idx[w] + _queue_size

push(t) ==
  /\ tpc[t] = "push"
  /\ LET w == my[t].td IN
     \/ full(w) /\ goto(t, "run") /\ UNCHANGED _buffer
     \/ /\ ~full(w)
        /\ _buffer' = [_buffer EXCEPT ![w][_write_idx[w] % _queue_size] = my[t].task]
        /\ goto(t, "publish")
  /\ UNCHANGED <<pool, mutexes, _read_idx, _write_idx, _paired_thread, my, workers,
                 destructor, history>>

\* _write_idx.store(), before or after _need_wakeup is read.
push_publish(t) ==
  /\ tpc[t] \in {"publish", "published_late"}
  /\ _write_idx' = [_write_idx EXCEPT ![my[t].td] = @ + 1]
  /\ return(t, IF tpc[t] = "publish" THEN "wakeup" ELSE "idle")
  /\ UNCHANGED <<pool, mutexes, _buffer, _read_idx, _paired_thread, workers, destructor,
                 history>>

push_delayed(t) ==
  /\ tpc[t] = "publish" /\ _need_wakeup = 0
  /\ delayed' = TRUE
  /\ goto(t, "published_late")
  /\ UNCHANGED <<pool, mutexes, queues, _paired_thread, my, workers, destructor, submitted,
                 ran, unpaired>>

\* (*task_package)() in the caller.
submit_run(t) ==
  /\ tpc[t] = "run"
  /\ ran' = [ran EXCEPT ![my[t].task] = @ + 1]
  /\ return(t, "wakeup")
  /\ UNCHANGED <<pool, mutexes, queues, _paired_thread, workers, destructor, submitted,
                 delayed, unpaired>>

submit_load(t) ==
  /\ tpc[t] = "wakeup"
  /\ goto(t, IF _need_wakeup > 0 THEN "notify" ELSE "idle")
  /\ UNCHANGED <<pool, mutexes, queues, _paired_thread, my, workers, destructor, history>>

\* _td_wakeup.notify_all() under the mutex.
notify_all == pc' = [w \in Workers |-> IF pc[w] = "waiting" THEN "woken" ELSE pc[w]]

submit_notify(t) ==
  /\ tpc[t] = "notify" /\ _td_wakeup_mtx
  /\ notify_all
  /\ goto(t, "idle")
  /\ UNCHANGED <<pool, mutexes, queues, _paired_thread, my, at, destructor, history>>

\* A paired thread ends; the key's destructor gets the worker.
thread_exit(t) ==
  /\ tpc[t] = "idle" /\ _paired_thread[t] # None
  /\ Cardinality({u \in Threads : tpc[u] \in {"exit", "exit_cas", "exit_again", "ended"}})
       < MaxEnds
  /\ my' = [my EXCEPT ![t] = [Idle EXCEPT !.td = _paired_thread[t]]]
  /\ _paired_thread' = [_paired_thread EXCEPT ![t] = None]
  /\ goto(t, "exit")
  /\ UNCHANGED <<pool, mutexes, queues, workers, destructor, history>>

\* Thread u is paired with worker w, or about to be.
Serves(w, u) ==
  \/ _paired_thread[u] = w
  \/ my[u].td = w /\ tpc[u] \in {"count", "exit", "exit_cas"} /\ status[w] = "ACTIVE"

deleteThreadLocalPairThread(t) ==
  /\ tpc[t] = "exit" /\ my[t].td \notin deleted
  /\ my' = [my EXCEPT ![t].status = status[my[t].td]]
  /\ goto(t, "exit_cas")
  /\ UNCHANGED <<pool, mutexes, queues, _paired_thread, workers, destructor, history>>

\* The loop around the compare-and-swap goes on while it succeeds; a later turn
\* may find the worker paired with another thread.  It may also find it deleted:
\* that is undefined, and here the thread stops.
deleteThreadLocalPairThread_cas(t) ==
  /\ tpc[t] \in {"exit_cas", "exit_again"} /\ my[t].td \notin deleted
  /\ LET w == my[t].td IN
     \/ /\ status[w] = my[t].status
        /\ status' = [status EXCEPT ![w] = "INACTIVE"]
        /\ unpaired' = (unpaired \/ \E u \in Threads \ {t} : Serves(w, u))
        /\ goto(t, "exit_again") /\ UNCHANGED my
     \/ /\ status[w] # my[t].status
        /\ return(t, "ended") /\ UNCHANGED <<status, unpaired>>
  /\ UNCHANGED <<_active_td_size, _exit, _need_wakeup, mutexes, queues, _paired_thread,
                 workers, destructor, submitted, ran, delayed>>

----------------------------------------------------------------------------
(* A worker: the loop that init() starts.                                  *)

jump(w, label) == pc' = [pc EXCEPT ![w] = label]
set(w, locals) == at' = [at EXCEPT ![w] = locals]

\* The predicate of the wait calls tryGetOne, on its own queue or on all.
InWait(w) == at[w].by \in {"tryGetOwn", "tryGetOne"}

\* What is left of the local variables when a loop or a pop is over: the status,
\* and in the predicate the task, which a pop that lost its race leaves set.
rest(w) == [Start EXCEPT !.status = at[w].status,
                         !.task = IF InWait(w) THEN at[w].task ELSE 0]

\* while (!_exit), and what to do for the status.  After the loop tryConsume
\* looks at _exit first and does nothing.
loop_top(w) ==
  /\ pc[w] = "top"
  /\ set(w, [Start EXCEPT !.status = status[w]])
  /\ jump(w, CASE _exit -> "end" [] ~_exit /\ status[w] # "STANDBY" -> "pop"
               [] OTHER -> "steal")
  /\ UNCHANGED <<pool, mutexes, queues, threads, destructor, history>>

\* The queue that pop is called on.
queue(w) == IF at[w].by \in {"tryConsume", "tryGetOwn"} THEN w ELSE at[w].i

\* Where a pop that finds nothing leads.
nothing(w) ==
  \/ /\ at[w].by = "tryConsume"
     /\ jump(w, IF at[w].status = "INACTIVE" THEN "standby" ELSE "steal")
     /\ set(w, rest(w)) /\ UNCHANGED _td_wakeup_mtx
  \/ /\ at[w].by \in {"tryStealOne", "tryGetOne"}
     /\ jump(w, "scan")
     /\ set(w, [at[w] EXCEPT !.i = @ + 1, !.read = 0, !.task = rest(w).task])
     /\ UNCHANGED _td_wakeup_mtx
  \/ /\ at[w].by = "tryGetOwn"
     /\ jump(w, "waiting")
     /\ set(w, rest(w)) /\ _td_wakeup_mtx' = TRUE

\* SPMCQueue::pop up to the copy.  tryConsumeOne looks at _exit before it pops,
\* tryGetOne does not.  The queue of a deleted worker is gone: see scan.
pop_copy(w) ==
  /\ pc[w] \in {"pop", "again"}
  /\ LET q == queue(w)
         skip == _exit /\ pc[w] = "pop" /\ ~InWait(w)
         empty == _read_idx[q] = _write_idx[q] \/ skip
     IN \/ empty /\ (skip \/ q \notin deleted) /\ nothing(w)
        \/ /\ ~empty /\ q \notin deleted
           /\ set(w, [at[w] EXCEPT !.read = _read_idx[q],
                                   !.task = _buffer[q][_read_idx[q] % _queue_size]])
           /\ jump(w, "cas") /\ UNCHANGED _td_wakeup_mtx
  /\ UNCHANGED <<pool, _td_mtx, queues, threads, destructor, history>>

\* Variant: the index is advanced without a comparison.
pop_cas_store(w) ==
  /\ pc[w] = "cas"
  /\ _read_idx' = [_read_idx EXCEPT ![queue(w)] = at[w].read + 1]
  /\ set(w, [at[w] EXCEPT !.read = 0])
  /\ jump(w, IF InWait(w) THEN "got" ELSE "run")
  /\ UNCHANGED <<pool, mutexes, _buffer, _write_idx, threads, destructor, history>>

\* A failed compare-and-swap loads the index it found.
pop_cas(w) ==
  /\ pc[w] = "cas" /\ queue(w) \notin deleted
  /\ LET q == queue(w) IN
     \/ /\ _read_idx[q] = at[w].read
        /\ _read_idx' = [_read_idx EXCEPT ![q] = @ + 1]
        /\ set(w, [at[w] EXCEPT !.read = 0])
        /\ jump(w, IF InWait(w) THEN "got" ELSE "run")
     \/ /\ _read_idx[q] # at[w].read
        /\ set(w, [at[w] EXCEPT !.read = 0])
        /\ jump(w, "again") /\ UNCHANGED _read_idx
  /\ UNCHANGED <<pool, mutexes, _buffer, _write_idx, threads, destructor, history>>

\* (*task)(); tryConsume goes on with its queue.
run(w) ==
  /\ pc[w] = "run"
  /\ ran' = [ran EXCEPT ![at[w].task] = @ + 1]
  /\ jump(w, IF at[w].by = "tryConsume" THEN "pop" ELSE "top")
  /\ set(w, IF at[w].by = "tryConsume" THEN rest(w) ELSE Start)
  /\ UNCHANGED <<pool, mutexes, queues, threads, destructor, submitted, delayed, unpaired>>

standby(w) ==
  /\ pc[w] = "standby"
  /\ status' = [status EXCEPT ![w] = "STANDBY"]
  /\ jump(w, "uncount")
  /\ UNCHANGED <<_active_td_size, _exit, _need_wakeup, mutexes, queues, threads, at,
                 destructor, history>>

uncount(w) ==
  /\ pc[w] = "uncount"
  /\ _active_td_size' = _active_td_size - 1
  /\ jump(w, "steal")
  /\ UNCHANGED <<status, _exit, _need_wakeup, mutexes, queues, threads, at, destructor,
                 history>>

tryStealOne(w) ==
  /\ pc[w] = "steal"
  /\ set(w, [at[w] EXCEPT !.by = "tryStealOne",
                          !.active_td = IF _exit THEN 0 ELSE _active_td_size])
  /\ jump(w, "scan")
  /\ UNCHANGED <<pool, mutexes, queues, threads, destructor, history>>

\* One turn of the loop of tryStealOne and of tryGetOne over the workers.  A worker
\* that is paired again before uncount is counted twice, and active_td may be more
\* than _td_capacity.  A read behind the end of _tds is undefined, and so is one of a
\* worker that the destructor has deleted while this one still ran; here the worker
\* that reads there stops, and what else the program might do is left out.
scan(w) ==
  /\ pc[w] = "scan"
  /\ LET i == at[w].i IN
     \/ /\ i < at[w].active_td /\ i \in Workers \ deleted /\ status[i] # "STANDBY"
        /\ jump(w, "pop") /\ UNCHANGED <<at, _td_wakeup_mtx>>
     \/ /\ i < at[w].active_td /\ i \in Workers \ deleted /\ status[i] = "STANDBY"
        /\ set(w, [at[w] EXCEPT !.i = i + 1]) /\ UNCHANGED <<pc, _td_wakeup_mtx>>
     \/ /\ i >= at[w].active_td
        /\ set(w, rest(w))
        /\ jump(w, IF InWait(w) THEN "waiting" ELSE "sleep")
        /\ _td_wakeup_mtx' = (_td_wakeup_mtx \/ InWait(w))
  /\ UNCHANGED <<pool, _td_mtx, queues, threads, destructor, history>>

\* std::unique_lock guard(_td_wakeup_mtx); _need_wakeup.fetch_add()
sleep(w) ==
  /\ pc[w] = "sleep" /\ _td_wakeup_mtx
  /\ _td_wakeup_mtx' = FALSE
  /\ _need_wakeup' = _need_wakeup + 1
  /\ jump(w, "predicate")
  /\ UNCHANGED <<status, _active_td_size, _exit, _td_mtx, queues, threads, at, destructor,
                 history>>

\* The predicate of the wait, with the status the loop began with.
predicate(w) ==
  /\ pc[w] = "predicate"
  /\ \/ _exit /\ jump(w, "got") /\ UNCHANGED at
     \/ /\ ~_exit /\ at[w].status = "STANDBY"
        /\ jump(w, "scan")
        /\ set(w, [at[w] EXCEPT !.by = "tryGetOne", !.active_td = _active_td_size])
     \/ /\ ~_exit /\ at[w].status # "STANDBY"
        /\ jump(w, "pop")
        /\ set(w, [at[w] EXCEPT !.by = "tryGetOwn"])
  /\ UNCHANGED <<pool, mutexes, queues, threads, destructor, history>>

\* A woken worker takes the mutex again.
woken(w) ==
  /\ pc[w] = "woken" /\ _td_wakeup_mtx
  /\ _td_wakeup_mtx' = FALSE
  /\ jump(w, "predicate")
  /\ UNCHANGED <<pool, _td_mtx, queues, threads, at, destructor, history>>

\* The wait is over: _need_wakeup.fetch_sub(), unlock, and the task if there is
\* one.
got(w) ==
  /\ pc[w] = "got"
  /\ _need_wakeup' = _need_wakeup - 1
  /\ _td_wakeup_mtx' = TRUE
  /\ jump(w, IF at[w].task = 0 THEN "top" ELSE "run")
  /\ set(w, IF at[w].task = 0 THEN Start ELSE [Start EXCEPT !.by = "tryGetOne", !.task = at[w].task])
  /\ UNCHANGED <<status, _active_td_size, _exit, _td_mtx, queues, threads, destructor,
                 history>>

----------------------------------------------------------------------------
(* ~ThreadPool(), when no thread is inside submit.                         *)

destruct ==
  /\ dpc = "idle"
  /\ \A t \in Threads : tpc[t] \in {"idle", "exit", "exit_cas", "exit_again", "ended"}
  /\ _exit' = TRUE /\ dpc' = "notify"
  /\ UNCHANGED <<status, _active_td_size, _need_wakeup, mutexes, queues, threads, workers,
                 joined, deleted, history>>

\* Variant: one worker is woken, and the destructor waits for them all.
destruct_notify_one ==
  /\ dpc = "notify" /\ _td_wakeup_mtx /\ dpc' = "join"
  /\ \/ \E w \in Workers : pc[w] = "waiting" /\ pc' = [pc EXCEPT ![w] = "woken"]
     \/ (\A w \in Workers : pc[w] # "waiting") /\ UNCHANGED pc
  /\ UNCHANGED <<pool, mutexes, queues, threads, at, joined, deleted, history>>

destruct_notify ==
  /\ dpc = "notify" /\ _td_wakeup_mtx
  /\ notify_all /\ dpc' = "join"
  /\ UNCHANGED <<pool, mutexes, queues, threads, at, joined, deleted, history>>

\* Variant: every worker is deleted, paired or not.
destruct_delete_all ==
  /\ dpc = "join" /\ joined < _td_capacity /\ pc[joined] = "end"
  /\ deleted' = deleted \cup {joined}
  /\ joined' = joined + 1
  /\ UNCHANGED <<pool, mutexes, queues, threads, workers, dpc, history>>

\* One turn of the loop over the workers: the next one is joined, and deleted if it
\* stands by, while the ones behind it may still run.
destruct_delete ==
  /\ dpc = "join" /\ joined < _td_capacity /\ pc[joined] = "end"
  /\ deleted' = deleted \cup {w \in {joined} : status[w] = "STANDBY"}
  /\ joined' = joined + 1
  /\ UNCHANGED <<pool, mutexes, queues, threads, workers, dpc, history>>

----------------------------------------------------------------------------

thread(t) ==
  \/ submit(t) \/ getActiveThread_lock(t) \/ getActiveThread_scan(t)
  \/ getActiveThread_pair(t) \/ push(t) \/ push_publish(t) \/ push_delayed(t)
  \/ submit_run(t) \/ submit_load(t) \/ submit_notify(t)
  \/ thread_exit(t) \/ deleteThreadLocalPairThread(t) \/ deleteThreadLocalPairThread_cas(t)

worker(w) ==
  \/ loop_top(w) \/ pop_copy(w) \/ pop_cas(w) \/ run(w)
  \/ standby(w) \/ uncount(w) \/ tryStealOne(w) \/ scan(w)
  \/ sleep(w) \/ predicate(w) \/ woken(w) \/ got(w)

destructor_step == destruct \/ destruct_notify \/ destruct_delete

Next ==
  \/ \E t \in Threads : thread(t)
  \/ \E w \in Workers : worker(w)
  \/ destructor_step

Spec == Init /\ [][Next]_vars

----------------------------------------------------------------------------
TypeOK ==
  /\ status \in [Workers -> {"ACTIVE", "STANDBY", "INACTIVE"}]
  /\ _need_wakeup \in 0.._td_capacity
  /\ \A t \in Threads : _paired_thread[t] \in Workers \cup {None}
  /\ \A w \in Workers :
       /\ _read_idx[w] \in 0.._write_idx[w]
       /\ _write_idx[w] <= _read_idx[w] + _queue_size

\* Tasks in the queue of w.
queued(w) == {_buffer[w][i % _queue_size] : i \in _read_idx[w]..(_write_idx[w] - 1)}

\* Workers that have popped a task and not yet run it.
holders(k) == {w \in Workers : at[w].task = k /\ pc[w] \in {"run", "got"}}

\* A task that was handed in is in one place only: with its submitter, in one
\* queue, in the hands of one worker, or run, once.  Every push and pop of a
\* wrapping queue, and every steal, keeps it so until the pool is destroyed, as
\* long as no two threads push into one queue.
TaskInOnePlace ==
  ~_exit /\ ~unpaired =>
    \A k \in 1..submitted :
      Cardinality({t \in Threads : my[t].task = k /\ tpc[t] \in
                     {"run", "lock", "scan", "count", "push", "publish", "published_late"}})
        + Cardinality({w \in Workers : k \in queued(w)})
        + Cardinality(holders(k)) + ran[k] = 1

\* The pairs of threads and workers are kept as long as nobody unpairs a worker
\* of another: _active_td_size is the number of workers that do not stand by, up
\* to the steps between the store of a status and the count; and the destructor,
\* which deletes worker after worker while others and ending threads still run,
\* leaves a worker that a living thread is paired with until the key's destructor
\* has given it back, with the first compare-and-swap that succeeds.
PairsKept ==
  ~unpaired =>
    /\ TypeOK
    /\ _active_td_size
         = Cardinality({w \in Workers : status[w] # "STANDBY"})
             + Cardinality({w \in Workers : pc[w] = "uncount"})
             - Cardinality({t \in Threads : tpc[t] = "count"})
    /\ \A t \in Threads :
         /\ _paired_thread[t] \notin deleted
         /\ tpc[t] \in {"exit", "exit_cas"} => my[t].td \notin deleted

\* A worker is paired beyond the first _active_td_size ones, where nobody steals.
Hole == \E v, w \in Workers : v < w /\ status[v] = "STANDBY" /\ status[w] # "STANDBY"

\* Nothing moves any more unless a thread submits or ends.
Quiet ==
  /\ \A t \in Threads : tpc[t] \in {"idle", "ended"}
  /\ \A w \in Workers : pc[w] \in {"waiting", "end"}
  /\ dpc \in {"idle", "join"}

\* No wake-up is lost: when everybody waits no task is left in a queue, and
\* the destructor does not wait to join a worker that sleeps.  Left out are the
\* hole above, which only the end of a thread makes, and a delayed store.
NothingStranded ==
  Quiet =>
    /\ Hole \/ delayed \/ _exit \/ unpaired \/ \A w \in Workers : queued(w) = {}
    /\ dpc = "join" => \A w \in Workers : pc[w] = "end"
=============================================================================
