----------------------------- MODULE TimeThread -----------------------------
(***************************************************************************)
(* TimeThread (src/schedule/time_thread.cpp): the thread that runs the     *)
(* timeouts of sessions.  A caller puts tasks and abandonments into two    *)
(* single-producer single-consumer queues of its own (a TaskContainer) and *)
(* lowers the shared _nearest_run_time; the time thread collects the       *)
(* queues into a heap, runs what is due and sleeps until the nearest time. *)
(*                                                                         *)
(* A step is one access to a shared atomic, one operation on a queue (its  *)
(* linearisation point is the store of the index the caller owns) or one   *)
(* critical section.  A task is its id.                                    *)
(***************************************************************************)
EXTENDS Integers, Sequences, FiniteSetsExt

CONSTANTS Threads,          \* callers
          MaxTasks,         \* bound: calls of scheduleAbs
          MaxTime,          \* bound: the clock stops here
          TASK_QUEUE_SIZE,  \* capacity of a queue (4096)
          WARING_TASK_QUEUE_SIZE,  \* a queue that fills (2730)
          MaxSleep          \* max_next_run_time (one hour)

ASSUME BoundAssumption == MaxTasks \in Nat /\ MaxTime \in Nat
ASSUME QueueAssumption ==
  /\ TASK_QUEUE_SIZE \in Nat \ {0} /\ MaxSleep \in Nat \ {0}
  /\ WARING_TASK_QUEUE_SIZE \in 1..TASK_QUEUE_SIZE

Ids == 1..MaxTasks
Times == 0..MaxTime
Never == MaxTime + MaxSleep + 1   \* numeric_limits<size_t>::max()

VARIABLES
  now,                \* Utils::getHighPrecisionTimeStamp()
  _exit,
  _nearest_run_time,
  _timer_id,
  _containers,        \* registered containers, named by their thread
  tasks,              \* container -> queue of scheduled tasks
  abandon_tasks,      \* container -> queue of abandoned tasks
  _tasks,             \* the heap
  _active_ids,
  abs_time,           \* task -> its time
  pc, call, nearest_time,             \* callers: position, task, local variable
  loop, local,        \* time thread: position, local variables
  destroyer,          \* position of the thread that calls destroy
  used, asked, runs,  \* history: accepted, unscheduled, times a task ran
  caught              \* history: unscheduled while in the heap

queues == <<_containers, tasks, abandon_tasks>>
heap == <<_tasks, _active_ids>>
callers == <<pc, call, nearest_time>>
history == <<used, asked, runs, caught>>
vars == <<now, _exit, _nearest_run_time, _timer_id, queues, heap, abs_time,
          callers, loop, local, destroyer, history>>

NoCall == [id |-> 0, at |-> 0]

\* nearest_run_time, i and task_container_size, this_task, and the wait: its
\* length, then its end.
NoLocal == [nearest |-> 0, i |-> 0, size |-> 0, task |-> 0, wait |-> 0]

\* After init(): the thread runs, no container exists yet.
Init ==
  /\ now = 0 /\ _exit = FALSE
  /\ _nearest_run_time = Never /\ _timer_id = 1
  /\ _containers = <<>>
  /\ tasks = [u \in Threads |-> <<>>] /\ abandon_tasks = [u \in Threads |-> <<>>]
  /\ _tasks = {} /\ _active_ids = {}
  /\ abs_time = [id \in Ids |-> 0]
  /\ pc = [u \in Threads |-> "idle"]
  /\ call = [u \in Threads |-> NoCall]
  /\ nearest_time = [u \in Threads |-> 0]
  /\ loop = "top" /\ local = NoLocal
  /\ destroyer = "idle"
  /\ used = {} /\ asked = {} /\ runs = [id \in Ids |-> 0] /\ caught = {}

Tick ==
  /\ now < MaxTime
  /\ now' = now + 1
  /\ UNCHANGED <<_exit, _nearest_run_time, _timer_id, queues, heap, abs_time,
                 callers, loop, local, destroyer, history>>

\* _wake_cond.notify_one(): only a thread that is asleep hears it.
notify_one == loop' = IF loop = "asleep" THEN "woken" ELSE loop
-----------------------------------------------------------------------------
\* Callers.  One call at a time; nothing is called once destroy has begun.

Idle(u) == pc[u] = "idle" /\ ~_exit

\* getLocalTaskContainer(): the first call of a thread registers its container.
getLocalTaskContainer(u) ==
  _containers' = IF u \in Range(_containers) THEN _containers
                                             ELSE Append(_containers, u)

\* scheduleAbs() up to the test for a full queue.
scheduleAbs(u, t) ==
  /\ Idle(u) /\ t >= now
  /\ _timer_id \in Ids
  /\ getLocalTaskContainer(u)
  /\ _timer_id' = _timer_id + 1
  /\ \/ /\ Len(tasks[u]) >= TASK_QUEUE_SIZE       \* returns 0
        /\ UNCHANGED <<pc, call>>
     \/ /\ Len(tasks[u]) < TASK_QUEUE_SIZE
        /\ pc' = [pc EXCEPT ![u] = "push"]
        /\ call' = [call EXCEPT ![u] = [id |-> _timer_id, at |-> t]]
  /\ UNCHANGED <<now, _exit, _nearest_run_time, tasks, abandon_tasks, heap,
                 abs_time, nearest_time, loop, local, destroyer, history>>

schedule_push(u) ==
  /\ pc[u] = "push"
  /\ tasks' = [tasks EXCEPT ![u] = Append(@, call[u].id)]
  /\ abs_time' = [abs_time EXCEPT ![call[u].id] = call[u].at]
  /\ used' = used \cup {call[u].id}
  /\ pc' = [pc EXCEPT ![u] = "load"]
  /\ UNCHANGED <<now, _exit, _nearest_run_time, _timer_id, _containers,
                 abandon_tasks, heap, call, nearest_time, loop, local,
                 destroyer, asked, runs, caught>>

\* The load of _nearest_run_time, and the test that ends the loop.
schedule_load(u) ==
  /\ pc[u] = "load"
  /\ nearest_time' = [nearest_time EXCEPT ![u] = _nearest_run_time]
  /\ pc' = [pc EXCEPT ![u] = IF call[u].at >= _nearest_run_time THEN "size" ELSE "cas"]
  /\ UNCHANGED <<now, _exit, _nearest_run_time, _timer_id, queues, heap,
                 abs_time, call, loop, local, destroyer, history>>

\* A compare-and-swap that fails loads the value again.
schedule_cas(u) ==
  /\ pc[u] = "cas"
  /\ \/ /\ _nearest_run_time = nearest_time[u]
        /\ _nearest_run_time' = call[u].at
        /\ pc' = [pc EXCEPT ![u] = "notify"]
        /\ UNCHANGED nearest_time
     \/ /\ _nearest_run_time # nearest_time[u]
        /\ nearest_time' = [nearest_time EXCEPT ![u] = _nearest_run_time]
        /\ pc' = [pc EXCEPT ![u] = IF call[u].at >= _nearest_run_time THEN "size" ELSE "cas"]
        /\ UNCHANGED _nearest_run_time
  /\ UNCHANGED <<now, _exit, _timer_id, queues, heap, abs_time, call, loop,
                 local, destroyer, history>>

\* Variant: no call of notify_one.
schedule_notify_missing(u) ==
  /\ pc[u] = "notify"
  /\ pc' = [pc EXCEPT ![u] = "size"]
  /\ UNCHANGED <<now, _exit, _nearest_run_time, _timer_id, queues, heap,
                 abs_time, call, nearest_time, loop, local, destroyer, history>>

schedule_notify(u) ==
  /\ pc[u] = "notify"
  /\ notify_one
  /\ pc' = [pc EXCEPT ![u] = "size"]
  /\ UNCHANGED <<now, _exit, _nearest_run_time, _timer_id, queues, heap,
                 abs_time, call, nearest_time, local, destroyer, history>>

\* The test for a filling queue, and the return.
schedule_size(u) ==
  /\ pc[u] = "size"
  /\ \/ Len(tasks[u]) >= WARING_TASK_QUEUE_SIZE /\ notify_one
     \/ Len(tasks[u]) < WARING_TASK_QUEUE_SIZE /\ UNCHANGED loop
  /\ pc' = [pc EXCEPT ![u] = "idle"]
  /\ call' = [call EXCEPT ![u] = NoCall]
  /\ nearest_time' = [nearest_time EXCEPT ![u] = 0]
  /\ UNCHANGED <<now, _exit, _nearest_run_time, _timer_id, queues, heap,
                 abs_time, local, destroyer, history>>

\* unschedule(), by any thread, of a task whose scheduleAbs has returned and
\* that has not run (an id is never used again, so the abandonment of one that
\* has run finds nothing): the push (a full queue returns false), then the
\* test for a filling queue.
unschedule(u, id) ==
  /\ Idle(u)
  /\ id \in used \ asked /\ runs[id] = 0 /\ \A v \in Threads : call[v].id # id
  /\ Len(abandon_tasks[u]) < TASK_QUEUE_SIZE
  /\ getLocalTaskContainer(u)
  /\ abandon_tasks' = [abandon_tasks EXCEPT ![u] = Append(@, id)]
  /\ asked' = asked \cup {id}
  /\ caught' = IF id \in _tasks THEN caught \cup {id} ELSE caught
  /\ \/ Len(abandon_tasks'[u]) >= WARING_TASK_QUEUE_SIZE /\ notify_one
     \/ Len(abandon_tasks'[u]) < WARING_TASK_QUEUE_SIZE /\ UNCHANGED loop
  /\ UNCHANGED <<now, _exit, _nearest_run_time, _timer_id, tasks, heap,
                 abs_time, callers, local, destroyer, used, runs>>
-----------------------------------------------------------------------------
\* The time thread: while (!_exit) loopOnce().

outside == <<now, _exit, _timer_id, abs_time, callers, destroyer>>

\* The test of _exit and the first load.
loopOnce ==
  /\ loop = "top"
  /\ loop' = IF _exit THEN "done" ELSE "reset"
  /\ local' = [NoLocal EXCEPT !.nearest = _nearest_run_time]
  /\ UNCHANGED <<outside, _nearest_run_time, queues, heap, history>>

return == loop' = "top" /\ local' = NoLocal

\* The compare-and-swap that empties _nearest_run_time, or starts again.
loop_reset ==
  /\ loop = "reset"
  /\ \/ /\ _nearest_run_time = local.nearest
        /\ _nearest_run_time' = Never
        /\ loop' = "count" /\ local' = NoLocal
     \/ /\ _nearest_run_time # local.nearest
        /\ return
        /\ UNCHANGED _nearest_run_time
  /\ UNCHANGED <<outside, queues, heap, history>>

\* The containers that are registered now, one after the other.
container(k, size) ==
  IF k > size THEN loop' = "run" /\ local' = NoLocal
  ELSE loop' = "collect" /\ local' = [NoLocal EXCEPT !.i = k, !.size = size]

\* Variant: the container that was registered last is not visited.
loop_count_short ==
  /\ loop = "count"
  /\ container(1, Len(_containers) - 1)
  /\ UNCHANGED <<outside, _nearest_run_time, queues, heap, history>>

loop_count ==
  /\ loop = "count"
  /\ container(1, Len(_containers))
  /\ UNCHANGED <<outside, _nearest_run_time, queues, heap, history>>

\* The tasks that are in container i now go to the heap.
loop_collect ==
  /\ loop = "collect"
  /\ LET u == _containers[local.i] IN
       /\ _tasks' = _tasks \cup Range(tasks[u])
       /\ _active_ids' = _active_ids \cup Range(tasks[u])
       /\ tasks' = [tasks EXCEPT ![u] = <<>>]
  /\ loop' = "abandon"
  /\ UNCHANGED <<outside, _nearest_run_time, _containers, abandon_tasks, local,
                 history>>

\* collectUnschedule(container): an abandoned task that has not been collected
\* yet is not found, and its abandonment is forgotten.
collectUnschedule(C) ==
  /\ _active_ids' = _active_ids \ UNION {Range(abandon_tasks[u]) : u \in C}
  /\ abandon_tasks' = [u \in Threads |-> IF u \in C THEN <<>> ELSE abandon_tasks[u]]

loop_abandon ==
  /\ loop = "abandon"
  /\ collectUnschedule({_containers[local.i]})
  /\ container(local.i + 1, local.size)
  /\ UNCHANGED <<outside, _nearest_run_time, _containers, tasks, _tasks, history>>

IsTop(id) == id \in _tasks /\ \A d \in _tasks : abs_time[id] <= abs_time[d]

\* Variant: every task of the heap is taken to be due.
loop_run_early ==
  /\ loop = "run"
  /\ \/ _tasks = {} /\ loop' = "settle" /\ UNCHANGED <<_tasks, local>>
     \/ \E id \in _tasks :
          /\ IsTop(id)
          /\ _tasks' = _tasks \ {id}
          /\ loop' = "unschedule" /\ local' = [NoLocal EXCEPT !.task = id]
  /\ UNCHANGED <<outside, _nearest_run_time, queues, _active_ids, history>>

\* The loop over the heap: the first task is in the future, or an earlier one
\* was scheduled meanwhile, or it is taken off the heap.
loop_run ==
  /\ loop = "run"
  /\ \/ /\ \A id \in _tasks : abs_time[id] > now
        /\ loop' = "settle"
        /\ UNCHANGED <<_tasks, local>>
     \/ \E id \in _tasks :
          /\ IsTop(id) /\ abs_time[id] <= now
          /\ \/ /\ abs_time[id] > _nearest_run_time
                /\ return
                /\ UNCHANGED _tasks
             \/ /\ abs_time[id] <= _nearest_run_time
                /\ _tasks' = _tasks \ {id}
                /\ loop' = "unschedule" /\ local' = [NoLocal EXCEPT !.task = id]
  /\ UNCHANGED <<outside, _nearest_run_time, queues, _active_ids, history>>

\* collectUnschedule() over all containers, under _tasks_mtx.
loop_unschedule ==
  /\ loop = "unschedule"
  /\ collectUnschedule(Range(_containers))
  /\ loop' = "fire"
  /\ UNCHANGED <<outside, _nearest_run_time, _containers, tasks, _tasks, local,
                 history>>

loop_fire ==
  /\ loop = "fire"
  /\ runs' = IF local.task \in _active_ids THEN [runs EXCEPT ![local.task] = @ + 1]
                                           ELSE runs
  /\ _active_ids' = _active_ids \ {local.task}
  /\ loop' = "run" /\ local' = NoLocal
  /\ UNCHANGED <<outside, _nearest_run_time, queues, _tasks, used, asked, caught>>

next_near_time ==
  IF _tasks = {} THEN Never ELSE Min({abs_time[id] : id \in _tasks})

\* The loop that lowers _nearest_run_time to the first task of the heap.
loop_settle ==
  /\ loop = "settle"
  /\ _nearest_run_time' = Min({_nearest_run_time, next_near_time})
  /\ loop' = "clock" /\ local' = [NoLocal EXCEPT !.nearest = _nearest_run_time']
  /\ UNCHANGED <<outside, queues, heap, history>>

\* How long to sleep: not at all, to the nearest time, at most MaxSleep.
loop_clock ==
  /\ loop = "clock"
  /\ \/ /\ local.nearest <= now
        /\ return
     \/ /\ local.nearest > now
        /\ loop' = "wait"
        /\ local' = [local EXCEPT !.wait = Min({local.nearest - now, MaxSleep})]
  /\ UNCHANGED <<outside, _nearest_run_time, queues, heap, history>>

Wanted == _exit \/ local.nearest # _nearest_run_time

\* wait_for(), with _wake_mtx held: the predicate is tested before sleeping.
loop_wait ==
  /\ loop = "wait"
  /\ \/ Wanted /\ return
     \/ ~Wanted /\ loop' = "asleep" /\ local' = [local EXCEPT !.wait = now + @]
  /\ UNCHANGED <<outside, _nearest_run_time, queues, heap, history>>

\* ... and after every notification ...
loop_woken ==
  /\ loop = "woken"
  /\ \/ Wanted /\ return
     \/ ~Wanted /\ loop' = "asleep" /\ UNCHANGED local
  /\ UNCHANGED <<outside, _nearest_run_time, queues, heap, history>>

\* ... and the wait ends in time.  Where the clock stops every wait is over.
loop_timeout ==
  /\ loop = "asleep"
  /\ now >= local.wait \/ now = MaxTime
  /\ return
  /\ UNCHANGED <<outside, _nearest_run_time, queues, heap, history>>

TimeThreadNext ==
  \/ loopOnce \/ loop_reset \/ loop_count \/ loop_collect \/ loop_abandon
  \/ loop_run \/ loop_unschedule \/ loop_fire
  \/ loop_settle \/ loop_clock \/ loop_wait \/ loop_woken \/ loop_timeout
-----------------------------------------------------------------------------
\* destroy(), by a thread that knows that no other call is in progress.

inside == <<now, _nearest_run_time, _timer_id, abs_time, callers, local>>

destroy ==
  /\ destroyer = "idle" /\ \A u \in Threads : pc[u] = "idle"
  /\ _exit' = TRUE
  /\ destroyer' = "notify"
  /\ UNCHANGED <<inside, queues, heap, loop, history>>

destroy_notify ==
  /\ destroyer = "notify"
  /\ notify_one
  /\ destroyer' = "join"
  /\ UNCHANGED <<inside, _exit, queues, heap, history>>

\* The time thread has been joined.  Container after container, the tasks go to
\* the heap, the abandonments are applied and the container is deleted.
destroy_drain ==
  /\ destroyer = "join" /\ loop = "done" /\ _containers # <<>>
  /\ LET u == Head(_containers) IN
       /\ _tasks' = _tasks \cup Range(tasks[u])
       /\ _active_ids' = (_active_ids \cup Range(tasks[u])) \ Range(abandon_tasks[u])
       /\ tasks' = [tasks EXCEPT ![u] = <<>>]
       /\ abandon_tasks' = [abandon_tasks EXCEPT ![u] = <<>>]
  /\ _containers' = Tail(_containers)
  /\ UNCHANGED <<inside, _exit, loop, destroyer, history>>

\* Every task that is still active runs, due or not.
destroy_run ==
  /\ destroyer = "join" /\ loop = "done" /\ _containers = <<>>
  /\ \/ \E id \in _tasks \cap _active_ids :
          /\ runs' = [runs EXCEPT ![id] = @ + 1]
          /\ _active_ids' = _active_ids \ {id}
          /\ UNCHANGED destroyer
     \/ /\ _tasks \cap _active_ids = {}
        /\ destroyer' = "done"
        /\ UNCHANGED <<runs, _active_ids>>
  /\ UNCHANGED <<inside, _exit, queues, _tasks, loop, used, asked, caught>>

DestroyNext == destroy \/ destroy_notify \/ destroy_drain \/ destroy_run

CallNext(u) ==
  \/ schedule_push(u) \/ schedule_load(u) \/ schedule_cas(u)
  \/ schedule_notify(u) \/ schedule_size(u)

Next ==
  \/ Tick \/ TimeThreadNext \/ DestroyNext
  \/ \E u \in Threads :
       \/ CallNext(u)
       \/ \E t \in 1..MaxTime : scheduleAbs(u, t)
       \/ \E id \in Ids : unschedule(u, id)

Spec == Init /\ [][Next]_vars

\* The clock advances and no thread stops inside a call or a loop.
FairSpec ==
  /\ Spec
  /\ WF_vars(Tick) /\ WF_vars(TimeThreadNext)
  /\ WF_vars(destroy_notify \/ destroy_drain \/ destroy_run)
  /\ \A u \in Threads : WF_vars(CallNext(u))
-----------------------------------------------------------------------------
TypeOK ==
  /\ now \in Times /\ _exit \in BOOLEAN
  /\ _nearest_run_time \in Times \cup {Never}
  /\ _timer_id \in 1..MaxTasks + 1
  /\ Range(_containers) \subseteq Threads
  /\ \A u \in Threads : /\ Range(tasks[u]) \subseteq Ids /\ Len(tasks[u]) <= TASK_QUEUE_SIZE
                        /\ Range(abandon_tasks[u]) \subseteq Ids
                        /\ Len(abandon_tasks[u]) <= TASK_QUEUE_SIZE
  /\ _active_ids \subseteq Ids /\ _tasks \subseteq Ids

Queued == UNION {Range(tasks[u]) : u \in Threads}

Service == INSTANCE TimerService
             WITH closed <- _exit, at <- abs_time, pending <- Queued \cup _active_ids

\* Whatever the order of the steps of callers, time thread and destroy, a task
\* that scheduleAbs accepted is handed on through queue, heap and _active_ids
\* to exactly one run or one drop, and no run comes before its time.
ImplementsTimerService == Service!Spec

\* A task that is due runs or is dropped, and destroy runs what is left.
TasksLeave == Service!Punctual

\* The time thread never sleeps past a task: when it is asleep and no caller
\* is on its way to wake it, the time it sleeps for is not after the time of
\* any task, be it in the heap or still in a queue it has not looked at.  And
\* an abandonment that was queued while its task sat in the heap is seen before
\* the task is run.
NotSleptOver ==
  /\ TypeOK
  /\ loop = "asleep" /\ (\A u \in Threads : pc[u] \in {"idle", "push", "size"}) /\ ~_exit
       => \A id \in Queued \cup (_tasks \cap _active_ids) : local.nearest <= abs_time[id]
  /\ \A id \in caught : runs[id] = 0
=============================================================================
