-------------------------- MODULE TimeThreadProofs --------------------------
(***************************************************************************)
(* What TimeThread keeps for every set of callers and every capacity of    *)
(* the queues: the time thread never sleeps past a task, and it implements *)
(* TimerService.                                                           *)
(*                                                                         *)
(* The argument follows a task.  In a queue it is announced: by            *)
(* _nearest_run_time, by its caller that is about to lower that, or by the *)
(* time thread that is about to collect the queue.  In the heap it is      *)
(* announced whenever the time thread is not at work on the heap.          *)
(***************************************************************************)
EXTENDS TimeThread, WellFoundedInduction, TLAPS

\* Most leaves are first-order: Zenon is the default prover here, and a leaf that
\* needs arithmetic, or the type of a function or a record, cites SMT.
USE Zenon

Registered == Range(_containers)
Nearest == Times \cup {Never}
Locals == [nearest : Nearest, i : Nat, size : Nat, task : Ids \cup {0}, wait : Nat]

Typed ==
  /\ now \in Times /\ _exit \in BOOLEAN /\ _nearest_run_time \in Nearest
  /\ _timer_id \in 1..MaxTasks + 1
  /\ _containers \in Seq(Threads)
  /\ tasks \in [Threads -> Seq(Ids)] /\ abandon_tasks \in [Threads -> Seq(Ids)]
  /\ \A u \in Threads : Len(tasks[u]) <= TASK_QUEUE_SIZE /\ Len(abandon_tasks[u]) <= TASK_QUEUE_SIZE
  /\ _tasks \subseteq Ids /\ _active_ids \subseteq Ids
  /\ abs_time \in [Ids -> Times] /\ runs \in [Ids -> Nat]
  /\ used \subseteq Ids /\ asked \subseteq used /\ caught \subseteq asked
  /\ pc \in [Threads -> {"idle", "push", "load", "cas", "notify", "size"}]
  /\ call \in [Threads -> [id : Ids \cup {0}, at : Times]]
  /\ nearest_time \in [Threads -> Nearest]
  /\ loop \in {"top", "reset", "count", "collect", "abandon", "run", "unschedule", "fire",
               "settle", "clock", "wait", "asleep", "woken", "done"}
  /\ local \in Locals
  /\ destroyer \in {"idle", "notify", "join", "done"}

\* A call of scheduleAbs and its task.
Calling(u) ==
  /\ pc[u] = "idle" => call[u] = NoCall
  /\ pc[u] # "idle" =>
       /\ call[u].id \in Ids /\ call[u].id < _timer_id
       /\ u \in Registered /\ ~_exit
       /\ \A v \in Threads : v # u => call[v].id # call[u].id
  /\ pc[u] = "push" => call[u].id \notin used /\ Len(tasks[u]) < TASK_QUEUE_SIZE
  /\ pc[u] \in {"load", "cas", "notify", "size"} =>
       call[u].id \in used /\ abs_time[call[u].id] = call[u].at
  /\ pc[u] = "cas" => call[u].at < nearest_time[u]

\* What is in the queues of u.
Holding(u) ==
  /\ Range(tasks[u]) \subseteq used /\ Range(abandon_tasks[u]) \subseteq asked
  /\ u \notin Registered => Range(tasks[u]) = {}
  /\ \A id \in Range(tasks[u]) :
       /\ id \notin _tasks \cup _active_ids
       /\ loop \in {"unschedule", "fire"} => id # local.task
       /\ \A v \in Threads : v # u => id \notin Range(tasks[v])

\* The containers that the time thread has still to collect in this round.
Uncollected ==
  IF loop = "count" THEN Threads
  ELSE IF loop = "collect" THEN {_containers[k] : k \in local.i..local.size}
  ELSE IF loop = "abandon" THEN {_containers[k] : k \in (local.i + 1)..local.size}
  ELSE {}

\* A task in a queue is announced by _nearest_run_time, or its caller is about to
\* announce it, or the time thread is about to collect it.
Announced(u) ==
  \A id \in Range(tasks[u]) :
    \/ _nearest_run_time <= abs_time[id]
    \/ pc[u] \in {"load", "cas"} /\ call[u].id = id
    \/ u \in Uncollected

\* The heap, where the time thread is, and what it has seen.
Looping ==
  /\ \A id \in used : id < _timer_id
  /\ _tasks \cup _active_ids \subseteq used
  /\ loop \in {"collect", "abandon"} =>
       local.i \in 1..local.size /\ local.size <= Len(_containers)
  /\ loop \in {"unschedule", "fire"} =>
       local.task \in used \ _tasks /\ abs_time[local.task] <= now
  /\ loop \in {"top", "reset", "clock", "wait", "asleep", "woken"} =>
       \A id \in _tasks : _nearest_run_time <= abs_time[id]
  /\ loop = "asleep" =>
       local.nearest = _nearest_run_time \/ _exit \/ \E u \in Threads : pc[u] = "notify"
  /\ loop = "done" => _exit
  /\ destroyer = "idle" <=> ~_exit

\* The abandonment of a task that was in the heap is on its way until it is applied.
Caught(id) ==
  /\ runs[id] = 0
  /\ \A u \in Threads : id \notin Range(tasks[u])
  /\ id \in _active_ids =>
       /\ \E u \in Registered : id \in Range(abandon_tasks[u])
       /\ id \in _tasks \/ (loop = "unschedule" /\ local.task = id)

IInv ==
  /\ Typed /\ Looping
  /\ \A u \in Threads : Calling(u) /\ Holding(u) /\ Announced(u)
  /\ \A id \in caught : Caught(id)

-----------------------------------------------------------------------------
\* The smallest of a set of numbers.
LEMMA SetMin ==
  ASSUME NEW S, S \subseteq Nat, S # {}
  PROVE  Min(S) \in S /\ \A y \in S : Min(S) <= y
<1> DEFINE R == {ss \in Nat \X Nat : ss[1] < ss[2]}
<1>1. IsWellFoundedOn(R, Nat)
  BY NatLessThanWellFounded, Zenon DEF OpToRel
<1> HIDE DEF R
<1>2. \E x \in S : \A y \in S : ~(<<y, x>> \in R)
  BY <1>1, WFMin, Zenon
<1>3. \E x \in S : \A y \in S : x <= y
  <2>1. PICK x \in S : \A y \in S : ~(<<y, x>> \in R)
    BY <1>2
  <2>2. ASSUME NEW y \in S PROVE x <= y
    <3>1. x \in Nat /\ y \in Nat /\ ~(<<y, x>> \in R)
      BY <2>1
    <3>2. y < x => <<y, x>> \in R
      BY <3>1 DEF R
    <3> QED BY SMT, <3>1, <3>2
  <2> QED BY <2>2
<1> QED BY <1>3 DEF Min

\* How the elements of a sequence and its indices correspond.
LEMMA RangeLemmas ==
  ASSUME NEW S, NEW s \in Seq(S)
  PROVE  /\ Range(s) \subseteq S
         /\ \A k \in 1..Len(s) : s[k] \in Range(s)
         /\ \A x \in Range(s) : \E k \in 1..Len(s) : s[k] = x
         /\ \A e \in S : Range(Append(s, e)) = Range(s) \cup {e}
         /\ s # <<>> => Head(s) \in S /\ Range(s) = Range(Tail(s)) \cup {Head(s)}
<1>1. Range(s) = {s[k] : k \in 1..Len(s)}
  BY SMT DEF Range
<1>2. ASSUME NEW e \in S PROVE Range(Append(s, e)) = Range(s) \cup {e}
  <2> DEFINE t == Append(s, e)
  <2>1. t \in Seq(S) /\ Len(t) = Len(s) + 1 /\ t[Len(s) + 1] = e /\ \A k \in 1..Len(s) : t[k] = s[k]
    BY SMT
  <2> HIDE DEF t
  <2>2. Range(t) = {t[k] : k \in 1..Len(t)} /\ Len(s) \in Nat
    BY SMT, <2>1 DEF Range
  <2>3. \A k \in 1..Len(t) : k \in 1..Len(s) \/ k = Len(s) + 1
    BY SMT, <2>1, <2>2
  <2>4. \A k \in 1..Len(s) : k \in 1..Len(t)
    BY SMT, <2>1, <2>2
  <2>5. Len(s) + 1 \in 1..Len(t)
    BY SMT, <2>1, <2>2
  <2>6. Range(t) = Range(s) \cup {e}
    BY <1>1, <2>1, <2>2, <2>3, <2>4, <2>5
  <2> QED BY <2>6 DEF t
<1>3. ASSUME s # <<>> PROVE Head(s) \in S /\ Range(s) = Range(Tail(s)) \cup {Head(s)}
  <2> DEFINE t == Tail(s)
  <2>1. /\ t \in Seq(S) /\ Len(s) \in Nat /\ Len(s) >= 1 /\ Len(t) = Len(s) - 1
        /\ Head(s) = s[1] /\ s[1] \in S /\ \A k \in 1..Len(t) : t[k] = s[k + 1]
    BY SMT, <1>3
  <2> HIDE DEF t
  <2>2. Range(t) = {t[k] : k \in 1..Len(t)}
    BY SMTT(30), <2>1 DEF Range
  <2>3. \A k \in 1..Len(s) : k = 1 \/ (k - 1 \in 1..Len(t) /\ t[k - 1] = s[k])
    BY SMT, <2>1
  <2>4. \A k \in 1..Len(t) : k + 1 \in 1..Len(s)
    BY SMT, <2>1
  <2>5. Range(s) = Range(t) \cup {Head(s)}
    BY SMT, <1>1, <2>1, <2>2, <2>3, <2>4
  <2> QED BY <2>1, <2>5 DEF t
<1> QED BY SMT, <1>1, <1>2, <1>3

\* The empty sequence has no elements.
LEMMA RangeEmpty == Range(<<>>) = {}
  BY SMT DEF Range

\* getLocalTaskContainer registers the container of u, and keeps the others.
LEMMA Registers ==
  ASSUME Typed, NEW u \in Threads, getLocalTaskContainer(u)
  PROVE  /\ _containers' \in Seq(Threads) /\ Registered' = Registered \cup {u}
         /\ Len(_containers) \in Nat /\ Len(_containers') \in Nat /\ Len(_containers) <= Len(_containers')
         /\ \A k \in 1..Len(_containers) : _containers'[k] = _containers[k]
<1>1. _containers \in Seq(Threads) /\ Len(_containers) \in Nat
  BY SMT DEF Typed
<1>2. CASE u \in Range(_containers)
  <2>1. u \in Registered
    BY <1>1, <1>2, RangeLemmas DEF Registered
  <2>2. _containers' = _containers
    BY <1>2 DEF getLocalTaskContainer
  <2> QED BY SMT, <1>1, <2>1, <2>2 DEF Registered
<1>3. CASE ~u \in Range(_containers)
  <2>1. _containers' = Append(_containers, u)
    BY <1>3 DEF getLocalTaskContainer
  <2>2. Registered' = Registered \cup {u}
    BY SMT, <1>1, <2>1, RangeLemmas DEF Registered
  <2> QED BY SMT, <1>1, <2>1, <2>2
<1> QED BY <1>2, <1>3

\* The stronger typing implies the type invariant.
LEMMA TypedOK == Typed => TypeOK
  BY SMT, RangeLemmas DEF Typed, TypeOK, Nearest

\* Times, the nearest time and Never are naturals.
LEMMA Numbers == Times \subseteq Nat /\ Nearest \subseteq Nat /\ Never \in Nat
  BY SMT, BoundAssumption, QueueAssumption DEF Times, Nearest, Never

\* The loop's locals are well typed when a round starts.
LEMMA LocalsTyped ==
  /\ NoLocal \in Locals
  /\ \A t \in Nearest : [NoLocal EXCEPT !.nearest = t] \in Locals
  BY SMT, BoundAssumption DEF NoLocal, Locals, Nearest, Times

\* The next container, or the heap when there is none.
LEMMA Containers ==
  ASSUME NEW k \in Nat, NEW size \in Nat, container(k, size)
  PROVE  /\ local' \in Locals
         /\ \/ k > size /\ loop' = "run"
            \/ k <= size /\ loop' = "collect" /\ local'.i = k /\ local'.size = size
<1>1. CASE k > size
  BY <1>1, LocalsTyped DEF container
<1>2. CASE ~(k > size)
  <2>1. loop' = "collect" /\ local' = [NoLocal EXCEPT !.i = k, !.size = size]
    BY <1>2 DEF container
  <2>2. local' = [nearest |-> 0, i |-> k, size |-> size, task |-> 0, wait |-> 0]
    BY <2>1 DEF NoLocal
  <2>3. 0 \in Nearest
    BY SMT, BoundAssumption DEF Nearest, Times
  <2> QED BY SMT, <1>2, <2>1, <2>2, <2>3 DEF Locals
<1> QED BY <1>1, <1>2

\* Inside a round the loop's index is within the round's size.
LEMMA InRound ==
  ASSUME Typed, Looping, loop \in {"collect", "abandon"}
  PROVE  /\ local.i \in Nat /\ local.size \in Nat /\ local.i >= 1 /\ local.i <= local.size
         /\ local.i \in 1..Len(_containers) /\ local.size <= Len(_containers)
         /\ _containers[local.i] \in Registered /\ _containers[local.i] \in Threads
<1>1. local.i \in Nat /\ local.size \in Nat /\ _containers \in Seq(Threads) /\ Len(_containers) \in Nat
  BY SMT DEF Typed, Locals
<1>2. /\ local.i >= 1 /\ local.i <= local.size
      /\ local.i \in 1..Len(_containers) /\ local.size <= Len(_containers)
  BY SMT, <1>1 DEF Looping
<1> QED BY <1>1, <1>2, RangeLemmas DEF Registered

\* Time passes.
LEMMA Tick_ ==
  ASSUME IInv, Tick
  PROVE  IInv'
<1>0. Typed /\ Looping /\ Times \subseteq Nat /\ Nearest \subseteq Nat
  BY Numbers DEF IInv
<1>a. now < MaxTime /\ now' = now + 1
  BY DEF Tick
<1>u. UNCHANGED <<_exit, _nearest_run_time, _timer_id, _containers, tasks, abandon_tasks,
        _tasks, _active_ids, abs_time, pc, call, nearest_time, loop, local, destroyer, used,
        asked, runs, caught>>
  BY DEF Tick, queues, heap, callers, history, outside, inside
<1>1. Typed'
  <2>1. now' \in Times
    BY SMT, <1>0, <1>a, BoundAssumption DEF Typed, Times
  <2> QED BY <1>0, <1>u, <2>1 DEF Typed
<1>2. Looping'
  <2>1. ASSUME loop \in {"unschedule", "fire"} PROVE abs_time[local.task] <= now'
    <3>1. local.task \in Ids /\ abs_time[local.task] <= now
      BY <1>0, <2>1 DEF Typed, Looping
    <3>2. abs_time[local.task] \in Nat /\ now \in Nat
      BY <1>0, <3>1 DEF Typed
    <3> QED BY SMT, <1>a, <3>1, <3>2
  <2> QED BY <1>0, <1>u, <2>1 DEF Looping
<1>3. ASSUME NEW v \in Threads PROVE Calling(v)' /\ Holding(v)' /\ Announced(v)'
  <2>0. Calling(v) /\ Holding(v) /\ Announced(v)
    BY DEF IInv
  <2>1. Calling(v)'
    BY <1>u, <2>0 DEF Calling, Registered
  <2>2. Holding(v)'
    BY <1>u, <2>0 DEF Holding, Registered
  <2>3. Announced(v)'
    BY <1>u, <2>0 DEF Announced, Uncollected
  <2> QED BY <2>1, <2>2, <2>3
<1>4. ASSUME NEW d \in caught PROVE Caught(d)'
  <2>0. Caught(d)
    BY DEF IInv
  <2> QED
    BY <1>u, <2>0 DEF Caught, Registered
<1> QED BY <1>u, <1>1, <1>2, <1>3, <1>4 DEF IInv

\* The round begins.
LEMMA Loop_once ==
  ASSUME IInv, loopOnce
  PROVE  IInv'
<1>0. Typed /\ Looping /\ Times \subseteq Nat /\ Nearest \subseteq Nat
  BY Numbers DEF IInv
<1>a. /\ loop = "top" /\ loop' = IF _exit THEN "done" ELSE "reset"
      /\ local' = [NoLocal EXCEPT !.nearest = _nearest_run_time]
  BY DEF loopOnce
<1>u. UNCHANGED <<now, _exit, _nearest_run_time, _timer_id, _containers, tasks, abandon_tasks,
        _tasks, _active_ids, abs_time, pc, call, nearest_time, destroyer, used, asked, runs,
        caught>>
  BY DEF loopOnce, queues, heap, callers, history, outside, inside
<1>1. Typed'
  <2>1. loop' \in {"top", "reset", "count", "collect", "abandon", "run", "unschedule", "fire",
                 "settle", "clock", "wait", "asleep", "woken", "done"}
    BY <1>0, <1>a, <1>u DEF Typed
  <2>2. local' \in Locals
    BY <1>0, <1>a, LocalsTyped DEF Typed
  <2> QED BY <1>0, <1>u, <2>1, <2>2 DEF Typed
<1>2. Looping'
  BY <1>0, <1>a, <1>u DEF Typed, Looping
<1>3. ASSUME NEW v \in Threads PROVE Calling(v)' /\ Holding(v)' /\ Announced(v)'
  <2>0. Calling(v) /\ Holding(v) /\ Announced(v)
    BY DEF IInv
  <2>1. Calling(v)'
    BY <1>u, <2>0 DEF Calling, Registered
  <2>2. Holding(v)'
    BY <1>0, <1>a, <1>u, <2>0 DEF Typed, Holding, Registered
  <2>3. Announced(v)'
    BY <1>0, <1>a, <1>u, <2>0 DEF Typed, Announced, Uncollected
  <2> QED BY <2>1, <2>2, <2>3
<1>4. ASSUME NEW d \in caught PROVE Caught(d)'
  <2>0. Caught(d)
    BY DEF IInv
  <2> QED
    BY <1>0, <1>a, <1>u, <2>0 DEF Typed, Caught, Registered
<1> QED BY <1>u, <1>1, <1>2, <1>3, <1>4 DEF IInv

\* _nearest_run_time is emptied: every queue is to be collected.
LEMMA Loop_reset ==
  ASSUME IInv, loop_reset, _nearest_run_time = local.nearest
  PROVE  IInv'
<1>0. Typed /\ Looping /\ Times \subseteq Nat /\ Nearest \subseteq Nat
  BY Numbers DEF IInv
<1>a. /\ loop = "reset" /\ loop' = "count" /\ local' = NoLocal
      /\ _nearest_run_time' = Never
  BY DEF loop_reset
<1>u. UNCHANGED <<now, _exit, _timer_id, _containers, tasks, abandon_tasks, _tasks, _active_ids,
        abs_time, pc, call, nearest_time, destroyer, used, asked, runs, caught>>
  BY DEF loop_reset, queues, heap, callers, history, outside, inside
<1>1. Typed'
  <2>1. loop' \in {"top", "reset", "count", "collect", "abandon", "run", "unschedule", "fire",
                 "settle", "clock", "wait", "asleep", "woken", "done"}
    BY <1>0, <1>a, <1>u DEF Typed
  <2>2. local' \in Locals
    BY <1>a, LocalsTyped
  <2>3. _nearest_run_time' \in Nearest
    BY <1>a DEF Nearest
  <2> QED BY <1>0, <1>u, <2>1, <2>2, <2>3 DEF Typed
<1>2. Looping'
  BY <1>0, <1>a, <1>u DEF Typed, Looping
<1>3. ASSUME NEW v \in Threads PROVE Calling(v)' /\ Holding(v)' /\ Announced(v)'
  <2>0. Calling(v) /\ Holding(v) /\ Announced(v)
    BY DEF IInv
  <2>1. Calling(v)'
    BY <1>u, <2>0 DEF Calling, Registered
  <2>2. Holding(v)'
    BY <1>0, <1>a, <1>u, <2>0 DEF Typed, Holding, Registered
  <2>3. Announced(v)'
    BY <1>a DEF Announced, Uncollected
  <2> QED BY <2>1, <2>2, <2>3
<1>4. ASSUME NEW d \in caught PROVE Caught(d)'
  <2>0. Caught(d)
    BY DEF IInv
  <2> QED
    BY <1>0, <1>a, <1>u, <2>0 DEF Typed, Caught, Registered
<1> QED BY <1>u, <1>1, <1>2, <1>3, <1>4 DEF IInv

\* Somebody lowered _nearest_run_time.
LEMMA Loop_reset_again ==
  ASSUME IInv, loop_reset, _nearest_run_time # local.nearest
  PROVE  IInv'
<1>0. Typed /\ Looping /\ Times \subseteq Nat /\ Nearest \subseteq Nat
  BY Numbers DEF IInv
<1>a. loop = "reset" /\ loop' = "top" /\ local' = NoLocal
  BY DEF loop_reset, return
<1>u. UNCHANGED <<now, _exit, _nearest_run_time, _timer_id, _containers, tasks, abandon_tasks,
        _tasks, _active_ids, abs_time, pc, call, nearest_time, destroyer, used, asked, runs,
        caught>>
  BY DEF loop_reset, queues, heap, callers, history, outside, inside, return
<1>1. Typed'
  <2>1. loop' \in {"top", "reset", "count", "collect", "abandon", "run", "unschedule", "fire",
                 "settle", "clock", "wait", "asleep", "woken", "done"}
    BY <1>0, <1>a, <1>u DEF Typed
  <2>2. local' \in Locals
    BY <1>a, LocalsTyped
  <2> QED BY <1>0, <1>u, <2>1, <2>2 DEF Typed
<1>2. Looping'
  BY <1>0, <1>a, <1>u DEF Typed, Looping
<1>3. ASSUME NEW v \in Threads PROVE Calling(v)' /\ Holding(v)' /\ Announced(v)'
  <2>0. Calling(v) /\ Holding(v) /\ Announced(v)
    BY DEF IInv
  <2>1. Calling(v)'
    BY <1>u, <2>0 DEF Calling, Registered
  <2>2. Holding(v)'
    BY <1>0, <1>a, <1>u, <2>0 DEF Typed, Holding, Registered
  <2>3. Announced(v)'
    BY <1>0, <1>a, <1>u, <2>0 DEF Typed, Announced, Uncollected
  <2> QED BY <2>1, <2>2, <2>3
<1>4. ASSUME NEW d \in caught PROVE Caught(d)'
  <2>0. Caught(d)
    BY DEF IInv
  <2> QED
    BY <1>0, <1>a, <1>u, <2>0 DEF Typed, Caught, Registered
<1> QED BY <1>u, <1>1, <1>2, <1>3, <1>4 DEF IInv

\* Back to the top of the loop, from the waits.
LEMMA Loop_back ==
  ASSUME IInv, loop_clock \/ loop_wait \/ loop_woken \/ loop_timeout, return
  PROVE  IInv'
<1>0. Typed /\ Looping /\ Times \subseteq Nat /\ Nearest \subseteq Nat
  BY Numbers DEF IInv
<1>a. /\ loop \in {"clock", "wait", "asleep", "woken"}
      /\ loop' = "top" /\ local' = NoLocal
  BY DEF loop_clock, loop_wait, loop_woken, loop_timeout, return
<1>u. UNCHANGED <<now, _exit, _nearest_run_time, _timer_id, _containers, tasks, abandon_tasks,
        _tasks, _active_ids, abs_time, pc, call, nearest_time, destroyer, used, asked, runs,
        caught>>
  BY DEF loop_clock, loop_wait, loop_woken, loop_timeout, queues, heap, callers, history, outside, inside, return
<1>1. Typed'
  <2>1. loop' \in {"top", "reset", "count", "collect", "abandon", "run", "unschedule", "fire",
                 "settle", "clock", "wait", "asleep", "woken", "done"}
    BY <1>0, <1>a, <1>u DEF Typed
  <2>2. local' \in Locals
    BY <1>a, LocalsTyped
  <2> QED BY <1>0, <1>u, <2>1, <2>2 DEF Typed
<1>2. Looping'
  BY <1>0, <1>a, <1>u DEF Typed, Looping
<1>3. ASSUME NEW v \in Threads PROVE Calling(v)' /\ Holding(v)' /\ Announced(v)'
  <2>0. Calling(v) /\ Holding(v) /\ Announced(v)
    BY DEF IInv
  <2>1. Calling(v)'
    BY <1>u, <2>0 DEF Calling, Registered
  <2>2. Holding(v)'
    BY <1>0, <1>a, <1>u, <2>0 DEF Typed, Holding, Registered
  <2>3. Announced(v)'
    BY <1>0, <1>a, <1>u, <2>0 DEF Typed, Announced, Uncollected
  <2> QED BY <2>1, <2>2, <2>3
<1>4. ASSUME NEW d \in caught PROVE Caught(d)'
  <2>0. Caught(d)
    BY DEF IInv
  <2> QED
    BY <1>0, <1>a, <1>u, <2>0 DEF Typed, Caught, Registered
<1> QED BY <1>u, <1>1, <1>2, <1>3, <1>4 DEF IInv

\* The containers are counted.
LEMMA Loop_count ==
  ASSUME IInv, loop_count
  PROVE  IInv'
<1>0. Typed /\ Looping /\ Times \subseteq Nat /\ Nearest \subseteq Nat
  BY Numbers DEF IInv
<1>a. /\ loop = "count"
      /\ container(1, Len(_containers))
  BY DEF loop_count
<1>u. UNCHANGED <<now, _exit, _nearest_run_time, _timer_id, _containers, tasks, abandon_tasks,
        _tasks, _active_ids, abs_time, pc, call, nearest_time, destroyer, used, asked, runs,
        caught>>
  BY DEF loop_count, queues, heap, callers, history, outside, inside
<1>b. Len(_containers) \in Nat
  BY SMT, <1>0 DEF Typed
<1>c. /\ local' \in Locals
      /\ \/ 1 > Len(_containers) /\ loop' = "run"
         \/ 1 <= Len(_containers) /\ loop' = "collect" /\ local'.i = 1 /\ local'.size = Len(_containers)
  BY <1>a, <1>b, Containers
<1>1. Typed'
  <2>1. loop' \in {"top", "reset", "count", "collect", "abandon", "run", "unschedule", "fire",
                 "settle", "clock", "wait", "asleep", "woken", "done"}
    BY <1>c
  <2>2. local' \in Locals
    BY <1>c
  <2> QED BY <1>0, <1>u, <2>1, <2>2 DEF Typed
<1>2. Looping'
  BY SMT, <1>0, <1>b, <1>c, <1>u DEF Looping
<1>3. ASSUME NEW v \in Threads PROVE Calling(v)' /\ Holding(v)' /\ Announced(v)'
  <2>0. Calling(v) /\ Holding(v) /\ Announced(v)
    BY DEF IInv
  <2>1. Calling(v)'
    BY <1>u, <2>0 DEF Calling, Registered
  <2>2. Holding(v)'
    BY <1>c, <1>u, <2>0 DEF Holding, Registered
  <2>3. Announced(v)'
    <3>1. CASE v \in Registered
      <4>1. \E k \in 1..Len(_containers) : _containers[k] = v
        BY <1>0, <3>1, RangeLemmas DEF Typed, Registered
      <4>2. loop' = "collect" /\ local'.i = 1 /\ local'.size = Len(_containers)
        BY SMT, <1>b, <1>c, <4>1
      <4>3. v \in Uncollected'
        BY <1>u, <4>1, <4>2 DEF Uncollected
      <4> QED BY <4>3 DEF Announced
    <3>2. CASE v \notin Registered
      BY <1>u, <2>0, <3>2 DEF Holding, Announced
    <3> QED BY <3>1, <3>2
  <2> QED BY <2>1, <2>2, <2>3
<1>4. ASSUME NEW d \in caught PROVE Caught(d)'
  <2>0. Caught(d)
    BY DEF IInv
  <2> QED
    BY <1>a, <1>c, <1>u, <2>0 DEF Caught, Registered
<1> QED BY <1>u, <1>1, <1>2, <1>3, <1>4 DEF IInv

\* The tasks of a container go to the heap.
LEMMA Loop_collect ==
  ASSUME IInv, loop_collect
  PROVE  IInv'
<1>0. Typed /\ Looping /\ Times \subseteq Nat /\ Nearest \subseteq Nat
  BY Numbers DEF IInv
<1>a. /\ loop = "collect" /\ loop' = "abandon"
      /\ _tasks' = _tasks \cup Range(tasks[_containers[local.i]])
      /\ _active_ids' = _active_ids \cup Range(tasks[_containers[local.i]])
      /\ tasks' = [tasks EXCEPT ![_containers[local.i]] = <<>>]
  BY DEF loop_collect
<1>u. UNCHANGED <<now, _exit, _nearest_run_time, _timer_id, _containers, abandon_tasks,
        abs_time, pc, call, nearest_time, local, destroyer, used, asked, runs, caught>>
  BY DEF loop_collect, queues, heap, callers, history, outside, inside
<1>b. /\ local.i \in Nat /\ local.size \in Nat /\ local.i >= 1 /\ local.i <= local.size
      /\ local.i \in 1..Len(_containers) /\ local.size <= Len(_containers)
  BY <1>0, <1>a, InRound
<1>c. _containers[local.i] \in Registered /\ _containers[local.i] \in Threads
  BY <1>0, <1>a, InRound
<1>d. /\ Range(tasks[_containers[local.i]]) \subseteq used
      /\ Range(tasks'[_containers[local.i]]) = {} /\ tasks'[_containers[local.i]] = <<>>
      /\ \A v \in Threads : v # _containers[local.i] => tasks'[v] = tasks[v]
      /\ \A v \in Threads : Range(tasks'[v]) \subseteq Range(tasks[v])
  BY <1>0, <1>a, <1>c, RangeEmpty DEF Typed, IInv, Holding
<1>1. Typed'
  <2>1. loop' \in {"top", "reset", "count", "collect", "abandon", "run", "unschedule", "fire",
                 "settle", "clock", "wait", "asleep", "woken", "done"}
    BY <1>0, <1>a, <1>u DEF Typed
  <2>2. _tasks' \subseteq Ids
    BY <1>0, <1>a, <1>d DEF Typed
  <2>3. _active_ids' \subseteq Ids
    BY <1>0, <1>a, <1>d DEF Typed
  <2>4. /\ tasks' \in [Threads -> Seq(Ids)]
        /\ \A v \in Threads : Len(tasks'[v]) <= TASK_QUEUE_SIZE
    BY SMT, <1>0, <1>a, <1>c, QueueAssumption DEF Typed
  <2> QED BY <1>0, <1>u, <2>1, <2>2, <2>3, <2>4 DEF Typed
<1>2. Looping'
  BY <1>0, <1>a, <1>d, <1>u DEF Looping
<1>3. ASSUME NEW v \in Threads PROVE Calling(v)' /\ Holding(v)' /\ Announced(v)'
  <2>0. Calling(v) /\ Holding(v) /\ Announced(v)
    BY DEF IInv
  <2>1. Calling(v)'
    <3>1. Len(tasks'[v]) < TASK_QUEUE_SIZE \/ tasks'[v] = tasks[v]
      BY SMT, <1>d, QueueAssumption
    <3> QED BY <1>u, <2>0, <3>1 DEF Calling, Registered
  <2>2. Holding(v)'
    <3>1. \A id \in Range(tasks'[v]) : id \notin Range(tasks[_containers[local.i]])
      BY <1>c, <1>d, <2>0 DEF Holding
    <3> QED BY <1>a, <1>d, <1>u, <2>0, <3>1 DEF Holding, Registered
  <2>3. Announced(v)'
    <3>1. CASE v = _containers[local.i]
      BY <1>d, <3>1 DEF Announced
    <3>2. CASE v # _containers[local.i]
      <4>1. v \in Uncollected => v \in Uncollected'
        BY SMT, <1>a, <1>b, <1>u, <3>2 DEF Uncollected
      <4> QED BY <1>d, <1>u, <2>0, <3>2, <4>1 DEF Announced
    <3> QED BY <3>1, <3>2
  <2> QED BY <2>1, <2>2, <2>3
<1>4. ASSUME NEW d \in caught PROVE Caught(d)'
  <2>0. Caught(d)
    BY DEF IInv
  <2> QED
    BY <1>a, <1>c, <1>d, <1>u, <2>0 DEF Caught, Registered
<1> QED BY <1>u, <1>1, <1>2, <1>3, <1>4 DEF IInv

\* The abandonments of a container are applied, and the next container follows.
LEMMA Loop_abandon ==
  ASSUME IInv, loop_abandon
  PROVE  IInv'
<1>0. Typed /\ Looping /\ Times \subseteq Nat /\ Nearest \subseteq Nat
  BY Numbers DEF IInv
<1>a. /\ loop = "abandon"
      /\ _active_ids' = _active_ids \ UNION {Range(abandon_tasks[u]) : u \in {_containers[local.i]}}
      /\ abandon_tasks' = [u \in Threads |-> IF u \in {_containers[local.i]} THEN <<>> ELSE abandon_tasks[u]]
      /\ container(local.i + 1, local.size)
  BY DEF loop_abandon, collectUnschedule
<1>u. UNCHANGED <<now, _exit, _nearest_run_time, _timer_id, _containers, tasks, _tasks,
        abs_time, pc, call, nearest_time, destroyer, used, asked, runs, caught>>
  BY DEF loop_abandon, queues, heap, callers, history, outside, inside, collectUnschedule
<1>b. /\ local.i \in Nat /\ local.size \in Nat /\ local.i >= 1 /\ local.i <= local.size
      /\ local.i \in 1..Len(_containers) /\ local.size <= Len(_containers)
  BY <1>0, <1>a, InRound
<1>c. _containers[local.i] \in Registered /\ _containers[local.i] \in Threads
  BY <1>0, <1>a, InRound
<1>d. /\ _active_ids' \subseteq _active_ids /\ abandon_tasks' \in [Threads -> Seq(Ids)]
      /\ Range(abandon_tasks'[_containers[local.i]]) = {} /\ abandon_tasks'[_containers[local.i]] = <<>>
      /\ \A d \in _active_ids' : d \notin Range(abandon_tasks[_containers[local.i]])
      /\ \A v \in Threads : v # _containers[local.i] => abandon_tasks'[v] = abandon_tasks[v]
      /\ \A v \in Threads : Range(abandon_tasks'[v]) \subseteq Range(abandon_tasks[v])
  <2>1. _active_ids' = _active_ids \ Range(abandon_tasks[_containers[local.i]])
    BY <1>a
  <2>2. /\ abandon_tasks'[_containers[local.i]] = <<>>
        /\ \A v \in Threads : v # _containers[local.i] => abandon_tasks'[v] = abandon_tasks[v]
    BY <1>a, <1>c
  <2>3. abandon_tasks' \in [Threads -> Seq(Ids)]
    BY SMT, <1>0, <1>a DEF Typed
  <2> QED BY <2>1, <2>2, <2>3, RangeEmpty
<1>f. /\ local' \in Locals
      /\ \/ local.i + 1 > local.size /\ loop' = "run"
         \/ /\ local.i + 1 <= local.size /\ loop' = "collect"
            /\ local'.i = local.i + 1 /\ local'.size = local.size
  <2>1. local.i + 1 \in Nat /\ local.size \in Nat
    BY SMT, <1>b
  <2> QED BY <1>a, <2>1, Containers
<1>e. Uncollected' = Uncollected
  BY SMT, <1>a, <1>b, <1>f, <1>u DEF Uncollected
<1>1. Typed'
  <2>1. loop' \in {"top", "reset", "count", "collect", "abandon", "run", "unschedule", "fire",
                 "settle", "clock", "wait", "asleep", "woken", "done"}
    BY <1>f
  <2>2. local' \in Locals
    BY <1>f
  <2>3. _active_ids' \subseteq Ids
    BY <1>0, <1>d DEF Typed
  <2>4. /\ abandon_tasks' \in [Threads -> Seq(Ids)]
        /\ \A v \in Threads : Len(abandon_tasks'[v]) <= TASK_QUEUE_SIZE
    <3>1. \A v \in Threads : abandon_tasks'[v] = <<>> \/ abandon_tasks'[v] = abandon_tasks[v]
      BY <1>d
    <3>2. Len(<<>>) <= TASK_QUEUE_SIZE
      BY SMT, QueueAssumption
    <3> QED BY <1>0, <1>d, <3>1, <3>2 DEF Typed
  <2> QED BY <1>0, <1>u, <2>1, <2>2, <2>3, <2>4 DEF Typed
<1>2. Looping'
  BY SMT, <1>0, <1>b, <1>d, <1>f, <1>u DEF Looping
<1>3. ASSUME NEW v \in Threads PROVE Calling(v)' /\ Holding(v)' /\ Announced(v)'
  <2>0. Calling(v) /\ Holding(v) /\ Announced(v)
    BY DEF IInv
  <2>1. Calling(v)'
    BY <1>u, <2>0 DEF Calling, Registered
  <2>2. Holding(v)'
    BY <1>f, <1>d, <1>u, <2>0 DEF Holding, Registered
  <2>3. Announced(v)'
    BY <1>e, <1>u, <2>0 DEF Announced
  <2> QED BY <2>1, <2>2, <2>3
<1>4. ASSUME NEW d \in caught PROVE Caught(d)'
  <2>0. Caught(d)
    BY DEF IInv
  <2> QED
    <3>1. ASSUME d \in _active_ids' PROVE \E u \in Registered' : d \in Range(abandon_tasks'[u])
      <4>1. PICK u \in Registered : d \in Range(abandon_tasks[u])
        BY <1>d, <2>0, <3>1 DEF Caught
      <4>2. u # _containers[local.i] /\ u \in Threads
        BY <1>0, <1>d, <3>1, <4>1, RangeLemmas DEF Typed, Registered
      <4> QED BY <1>d, <1>u, <4>1, <4>2 DEF Registered
    <3> QED BY <1>a, <1>d, <1>u, <2>0, <3>1 DEF Caught
<1> QED BY <1>u, <1>1, <1>2, <1>3, <1>4 DEF IInv

\* Nothing in the heap is due.
LEMMA Loop_run_settle ==
  ASSUME IInv, loop_run, loop' = "settle"
  PROVE  IInv'
<1>0. Typed /\ Looping /\ Times \subseteq Nat /\ Nearest \subseteq Nat
  BY Numbers DEF IInv
<1>a. loop = "run" /\ loop' = "settle"
  BY DEF loop_run, return
<1>u. UNCHANGED <<now, _exit, _nearest_run_time, _timer_id, _containers, tasks, abandon_tasks,
        _tasks, _active_ids, abs_time, pc, call, nearest_time, local, destroyer, used, asked,
        runs, caught>>
  BY DEF loop_run, return, queues, heap, callers, history, outside, inside
<1>1. Typed'
  <2>1. loop' \in {"top", "reset", "count", "collect", "abandon", "run", "unschedule", "fire",
                 "settle", "clock", "wait", "asleep", "woken", "done"}
    BY <1>0, <1>a, <1>u DEF Typed
  <2> QED BY <1>0, <1>u, <2>1 DEF Typed
<1>2. Looping'
  BY <1>0, <1>a, <1>u DEF Typed, Looping
<1>3. ASSUME NEW v \in Threads PROVE Calling(v)' /\ Holding(v)' /\ Announced(v)'
  <2>0. Calling(v) /\ Holding(v) /\ Announced(v)
    BY DEF IInv
  <2>1. Calling(v)'
    BY <1>u, <2>0 DEF Calling, Registered
  <2>2. Holding(v)'
    BY <1>0, <1>a, <1>u, <2>0 DEF Typed, Holding, Registered
  <2>3. Announced(v)'
    BY <1>0, <1>a, <1>u, <2>0 DEF Typed, Announced, Uncollected
  <2> QED BY <2>1, <2>2, <2>3
<1>4. ASSUME NEW d \in caught PROVE Caught(d)'
  <2>0. Caught(d)
    BY DEF IInv
  <2> QED
    BY <1>0, <1>a, <1>u, <2>0 DEF Typed, Caught, Registered
<1> QED BY <1>u, <1>1, <1>2, <1>3, <1>4 DEF IInv

\* An earlier task has been scheduled meanwhile.
LEMMA Loop_run_back ==
  ASSUME IInv, loop_run, loop' = "top"
  PROVE  IInv'
<1>0. Typed /\ Looping /\ Times \subseteq Nat /\ Nearest \subseteq Nat
  BY Numbers DEF IInv
<1>a. /\ loop = "run" /\ loop' = "top" /\ local' = NoLocal
      /\ \E id \in _tasks : IsTop(id) /\ abs_time[id] > _nearest_run_time
  BY DEF loop_run, return
<1>u. UNCHANGED <<now, _exit, _nearest_run_time, _timer_id, _containers, tasks, abandon_tasks,
        _tasks, _active_ids, abs_time, pc, call, nearest_time, destroyer, used, asked, runs,
        caught>>
  BY DEF loop_run, queues, heap, callers, history, outside, inside, return
<1>1. Typed'
  <2>1. loop' \in {"top", "reset", "count", "collect", "abandon", "run", "unschedule", "fire",
                 "settle", "clock", "wait", "asleep", "woken", "done"}
    BY <1>0, <1>a, <1>u DEF Typed
  <2>2. local' \in Locals
    BY <1>a, LocalsTyped
  <2> QED BY <1>0, <1>u, <2>1, <2>2 DEF Typed
<1>2. Looping'
  <2>1. \A id \in _tasks : _nearest_run_time <= abs_time[id]
    <3>1. \A id \in _tasks : abs_time[id] \in Nat
      BY <1>0 DEF Typed
    <3>2. _nearest_run_time \in Nat
      BY <1>0 DEF Typed
    <3> QED BY SMT, <1>a, <3>1, <3>2 DEF IsTop
  <2> QED BY <1>0, <1>a, <1>u, <2>1 DEF Looping
<1>3. ASSUME NEW v \in Threads PROVE Calling(v)' /\ Holding(v)' /\ Announced(v)'
  <2>0. Calling(v) /\ Holding(v) /\ Announced(v)
    BY DEF IInv
  <2>1. Calling(v)'
    BY <1>u, <2>0 DEF Calling, Registered
  <2>2. Holding(v)'
    BY <1>0, <1>a, <1>u, <2>0 DEF Typed, Holding, Registered
  <2>3. Announced(v)'
    BY <1>0, <1>a, <1>u, <2>0 DEF Typed, Announced, Uncollected
  <2> QED BY <2>1, <2>2, <2>3
<1>4. ASSUME NEW d \in caught PROVE Caught(d)'
  <2>0. Caught(d)
    BY DEF IInv
  <2> QED
    BY <1>0, <1>a, <1>u, <2>0 DEF Typed, Caught, Registered
<1> QED BY <1>u, <1>1, <1>2, <1>3, <1>4 DEF IInv

\* The first task is taken off the heap.
LEMMA Loop_run_pop ==
  ASSUME IInv, loop_run, loop' = "unschedule"
  PROVE  IInv'
<1>0. Typed /\ Looping /\ Times \subseteq Nat /\ Nearest \subseteq Nat
  BY Numbers DEF IInv
<1>a. /\ loop = "run" /\ loop' = "unschedule"
      /\ \E id \in _tasks : /\ abs_time[id] <= now /\ _tasks' = _tasks \ {id}
                           /\ local' = [NoLocal EXCEPT !.task = id]
  BY DEF loop_run, return
<1>u. UNCHANGED <<now, _exit, _nearest_run_time, _timer_id, _containers, tasks, abandon_tasks,
        _active_ids, abs_time, pc, call, nearest_time, destroyer, used, asked, runs, caught>>
  BY DEF loop_run, queues, heap, callers, history, outside, inside, return
<1>b. PICK id \in _tasks : /\ abs_time[id] <= now /\ _tasks' = _tasks \ {id}
                            /\ local' = [NoLocal EXCEPT !.task = id]
  BY <1>a
<1>c. /\ id \in Ids /\ local'.task = id /\ local' \in Locals
      /\ _tasks' \subseteq _tasks /\ local'.task \notin _tasks'
  <2>1. id \in Ids
    BY <1>0 DEF Typed
  <2>2. local' = [nearest |-> 0, i |-> 0, size |-> 0, task |-> id, wait |-> 0]
    BY <1>b DEF NoLocal
  <2>3. 0 \in Nearest
    BY SMT, BoundAssumption DEF Nearest, Times
  <2>4. local' \in Locals /\ local'.task = id
    BY <2>1, <2>2, <2>3 DEF Locals
  <2> QED BY SMT, <1>b, <2>1, <2>4
<1>1. Typed'
  <2>1. loop' \in {"top", "reset", "count", "collect", "abandon", "run", "unschedule", "fire",
                 "settle", "clock", "wait", "asleep", "woken", "done"}
    BY <1>0, <1>a, <1>u DEF Typed
  <2>2. local' \in Locals
    BY <1>c
  <2>3. _tasks' \subseteq Ids
    BY <1>0, <1>c DEF Typed
  <2> QED BY <1>0, <1>u, <2>1, <2>2, <2>3 DEF Typed
<1>2. Looping'
  BY SMT, <1>0, <1>a, <1>b, <1>c, <1>u DEF Looping
<1>3. ASSUME NEW v \in Threads PROVE Calling(v)' /\ Holding(v)' /\ Announced(v)'
  <2>0. Calling(v) /\ Holding(v) /\ Announced(v)
    BY DEF IInv
  <2>1. Calling(v)'
    BY <1>u, <2>0 DEF Calling, Registered
  <2>2. Holding(v)'
    BY <1>b, <1>c, <1>u, <2>0 DEF Holding, Registered
  <2>3. Announced(v)'
    BY <1>a, <1>u, <2>0 DEF Announced, Uncollected
  <2> QED BY <2>1, <2>2, <2>3
<1>4. ASSUME NEW d \in caught PROVE Caught(d)'
  <2>0. Caught(d)
    BY DEF IInv
  <2> QED
    BY <1>a, <1>b, <1>c, <1>u, <2>0 DEF Caught, Registered
<1> QED BY <1>u, <1>1, <1>2, <1>3, <1>4 DEF IInv

\* Every abandonment is applied before the task is run.
LEMMA Loop_unschedule ==
  ASSUME IInv, loop_unschedule
  PROVE  IInv'
<1>0. Typed /\ Looping /\ Times \subseteq Nat /\ Nearest \subseteq Nat
  BY Numbers DEF IInv
<1>a. /\ loop = "unschedule" /\ loop' = "fire"
      /\ _active_ids' = _active_ids \ UNION {Range(abandon_tasks[u]) : u \in Registered}
      /\ abandon_tasks' = [u \in Threads |-> IF u \in Registered THEN <<>> ELSE abandon_tasks[u]]
  BY DEF loop_unschedule, collectUnschedule, Registered
<1>u. UNCHANGED <<now, _exit, _nearest_run_time, _timer_id, _containers, tasks, _tasks,
        abs_time, pc, call, nearest_time, local, destroyer, used, asked, runs, caught>>
  BY DEF loop_unschedule, queues, heap, callers, history, outside, inside, collectUnschedule, Registered
<1>b. /\ \A v \in Threads : abandon_tasks'[v] = <<>> \/ abandon_tasks'[v] = abandon_tasks[v]
      /\ abandon_tasks' \in [Threads -> Seq(Ids)]
  BY SMT, <1>0, <1>a DEF Typed
<1>c. \A v \in Threads : Range(abandon_tasks'[v]) \subseteq Range(abandon_tasks[v])
  BY <1>b, RangeEmpty
<1>d. /\ _active_ids' \subseteq _active_ids
      /\ \A u \in Registered : \A d \in Range(abandon_tasks[u]) : d \notin _active_ids'
  BY <1>a
<1>1. Typed'
  <2>1. loop' \in {"top", "reset", "count", "collect", "abandon", "run", "unschedule", "fire",
                 "settle", "clock", "wait", "asleep", "woken", "done"}
    BY <1>0, <1>a, <1>u DEF Typed
  <2>2. _active_ids' \subseteq Ids
    BY <1>0, <1>d DEF Typed
  <2>3. /\ abandon_tasks' \in [Threads -> Seq(Ids)]
        /\ \A v \in Threads : Len(abandon_tasks'[v]) <= TASK_QUEUE_SIZE
    <3>1. Len(<<>>) <= TASK_QUEUE_SIZE
      BY SMT, QueueAssumption
    <3> QED BY <1>0, <1>b, <3>1 DEF Typed
  <2> QED BY <1>0, <1>u, <2>1, <2>2, <2>3 DEF Typed
<1>2. Looping'
  BY <1>0, <1>a, <1>d, <1>u DEF Looping
<1>3. ASSUME NEW v \in Threads PROVE Calling(v)' /\ Holding(v)' /\ Announced(v)'
  <2>0. Calling(v) /\ Holding(v) /\ Announced(v)
    BY DEF IInv
  <2>1. Calling(v)'
    BY <1>u, <2>0 DEF Calling, Registered
  <2>2. Holding(v)'
    BY <1>a, <1>c, <1>d, <1>u, <2>0 DEF Holding, Registered
  <2>3. Announced(v)'
    BY <1>a, <1>u, <2>0 DEF Announced, Uncollected
  <2> QED BY <2>1, <2>2, <2>3
<1>4. ASSUME NEW d \in caught PROVE Caught(d)'
  <2>0. Caught(d)
    BY DEF IInv
  <2> QED
    BY <1>d, <1>u, <2>0 DEF Caught
<1> QED BY <1>u, <1>1, <1>2, <1>3, <1>4 DEF IInv

\* The task runs if it is still active.
LEMMA Loop_fire ==
  ASSUME IInv, loop_fire
  PROVE  IInv'
<1>0. Typed /\ Looping /\ Times \subseteq Nat /\ Nearest \subseteq Nat
  BY Numbers DEF IInv
<1>a. /\ loop = "fire" /\ loop' = "run" /\ local' = NoLocal
      /\ _active_ids' = _active_ids \ {local.task}
      /\ runs' = IF local.task \in _active_ids THEN [runs EXCEPT ![local.task] = @ + 1] ELSE runs
  BY DEF loop_fire
<1>u. UNCHANGED <<now, _exit, _nearest_run_time, _timer_id, _containers, tasks, abandon_tasks,
        _tasks, abs_time, pc, call, nearest_time, destroyer, used, asked, caught>>
  BY DEF loop_fire, queues, heap, callers, history, outside, inside
<1>1. Typed'
  <2>1. loop' \in {"top", "reset", "count", "collect", "abandon", "run", "unschedule", "fire",
                 "settle", "clock", "wait", "asleep", "woken", "done"}
    BY <1>0, <1>a, <1>u DEF Typed
  <2>2. local' \in Locals
    BY <1>a, LocalsTyped
  <2>3. _active_ids' \subseteq Ids
    BY <1>0, <1>a, <1>u DEF Typed
  <2>4. runs' \in [Ids -> Nat]
    BY SMT, <1>0, <1>a, <1>u DEF Typed
  <2> QED BY <1>0, <1>u, <2>1, <2>2, <2>3, <2>4 DEF Typed
<1>2. Looping'
  BY <1>0, <1>a, <1>u DEF Looping
<1>3. ASSUME NEW v \in Threads PROVE Calling(v)' /\ Holding(v)' /\ Announced(v)'
  <2>0. Calling(v) /\ Holding(v) /\ Announced(v)
    BY DEF IInv
  <2>1. Calling(v)'
    BY <1>u, <2>0 DEF Calling, Registered
  <2>2. Holding(v)'
    BY <1>a, <1>u, <2>0 DEF Holding, Registered
  <2>3. Announced(v)'
    BY <1>a, <1>u, <2>0 DEF Announced, Uncollected
  <2> QED BY <2>1, <2>2, <2>3
<1>4. ASSUME NEW d \in caught PROVE Caught(d)'
  <2>0. Caught(d)
    BY DEF IInv
  <2> QED
    <3>1. d = local.task => local.task \notin _active_ids
      BY <1>0, <1>a, <2>0 DEF Caught, Looping
    <3>2. runs'[d] = runs[d]
      BY <1>0, <1>a, <3>1 DEF Typed
    <3> QED BY <1>a, <1>u, <2>0, <3>2 DEF Caught, Registered
<1> QED BY <1>u, <1>1, <1>2, <1>3, <1>4 DEF IInv

\* _nearest_run_time is lowered to the first task of the heap.
LEMMA Loop_settle ==
  ASSUME IInv, loop_settle
  PROVE  IInv'
<1>0. Typed /\ Looping /\ Times \subseteq Nat /\ Nearest \subseteq Nat
  BY Numbers DEF IInv
<1>a. /\ loop = "settle" /\ loop' = "clock"
      /\ _nearest_run_time' = Min({_nearest_run_time, next_near_time})
      /\ local' = [NoLocal EXCEPT !.nearest = _nearest_run_time']
  BY DEF loop_settle
<1>u. UNCHANGED <<now, _exit, _timer_id, _containers, tasks, abandon_tasks, _tasks, _active_ids,
        abs_time, pc, call, nearest_time, destroyer, used, asked, runs, caught>>
  BY DEF loop_settle, queues, heap, callers, history, outside, inside
<1>b. /\ next_near_time \in Nearest
      /\ \A id \in _tasks : next_near_time <= abs_time[id]
  <2> DEFINE S == {abs_time[id] : id \in _tasks}
  <2>0. \A id \in _tasks : abs_time[id] \in Times
    BY <1>0 DEF Typed
  <2>1. S \subseteq Times /\ S \subseteq Nat
    BY <1>0, <2>0
  <2>2. CASE _tasks = {}
    BY <2>2 DEF next_near_time, Nearest
  <2>3. CASE _tasks # {}
    <3>1. S # {}
      BY <2>3
    <3>2. Min(S) \in S /\ \A y \in S : Min(S) <= y
      BY <2>1, <3>1, SetMin
    <3>3. next_near_time = Min(S)
      BY <2>3 DEF next_near_time
    <3> HIDE DEF S
    <3>4. \A id \in _tasks : abs_time[id] \in S
      BY DEF S
    <3> QED BY <2>1, <3>2, <3>3, <3>4 DEF Nearest
  <2> QED BY <2>2, <2>3
<1>c. /\ _nearest_run_time' \in Nearest /\ _nearest_run_time' <= _nearest_run_time
      /\ _nearest_run_time' <= next_near_time
  <2>1. _nearest_run_time \in Nearest
    BY <1>0 DEF Typed
  <2>2. {_nearest_run_time, next_near_time} \subseteq Nat
    BY <1>0, <1>b, <2>1
  <2>3. /\ Min({_nearest_run_time, next_near_time}) \in {_nearest_run_time, next_near_time}
        /\ \A y \in {_nearest_run_time, next_near_time} : Min({_nearest_run_time, next_near_time}) <= y
    BY <2>2, SetMin
  <2> QED BY <1>a, <1>b, <2>1, <2>3
<1>d. \A id \in Ids : /\ next_near_time <= abs_time[id] => _nearest_run_time' <= abs_time[id]
                      /\ _nearest_run_time <= abs_time[id] => _nearest_run_time' <= abs_time[id]
  <2>1. next_near_time \in Nat /\ _nearest_run_time \in Nat /\ _nearest_run_time' \in Nat
    BY <1>0, <1>b, <1>c DEF Typed
  <2>2. \A id \in Ids : abs_time[id] \in Nat
    BY <1>0 DEF Typed
  <2> QED BY SMT, <1>c, <2>1, <2>2
<1>1. Typed'
  <2>1. loop' \in {"top", "reset", "count", "collect", "abandon", "run", "unschedule", "fire",
                 "settle", "clock", "wait", "asleep", "woken", "done"}
    BY <1>0, <1>a, <1>u DEF Typed
  <2>2. local' \in Locals
    BY <1>a, <1>c, LocalsTyped
  <2>3. _nearest_run_time' \in Nearest
    BY <1>c
  <2> QED BY <1>0, <1>u, <2>1, <2>2, <2>3 DEF Typed
<1>2. Looping'
  <2>1. \A id \in _tasks : _nearest_run_time' <= abs_time[id]
    BY <1>0, <1>b, <1>d DEF Typed
  <2> QED BY <1>0, <1>a, <1>u, <2>1 DEF Looping
<1>3. ASSUME NEW v \in Threads PROVE Calling(v)' /\ Holding(v)' /\ Announced(v)'
  <2>0. Calling(v) /\ Holding(v) /\ Announced(v)
    BY DEF IInv
  <2>1. Calling(v)'
    BY <1>u, <2>0 DEF Calling, Registered
  <2>2. Holding(v)'
    BY <1>a, <1>u, <2>0 DEF Holding, Registered
  <2>3. Announced(v)'
    <3>1. Range(tasks[v]) \subseteq Ids
      BY <1>0, <2>0 DEF Typed, Holding
    <3>2. v \notin Uncollected
      BY <1>a DEF Uncollected
    <3> QED BY <1>d, <1>u, <2>0, <3>1, <3>2 DEF Announced
  <2> QED BY <2>1, <2>2, <2>3
<1>4. ASSUME NEW d \in caught PROVE Caught(d)'
  <2>0. Caught(d)
    BY DEF IInv
  <2> QED
    BY <1>a, <1>u, <2>0 DEF Caught, Registered
<1> QED BY <1>u, <1>1, <1>2, <1>3, <1>4 DEF IInv

\* The length of the sleep is known.
LEMMA Loop_clock ==
  ASSUME IInv, loop_clock, loop' = "wait"
  PROVE  IInv'
<1>0. Typed /\ Looping /\ Times \subseteq Nat /\ Nearest \subseteq Nat
  BY Numbers DEF IInv
<1>a. /\ loop = "clock" /\ loop' = "wait" /\ local.nearest > now
      /\ local' = [local EXCEPT !.wait = Min({local.nearest - now, MaxSleep})]
  BY DEF loop_clock, return
<1>u. UNCHANGED <<now, _exit, _nearest_run_time, _timer_id, _containers, tasks, abandon_tasks,
        _tasks, _active_ids, abs_time, pc, call, nearest_time, destroyer, used, asked, runs,
        caught>>
  BY DEF loop_clock, queues, heap, callers, history, outside, inside, return
<1>b. local' \in Locals
  <2>1. local.nearest \in Nat /\ now \in Nat /\ local.nearest > now
    BY <1>0, <1>a DEF Typed, Locals
  <2>2. local.nearest - now \in Nat /\ MaxSleep \in Nat
    BY SMT, <2>1, QueueAssumption
  <2>3. Min({local.nearest - now, MaxSleep}) \in {local.nearest - now, MaxSleep}
    BY <2>2, SetMin
  <2>4. Min({local.nearest - now, MaxSleep}) \in Nat
    BY <2>2, <2>3
  <2> QED BY <1>0, <1>a, <2>4 DEF Typed, Locals
<1>1. Typed'
  <2>1. loop' \in {"top", "reset", "count", "collect", "abandon", "run", "unschedule", "fire",
                 "settle", "clock", "wait", "asleep", "woken", "done"}
    BY <1>0, <1>a, <1>u DEF Typed
  <2>2. local' \in Locals
    BY <1>b
  <2> QED BY <1>0, <1>u, <2>1, <2>2 DEF Typed
<1>2. Looping'
  BY <1>0, <1>a, <1>u DEF Looping
<1>3. ASSUME NEW v \in Threads PROVE Calling(v)' /\ Holding(v)' /\ Announced(v)'
  <2>0. Calling(v) /\ Holding(v) /\ Announced(v)
    BY DEF IInv
  <2>1. Calling(v)'
    BY <1>u, <2>0 DEF Calling, Registered
  <2>2. Holding(v)'
    BY <1>a, <1>u, <2>0 DEF Holding, Registered
  <2>3. Announced(v)'
    BY <1>a, <1>u, <2>0 DEF Announced, Uncollected
  <2> QED BY <2>1, <2>2, <2>3
<1>4. ASSUME NEW d \in caught PROVE Caught(d)'
  <2>0. Caught(d)
    BY DEF IInv
  <2> QED
    BY <1>a, <1>u, <2>0 DEF Caught, Registered
<1> QED BY <1>u, <1>1, <1>2, <1>3, <1>4 DEF IInv

\* The thread goes to sleep: nothing has changed since it looked.
LEMMA Loop_sleep ==
  ASSUME IInv, loop_wait, loop' = "asleep"
  PROVE  IInv'
<1>0. Typed /\ Looping /\ Times \subseteq Nat /\ Nearest \subseteq Nat
  BY Numbers DEF IInv
<1>a. /\ loop = "wait" /\ loop' = "asleep" /\ ~Wanted
      /\ local' = [local EXCEPT !.wait = now + @]
  BY DEF loop_wait, return
<1>u. UNCHANGED <<now, _exit, _nearest_run_time, _timer_id, _containers, tasks, abandon_tasks,
        _tasks, _active_ids, abs_time, pc, call, nearest_time, destroyer, used, asked, runs,
        caught>>
  BY DEF loop_wait, queues, heap, callers, history, outside, inside, return
<1>b. local' \in Locals /\ local'.nearest = local.nearest
  <2>1. local \in Locals /\ now + local.wait \in Nat
    BY SMT, <1>0 DEF Typed, Locals
  <2> QED BY <1>a, <2>1 DEF Locals
<1>1. Typed'
  <2>1. loop' \in {"top", "reset", "count", "collect", "abandon", "run", "unschedule", "fire",
                 "settle", "clock", "wait", "asleep", "woken", "done"}
    BY <1>0, <1>a, <1>u DEF Typed
  <2>2. local' \in Locals
    BY <1>b
  <2> QED BY <1>0, <1>u, <2>1, <2>2 DEF Typed
<1>2. Looping'
  BY <1>0, <1>a, <1>b, <1>u DEF Looping, Wanted
<1>3. ASSUME NEW v \in Threads PROVE Calling(v)' /\ Holding(v)' /\ Announced(v)'
  <2>0. Calling(v) /\ Holding(v) /\ Announced(v)
    BY DEF IInv
  <2>1. Calling(v)'
    BY <1>u, <2>0 DEF Calling, Registered
  <2>2. Holding(v)'
    BY <1>a, <1>u, <2>0 DEF Holding, Registered
  <2>3. Announced(v)'
    BY <1>a, <1>u, <2>0 DEF Announced, Uncollected
  <2> QED BY <2>1, <2>2, <2>3
<1>4. ASSUME NEW d \in caught PROVE Caught(d)'
  <2>0. Caught(d)
    BY DEF IInv
  <2> QED
    BY <1>a, <1>u, <2>0 DEF Caught, Registered
<1> QED BY <1>u, <1>1, <1>2, <1>3, <1>4 DEF IInv

\* The thread goes back to sleep.
LEMMA Loop_sleep_again ==
  ASSUME IInv, loop_woken, loop' = "asleep"
  PROVE  IInv'
<1>0. Typed /\ Looping /\ Times \subseteq Nat /\ Nearest \subseteq Nat
  BY Numbers DEF IInv
<1>a. loop = "woken" /\ loop' = "asleep" /\ ~Wanted
  BY DEF loop_woken, return
<1>u. UNCHANGED <<now, _exit, _nearest_run_time, _timer_id, _containers, tasks, abandon_tasks,
        _tasks, _active_ids, abs_time, pc, call, nearest_time, local, destroyer, used, asked,
        runs, caught>>
  BY DEF loop_woken, queues, heap, callers, history, outside, inside, return
<1>1. Typed'
  <2>1. loop' \in {"top", "reset", "count", "collect", "abandon", "run", "unschedule", "fire",
                 "settle", "clock", "wait", "asleep", "woken", "done"}
    BY <1>0, <1>a, <1>u DEF Typed
  <2> QED BY <1>0, <1>u, <2>1 DEF Typed
<1>2. Looping'
  BY <1>0, <1>a, <1>u DEF Looping, Wanted
<1>3. ASSUME NEW v \in Threads PROVE Calling(v)' /\ Holding(v)' /\ Announced(v)'
  <2>0. Calling(v) /\ Holding(v) /\ Announced(v)
    BY DEF IInv
  <2>1. Calling(v)'
    BY <1>u, <2>0 DEF Calling, Registered
  <2>2. Holding(v)'
    BY <1>0, <1>a, <1>u, <2>0 DEF Typed, Holding, Registered
  <2>3. Announced(v)'
    BY <1>0, <1>a, <1>u, <2>0 DEF Typed, Announced, Uncollected
  <2> QED BY <2>1, <2>2, <2>3
<1>4. ASSUME NEW d \in caught PROVE Caught(d)'
  <2>0. Caught(d)
    BY DEF IInv
  <2> QED
    BY <1>0, <1>a, <1>u, <2>0 DEF Typed, Caught, Registered
<1> QED BY <1>u, <1>1, <1>2, <1>3, <1>4 DEF IInv

\* destroy begins.
LEMMA Destroy ==
  ASSUME IInv, destroy
  PROVE  IInv'
<1>0. Typed /\ Looping /\ Times \subseteq Nat /\ Nearest \subseteq Nat
  BY Numbers DEF IInv
<1>a. /\ destroyer = "idle" /\ destroyer' = "notify" /\ _exit' = TRUE
      /\ \A u \in Threads : pc[u] = "idle"
  BY DEF destroy
<1>u. UNCHANGED <<now, _nearest_run_time, _timer_id, _containers, tasks, abandon_tasks, _tasks,
        _active_ids, abs_time, pc, call, nearest_time, loop, local, used, asked, runs, caught>>
  BY DEF destroy, queues, heap, callers, history, outside, inside
<1>1. Typed'
  <2>1. _exit' \in BOOLEAN
    BY <1>0, <1>a, <1>u DEF Typed
  <2>2. destroyer' \in {"idle", "notify", "join", "done"}
    BY <1>0, <1>a, <1>u DEF Typed
  <2> QED BY <1>0, <1>u, <2>1, <2>2 DEF Typed
<1>2. Looping'
  BY <1>0, <1>a, <1>u DEF Looping
<1>3. ASSUME NEW v \in Threads PROVE Calling(v)' /\ Holding(v)' /\ Announced(v)'
  <2>0. Calling(v) /\ Holding(v) /\ Announced(v)
    BY DEF IInv
  <2>1. Calling(v)'
    BY <1>a, <1>u, <2>0 DEF Calling
  <2>2. Holding(v)'
    BY <1>u, <2>0 DEF Holding, Registered
  <2>3. Announced(v)'
    BY <1>u, <2>0 DEF Announced, Uncollected
  <2> QED BY <2>1, <2>2, <2>3
<1>4. ASSUME NEW d \in caught PROVE Caught(d)'
  <2>0. Caught(d)
    BY DEF IInv
  <2> QED
    BY <1>u, <2>0 DEF Caught, Registered
<1> QED BY <1>u, <1>1, <1>2, <1>3, <1>4 DEF IInv

\* destroy wakes the time thread.
LEMMA Destroy_notify ==
  ASSUME IInv, destroy_notify
  PROVE  IInv'
<1>0. Typed /\ Looping /\ Times \subseteq Nat /\ Nearest \subseteq Nat
  BY Numbers DEF IInv
<1>a. destroyer = "notify" /\ destroyer' = "join" /\ notify_one
  BY DEF destroy_notify
<1>u. UNCHANGED <<now, _exit, _nearest_run_time, _timer_id, _containers, tasks, abandon_tasks,
        _tasks, _active_ids, abs_time, pc, call, nearest_time, local, used, asked, runs,
        caught>>
  BY DEF destroy_notify, queues, heap, callers, history, outside, inside
<1>l. loop' = loop \/ (loop = "asleep" /\ loop' = "woken")
  BY <1>a DEF notify_one
<1>w. loop \notin {"asleep"} => loop' = loop
  BY <1>l
<1>x. \A s \in {"top", "reset", "count", "collect", "abandon", "run", "unschedule", "fire",
                 "settle", "clock", "wait", "done"} : loop' = s <=> loop = s
  BY <1>l
<1>y. loop' # "asleep" /\ Uncollected' = Uncollected
  BY <1>a, <1>u, <1>x DEF notify_one, Uncollected
<1>1. Typed'
  <2>1. loop' \in {"top", "reset", "count", "collect", "abandon", "run", "unschedule", "fire",
                 "settle", "clock", "wait", "asleep", "woken", "done"}
    <3>1. loop \in {"top", "reset", "count", "collect", "abandon", "run", "unschedule", "fire",
                 "settle", "clock", "wait", "asleep", "woken", "done"}
      BY <1>0 DEF Typed
    <3> QED BY <1>l, <3>1
  <2>2. destroyer' \in {"idle", "notify", "join", "done"}
    BY <1>0, <1>a, <1>u DEF Typed
  <2> QED BY <1>0, <1>u, <2>1, <2>2 DEF Typed
<1>2. Looping'
  BY <1>0, <1>a, <1>l, <1>u, <1>y DEF Looping
<1>3. ASSUME NEW v \in Threads PROVE Calling(v)' /\ Holding(v)' /\ Announced(v)'
  <2>0. Calling(v) /\ Holding(v) /\ Announced(v)
    BY DEF IInv
  <2>1. Calling(v)'
    BY <1>u, <2>0 DEF Calling, Registered
  <2>2. Holding(v)'
    BY <1>l, <1>u, <2>0 DEF Holding, Registered
  <2>3. Announced(v)'
    BY <1>u, <1>y, <2>0 DEF Announced
  <2> QED BY <2>1, <2>2, <2>3
<1>4. ASSUME NEW d \in caught PROVE Caught(d)'
  <2>0. Caught(d)
    BY DEF IInv
  <2> QED
    BY <1>l, <1>u, <2>0 DEF Caught, Registered
<1> QED BY <1>u, <1>1, <1>2, <1>3, <1>4 DEF IInv

\* A container is emptied and deleted.
LEMMA Destroy_drain ==
  ASSUME IInv, destroy_drain
  PROVE  IInv'
<1>0. Typed /\ Looping /\ Times \subseteq Nat /\ Nearest \subseteq Nat
  BY Numbers DEF IInv
<1>a. /\ loop = "done" /\ _containers # <<>> /\ _containers' = Tail(_containers)
      /\ _tasks' = _tasks \cup Range(tasks[Head(_containers)])
      /\ _active_ids' = (_active_ids \cup Range(tasks[Head(_containers)]))
                           \ Range(abandon_tasks[Head(_containers)])
      /\ tasks' = [tasks EXCEPT ![Head(_containers)] = <<>>]
      /\ abandon_tasks' = [abandon_tasks EXCEPT ![Head(_containers)] = <<>>]
  BY DEF destroy_drain
<1>u. UNCHANGED <<now, _exit, _nearest_run_time, _timer_id, abs_time, pc, call, nearest_time,
        loop, local, destroyer, used, asked, runs, caught>>
  BY DEF destroy_drain, queues, heap, callers, history, outside, inside
<1> DEFINE u == Head(_containers)
<1>b. /\ u \in Threads /\ Registered = Registered' \cup {u} /\ _containers' \in Seq(Threads)
  <2>1. _containers \in Seq(Threads) /\ _containers # <<>>
    BY <1>0, <1>a DEF Typed
  <2>2. u \in Threads /\ Range(_containers) = Range(Tail(_containers)) \cup {u}
    BY <2>1, RangeLemmas
  <2> QED BY SMT, <1>a, <2>1, <2>2 DEF Registered
<1> HIDE DEF u
<1>c. /\ _tasks' = _tasks \cup Range(tasks[u])
      /\ _active_ids' = (_active_ids \cup Range(tasks[u])) \ Range(abandon_tasks[u])
      /\ tasks' = [tasks EXCEPT ![u] = <<>>]
      /\ abandon_tasks' = [abandon_tasks EXCEPT ![u] = <<>>]
  BY <1>a DEF u
<1>d. /\ tasks'[u] = <<>> /\ abandon_tasks'[u] = <<>>
      /\ \A v \in Threads : v # u => tasks'[v] = tasks[v] /\ abandon_tasks'[v] = abandon_tasks[v]
  BY <1>0, <1>b, <1>c DEF Typed
<1>e. /\ Range(tasks'[u]) = {} /\ Range(abandon_tasks'[u]) = {}
      /\ Range(tasks[u]) \subseteq used
  BY <1>b, <1>d, RangeEmpty DEF IInv, Holding
<1>1. Typed'
  <2>1. _containers' \in Seq(Threads)
    BY <1>b
  <2>2. /\ tasks' \in [Threads -> Seq(Ids)]
        /\ \A v \in Threads : Len(tasks'[v]) <= TASK_QUEUE_SIZE
    <3>1. Len(<<>>) <= TASK_QUEUE_SIZE /\ <<>> \in Seq(Ids)
      BY SMT, QueueAssumption
    <3> QED BY <1>0, <1>b, <1>c, <1>d, <3>1 DEF Typed
  <2>3. /\ abandon_tasks' \in [Threads -> Seq(Ids)]
        /\ \A v \in Threads : Len(abandon_tasks'[v]) <= TASK_QUEUE_SIZE
    <3>1. Len(<<>>) <= TASK_QUEUE_SIZE /\ <<>> \in Seq(Ids)
      BY SMT, QueueAssumption
    <3> QED BY <1>0, <1>b, <1>c, <1>d, <3>1 DEF Typed
  <2>4. _tasks' \subseteq Ids
    BY <1>0, <1>c, <1>e DEF Typed
  <2>5. _active_ids' \subseteq Ids
    BY <1>0, <1>c, <1>e DEF Typed
  <2> QED BY <1>0, <1>u, <2>1, <2>2, <2>3, <2>4, <2>5 DEF Typed
<1>2. Looping'
  BY <1>0, <1>a, <1>c, <1>e, <1>u DEF Looping
<1>3. ASSUME NEW v \in Threads PROVE Calling(v)' /\ Holding(v)' /\ Announced(v)'
  <2>0. Calling(v) /\ Holding(v) /\ Announced(v)
    BY DEF IInv
  <2>1. Calling(v)'
    <3>1. _exit
      BY <1>0, <1>a DEF Looping
    <3> QED BY <1>u, <2>0, <3>1 DEF Calling
  <2>2. Holding(v)'
    <3>1. CASE v = u
      BY <1>d, <1>e, <3>1, <2>0 DEF Holding
    <3>2. CASE v # u
      <4>1. \A id \in Range(tasks[v]) : id \notin Range(tasks[u])
        BY <1>b, <2>0, <3>2 DEF Holding
      <4>2. v \notin Registered' => v \notin Registered
        BY <1>b, <3>2
      <4>3. \A w \in Threads : Range(tasks'[w]) \subseteq Range(tasks[w])
        BY <1>d, <1>e
      <4> QED BY <1>a, <1>c, <1>d, <1>u, <2>0, <3>2, <4>1, <4>2, <4>3 DEF Holding
    <3> QED BY <3>1, <3>2
  <2>3. Announced(v)'
    <3>1. Uncollected' = {} /\ Uncollected = {}
      BY <1>a, <1>u DEF Uncollected
    <3>2. Range(tasks'[v]) \subseteq Range(tasks[v])
      BY <1>d, <1>e
    <3> QED BY <1>u, <2>0, <3>1, <3>2 DEF Announced
  <2> QED BY <2>1, <2>2, <2>3
<1>4. ASSUME NEW d \in caught PROVE Caught(d)'
  <2>0. Caught(d)
    BY DEF IInv
  <2> QED
    <3>1. \A v \in Threads : d \notin Range(tasks'[v])
      BY <1>d, <1>e, <2>0 DEF Caught
    <3>2. d \in _active_ids' => d \in _active_ids /\ d \notin Range(abandon_tasks[u])
      BY <1>b, <1>c, <2>0 DEF Caught
    <3>3. ASSUME d \in _active_ids'
          PROVE  d \in _tasks' /\ \E v \in Registered' : d \in Range(abandon_tasks'[v])
      <4>1. PICK v \in Registered : d \in Range(abandon_tasks[v])
        BY <2>0, <3>2, <3>3 DEF Caught
      <4>2. v \in Threads
        BY <1>0, RangeLemmas DEF Typed, Registered
      <4>3. v # u /\ v \in Registered' /\ abandon_tasks'[v] = abandon_tasks[v]
        BY <1>b, <1>d, <3>2, <3>3, <4>1, <4>2
      <4>4. d \in _tasks
        BY <1>a, <2>0, <3>2, <3>3 DEF Caught
      <4> QED BY <1>c, <4>1, <4>3, <4>4
    <3> QED BY <1>u, <2>0, <3>1, <3>3 DEF Caught
<1> QED BY <1>u, <1>1, <1>2, <1>3, <1>4 DEF IInv

\* A task that is left runs.
LEMMA Destroy_run ==
  ASSUME IInv, NEW id \in _tasks \cap _active_ids, destroy_run,
         runs' = [runs EXCEPT ![id] = @ + 1], _active_ids' = _active_ids \ {id}, destroyer' = destroyer
  PROVE  IInv'
<1>0. Typed /\ Looping /\ Times \subseteq Nat /\ Nearest \subseteq Nat
  BY Numbers DEF IInv
<1>a. loop = "done" /\ _containers = <<>>
  BY DEF destroy_run
<1>u. UNCHANGED <<now, _exit, _nearest_run_time, _timer_id, _containers, tasks, abandon_tasks,
        _tasks, abs_time, pc, call, nearest_time, loop, local, destroyer, used, asked, caught>>
  BY DEF destroy_run, queues, heap, callers, history, outside, inside
<1>b. /\ runs' = [runs EXCEPT ![id] = @ + 1]
      /\ _active_ids' = _active_ids \ {id} /\ _active_ids' \subseteq _active_ids /\ id \in Ids
      /\ \A d \in Ids : d # id => runs'[d] = runs[d]
  BY <1>0 DEF Typed
<1>1. Typed'
  <2>1. runs' \in [Ids -> Nat]
    BY SMT, <1>0, <1>b DEF Typed
  <2>2. _active_ids' \subseteq Ids
    BY <1>0, <1>b DEF Typed
  <2> QED BY <1>0, <1>u, <2>1, <2>2 DEF Typed
<1>2. Looping'
  BY <1>0, <1>b, <1>u DEF Looping
<1>3. ASSUME NEW v \in Threads PROVE Calling(v)' /\ Holding(v)' /\ Announced(v)'
  <2>0. Calling(v) /\ Holding(v) /\ Announced(v)
    BY DEF IInv
  <2>1. Calling(v)'
    BY <1>u, <2>0 DEF Calling, Registered
  <2>2. Holding(v)'
    BY <1>b, <1>u, <2>0 DEF Holding, Registered
  <2>3. Announced(v)'
    BY <1>u, <2>0 DEF Announced, Uncollected
  <2> QED BY <2>1, <2>2, <2>3
<1>4. ASSUME NEW d \in caught PROVE Caught(d)'
  <2>0. Caught(d)
    BY DEF IInv
  <2> QED
    <3>1. Registered = {}
      BY <1>a, RangeEmpty DEF Registered
    <3>2. d # id /\ d \in Ids
      BY <1>0, <2>0, <3>1 DEF Caught, Typed
    <3> QED BY <1>b, <1>u, <2>0, <3>2 DEF Caught, Registered
<1> QED BY <1>u, <1>1, <1>2, <1>3, <1>4 DEF IInv

\* destroy returns.
LEMMA Destroy_done ==
  ASSUME IInv, destroy_run, destroyer' # destroyer
  PROVE  IInv'
<1>0. Typed /\ Looping /\ Times \subseteq Nat /\ Nearest \subseteq Nat
  BY Numbers DEF IInv
<1>a. destroyer = "join" /\ destroyer' = "done"
  BY DEF destroy_run
<1>u. UNCHANGED <<now, _exit, _nearest_run_time, _timer_id, _containers, tasks, abandon_tasks,
        _tasks, _active_ids, abs_time, pc, call, nearest_time, loop, local, used, asked, runs,
        caught>>
  BY DEF destroy_run, queues, heap, callers, history, outside, inside
<1>1. Typed'
  <2>1. destroyer' \in {"idle", "notify", "join", "done"}
    BY <1>0, <1>a, <1>u DEF Typed
  <2> QED BY <1>0, <1>u, <2>1 DEF Typed
<1>2. Looping'
  BY <1>0, <1>a, <1>u DEF Typed, Looping
<1>3. ASSUME NEW v \in Threads PROVE Calling(v)' /\ Holding(v)' /\ Announced(v)'
  <2>0. Calling(v) /\ Holding(v) /\ Announced(v)
    BY DEF IInv
  <2>1. Calling(v)'
    BY <1>u, <2>0 DEF Calling, Registered
  <2>2. Holding(v)'
    BY <1>u, <2>0 DEF Holding, Registered
  <2>3. Announced(v)'
    BY <1>u, <2>0 DEF Announced, Uncollected
  <2> QED BY <2>1, <2>2, <2>3
<1>4. ASSUME NEW d \in caught PROVE Caught(d)'
  <2>0. Caught(d)
    BY DEF IInv
  <2> QED
    BY <1>u, <2>0 DEF Caught, Registered
<1> QED BY <1>u, <1>1, <1>2, <1>3, <1>4 DEF IInv


\* A round of the time thread is not disturbed by a container that is registered.
LEMMA SameRound ==
  ASSUME Typed, Looping, NEW u \in Threads, getLocalTaskContainer(u), local' = local,
         loop' = loop \/ (loop = "asleep" /\ loop' = "woken")
  PROVE  Uncollected' = Uncollected
<1>1. CASE loop \in {"collect", "abandon"}
  <2>1. /\ local.i \in Nat /\ local.size \in Nat /\ local.i >= 1
        /\ local.size <= Len(_containers) /\ Len(_containers) \in Nat
    BY <1>1, InRound, Registers
  <2>2. \A k \in local.i..local.size : k \in 1..Len(_containers)
    BY SMT, <2>1
  <2>3. \A k \in (local.i + 1)..local.size : k \in 1..Len(_containers)
    BY SMT, <2>1
  <2>4. \A k \in 1..Len(_containers) : _containers'[k] = _containers[k]
    BY Registers
  <2>5. loop' = loop
    BY <1>1
  <2> QED BY <2>2, <2>3, <2>4, <2>5 DEF Uncollected
<1>2. CASE loop \notin {"collect", "abandon"}
  BY <1>2 DEF Uncollected
<1> QED BY <1>1, <1>2

\* A full queue takes no task.
LEMMA Schedule_full ==
  ASSUME IInv, NEW u \in Threads, NEW t \in 1..MaxTime, scheduleAbs(u, t), Len(tasks[u]) >= TASK_QUEUE_SIZE
  PROVE  IInv'
<1>0. Typed /\ Looping /\ Times \subseteq Nat /\ Nearest \subseteq Nat
  BY Numbers DEF IInv
<1>q. Len(tasks[u]) \in Nat /\ TASK_QUEUE_SIZE \in Nat
  BY SMT, <1>0, QueueAssumption DEF Typed
<1>a. getLocalTaskContainer(u) /\ _timer_id \in Ids /\ _timer_id' = _timer_id + 1
  BY <1>0, <1>q DEF scheduleAbs
<1>u. UNCHANGED <<now, _exit, _nearest_run_time, tasks, abandon_tasks, _tasks, _active_ids,
        abs_time, pc, call, nearest_time, loop, local, destroyer, used, asked, runs, caught>>
  BY SMT, <1>0, <1>q DEF scheduleAbs, queues, heap, callers, history, outside, inside
<1>r. /\ _containers' \in Seq(Threads) /\ Registered' = Registered \cup {u}
      /\ Len(_containers) \in Nat /\ Len(_containers') \in Nat /\ Len(_containers) <= Len(_containers')
  BY <1>0, <1>a, Registers
<1>s. Uncollected' = Uncollected
  BY <1>0, <1>a, <1>u, SameRound
<1>t. _timer_id \in Nat /\ _timer_id' = _timer_id + 1 /\ \A n \in Nat : n < _timer_id => n < _timer_id'
  BY SMT, <1>a, BoundAssumption DEF Ids
<1>i. \A n \in Ids : n \in Nat /\ n # 0
  BY SMT, BoundAssumption DEF Ids
<1>1. Typed'
  <2>1. _containers' \in Seq(Threads)
    BY <1>r
  <2>2. _timer_id' \in 1..MaxTasks + 1
    BY SMT, <1>a, BoundAssumption DEF Ids
  <2> QED BY <1>0, <1>u, <2>1, <2>2 DEF Typed
<1>2. Looping'
  <2>1. loop \in {"collect", "abandon"} =>
         local.i \in 1..local.size /\ local.size <= Len(_containers')
    <3>1. local.size \in Nat
      BY <1>0 DEF Typed, Locals
    <3> QED BY SMT, <1>0, <1>r, <3>1 DEF Looping
  <2>2. \A id \in used : id < _timer_id'
    <3>1. used \subseteq Nat
      BY <1>0, <1>i DEF Typed
    <3> QED BY <1>0, <1>t, <3>1 DEF Looping
  <2> QED BY <1>0, <1>u, <2>1, <2>2 DEF Looping
<1>3. ASSUME NEW v \in Threads PROVE Calling(v)' /\ Holding(v)' /\ Announced(v)'
  <2>0. Calling(v) /\ Holding(v) /\ Announced(v)
    BY DEF IInv
  <2>1. Calling(v)'
    BY <1>i, <1>r, <1>t, <1>u, <2>0 DEF Calling
  <2>2. Holding(v)'
    BY <1>r, <1>u, <2>0 DEF Holding
  <2>3. Announced(v)'
    BY <1>s, <1>u, <2>0 DEF Announced
  <2> QED BY <2>1, <2>2, <2>3
<1>4. ASSUME NEW d \in caught PROVE Caught(d)'
  <2>0. Caught(d)
    BY DEF IInv
  <2> QED
    BY <1>r, <1>u, <2>0 DEF Caught
<1> QED BY <1>u, <1>1, <1>2, <1>3, <1>4 DEF IInv

\* A task is about to be queued.
LEMMA Schedule_accepted ==
  ASSUME IInv, NEW u \in Threads, NEW t \in 1..MaxTime, scheduleAbs(u, t), Len(tasks[u]) < TASK_QUEUE_SIZE
  PROVE  IInv'
<1>0. Typed /\ Looping /\ Times \subseteq Nat /\ Nearest \subseteq Nat
  BY Numbers DEF IInv
<1>q. Len(tasks[u]) \in Nat /\ TASK_QUEUE_SIZE \in Nat
  BY SMT, <1>0, QueueAssumption DEF Typed
<1>a. /\ getLocalTaskContainer(u) /\ _timer_id \in Ids /\ _timer_id' = _timer_id + 1
      /\ pc[u] = "idle" /\ ~_exit
      /\ pc' = [pc EXCEPT ![u] = "push"]
      /\ call' = [call EXCEPT ![u] = [id |-> _timer_id, at |-> t]]
  BY SMT, <1>0, <1>q DEF scheduleAbs, Idle
<1>u. UNCHANGED <<now, _exit, _nearest_run_time, tasks, abandon_tasks, _tasks, _active_ids,
        abs_time, nearest_time, loop, local, destroyer, used, asked, runs, caught>>
  BY <1>0, <1>q DEF scheduleAbs, queues, heap, callers, history, outside, inside, Idle
<1>r. /\ _containers' \in Seq(Threads) /\ Registered' = Registered \cup {u}
      /\ Len(_containers) \in Nat /\ Len(_containers') \in Nat /\ Len(_containers) <= Len(_containers')
  BY <1>0, <1>a, Registers
<1>s. Uncollected' = Uncollected
  BY <1>0, <1>a, <1>u, SameRound
<1>t. _timer_id \in Nat /\ _timer_id' = _timer_id + 1 /\ \A n \in Nat : n < _timer_id => n < _timer_id'
  BY SMT, <1>a, BoundAssumption DEF Ids
<1>i. \A n \in Ids : n \in Nat /\ n # 0
  BY SMT, BoundAssumption DEF Ids
<1>p. /\ pc'[u] = "push" /\ call'[u].id = _timer_id
      /\ \A v \in Threads : v # u => pc'[v] = pc[v] /\ call'[v] = call[v]
  BY <1>0, <1>a DEF Typed
<1>v. \A v \in Threads : call[v].id \in Nat /\ call[v].id < _timer_id
  <2>1. ASSUME NEW v \in Threads PROVE call[v].id \in Nat /\ call[v].id < _timer_id
    <3>1. Calling(v)
      BY DEF IInv
    <3>2. 0 < _timer_id
      BY SMT, <1>a, BoundAssumption DEF Ids
    <3> QED BY SMT, <1>i, <3>1, <3>2 DEF Calling, NoCall
  <2> QED BY <2>1
<1>1. Typed'
  <2>1. _containers' \in Seq(Threads)
    BY <1>r
  <2>2. _timer_id' \in 1..MaxTasks + 1
    BY SMT, <1>a, BoundAssumption DEF Ids
  <2>3. pc' \in [Threads -> {"idle", "push", "load", "cas", "notify", "size"}]
    BY <1>0, <1>a, <1>u DEF Typed
  <2>4. call' \in [Threads -> [id : Ids \cup {0}, at : Times]]
    <3>1. t \in Times
      BY SMT, BoundAssumption DEF Times
    <3> QED BY <1>0, <1>a, <3>1 DEF Typed
  <2> QED BY <1>0, <1>u, <2>1, <2>2, <2>3, <2>4 DEF Typed
<1>2. Looping'
  <2>1. loop \in {"collect", "abandon"} =>
         local.i \in 1..local.size /\ local.size <= Len(_containers')
    <3>1. local.size \in Nat
      BY <1>0 DEF Typed, Locals
    <3> QED BY SMT, <1>0, <1>r, <3>1 DEF Looping
  <2>2. \A id \in used : id < _timer_id'
    <3>1. used \subseteq Nat
      BY <1>0, <1>i DEF Typed
    <3> QED BY <1>0, <1>t, <3>1 DEF Looping
  <2>3. (\E v \in Threads : pc[v] = "notify") => \E v \in Threads : pc'[v] = "notify"
    BY <1>a, <1>p
  <2> QED BY <1>0, <1>u, <2>1, <2>2, <2>3 DEF Looping
<1>3. ASSUME NEW v \in Threads PROVE Calling(v)' /\ Holding(v)' /\ Announced(v)'
  <2>0. Calling(v) /\ Holding(v) /\ Announced(v)
    BY DEF IInv
  <2>1. Calling(v)'
    <3>1. CASE v = u
      <4>1. _timer_id \notin used /\ _timer_id < _timer_id'
        BY SMT, <1>0, <1>t DEF Looping
      <4>2. \A w \in Threads : w # u => call'[w].id # _timer_id
        BY SMT, <1>p, <1>t, <1>v
      <4> QED BY SMT, <1>a, <1>p, <1>r, <1>u, <3>1, <4>1, <4>2 DEF Calling
    <3>2. CASE v # u
      <4>1. call[v].id < _timer_id' /\ call[v].id # _timer_id
        BY SMT, <1>t, <1>v
      <4>2. \A w \in Threads : w # v /\ call[w].id # call[v].id => call'[w].id # call'[v].id
        BY <1>p, <3>2, <4>1
      <4> QED BY <1>p, <1>r, <1>u, <2>0, <3>2, <4>1, <4>2 DEF Calling
    <3> QED BY <3>1, <3>2
  <2>2. Holding(v)'
    BY <1>r, <1>u, <2>0 DEF Holding
  <2>3. Announced(v)'
    BY <1>a, <1>p, <1>s, <1>u, <2>0 DEF Announced
  <2> QED BY <2>1, <2>2, <2>3
<1>4. ASSUME NEW d \in caught PROVE Caught(d)'
  <2>0. Caught(d)
    BY DEF IInv
  <2> QED
    BY <1>r, <1>u, <2>0 DEF Caught
<1> QED BY <1>u, <1>1, <1>2, <1>3, <1>4 DEF IInv

\* The task is queued.
LEMMA Schedule_push ==
  ASSUME IInv, NEW u \in Threads, schedule_push(u)
  PROVE  IInv'
<1>0. Typed /\ Looping /\ Times \subseteq Nat /\ Nearest \subseteq Nat
  BY Numbers DEF IInv
<1>a. /\ pc[u] = "push"
      /\ tasks' = [tasks EXCEPT ![u] = Append(@, call[u].id)]
      /\ abs_time' = [abs_time EXCEPT ![call[u].id] = call[u].at]
      /\ used' = used \cup {call[u].id}
      /\ pc' = [pc EXCEPT ![u] = "load"]
  BY DEF schedule_push
<1>u. UNCHANGED <<now, _exit, _nearest_run_time, _timer_id, _containers, abandon_tasks, _tasks,
        _active_ids, call, nearest_time, loop, local, destroyer, asked, runs, caught>>
  BY DEF schedule_push, queues, heap, callers, history, outside, inside
<1>b. /\ call[u].id \in Ids /\ call[u].id < _timer_id /\ u \in Registered
      /\ call[u].id \notin used /\ Len(tasks[u]) < TASK_QUEUE_SIZE
      /\ \A v \in Threads : v # u => call[v].id # call[u].id
  BY <1>a DEF IInv, Calling
<1>c. /\ tasks'[u] = Append(tasks[u], call[u].id)
      /\ \A v \in Threads : v # u => tasks'[v] = tasks[v] /\ pc'[v] = pc[v]
      /\ pc'[u] = "load"
  BY <1>0, <1>a DEF Typed
<1>d. Range(tasks'[u]) = Range(tasks[u]) \cup {call[u].id}
  BY SMT, <1>0, <1>b, <1>c, RangeLemmas DEF Typed
<1>e. /\ \A id \in used : abs_time'[id] = abs_time[id]
      /\ abs_time'[call[u].id] = call[u].at
  BY <1>0, <1>a, <1>b DEF Typed
<1>f. /\ \A v \in Threads : Range(tasks[v]) \subseteq used
      /\ _tasks \cup _active_ids \subseteq used
      /\ loop \in {"unschedule", "fire"} => local.task \in used
  BY <1>0 DEF IInv, Holding, Looping
<1>1. Typed'
  <2>1. /\ tasks' \in [Threads -> Seq(Ids)]
        /\ \A v \in Threads : Len(tasks'[v]) <= TASK_QUEUE_SIZE
    <3>1. tasks' \in [Threads -> Seq(Ids)]
      BY SMT, <1>0, <1>a, <1>b DEF Typed
    <3>2. Len(tasks'[u]) = Len(tasks[u]) + 1 /\ Len(tasks[u]) \in Nat
      BY SMT, <1>0, <1>b, <1>c DEF Typed
    <3>3. Len(tasks'[u]) <= TASK_QUEUE_SIZE
      BY SMT, <1>b, <3>2, QueueAssumption
    <3> QED BY <1>0, <1>c, <3>1, <3>3 DEF Typed
  <2>2. abs_time' \in [Ids -> Times]
    BY <1>0, <1>a, <1>b DEF Typed
  <2>3. used' \subseteq Ids /\ asked' \subseteq used' /\ caught' \subseteq asked'
    BY <1>0, <1>a, <1>b, <1>u DEF Typed
  <2>4. pc' \in [Threads -> {"idle", "push", "load", "cas", "notify", "size"}]
    BY <1>0, <1>a, <1>u DEF Typed
  <2> QED BY <1>0, <1>u, <2>1, <2>2, <2>3, <2>4 DEF Typed
<1>2. Looping'
  <2>1. \A id \in used' : id < _timer_id
    BY <1>0, <1>a, <1>b DEF Looping
  <2>2. (\E v \in Threads : pc[v] = "notify") => \E v \in Threads : pc'[v] = "notify"
    BY <1>a, <1>c
  <2>3. loop \in {"unschedule", "fire"} =>
         local.task \in used' \ _tasks /\ abs_time'[local.task] <= now
    BY <1>0, <1>a, <1>e DEF Looping
  <2>4. \A id \in _tasks : abs_time'[id] = abs_time[id]
    BY <1>e, <1>f
  <2> QED BY <1>0, <1>a, <1>u, <2>1, <2>2, <2>3, <2>4 DEF Looping
<1>3. ASSUME NEW v \in Threads PROVE Calling(v)' /\ Holding(v)' /\ Announced(v)'
  <2>0. Calling(v) /\ Holding(v) /\ Announced(v)
    BY DEF IInv
  <2>1. Calling(v)'
    <3>1. CASE v = u
      BY <1>a, <1>b, <1>c, <1>e, <1>u, <2>0, <3>1 DEF Calling, Registered
    <3>2. CASE v # u
      BY ZenonT(40), <1>a, <1>b, <1>c, <1>e, <1>u, <2>0, <3>2 DEF Calling, Registered
    <3> QED BY <3>1, <3>2
  <2>2. Holding(v)'
    <3>1. CASE v = u
      BY SMT, <1>a, <1>b, <1>c, <1>d, <1>f, <1>u, <2>0, <3>1 DEF Holding, Registered
    <3>2. CASE v # u
      <4>1. \A id \in Range(tasks[v]) : id # call[u].id
        BY <1>b, <1>f
      <4> QED BY ZenonT(40), <1>a, <1>c, <1>d, <1>u, <2>0, <3>2, <4>1 DEF Holding, Registered
    <3> QED BY <3>1, <3>2
  <2>3. Announced(v)'
    <3>0. Uncollected' = Uncollected
      BY <1>u DEF Uncollected
    <3>1. CASE v = u
      BY SMTT(30), <1>a, <1>c, <1>d, <1>e, <1>f, <1>u, <2>0, <3>0, <3>1 DEF Announced
    <3>2. CASE v # u
      BY <1>c, <1>e, <1>f, <1>u, <2>0, <3>0, <3>2 DEF Announced
    <3> QED BY <3>1, <3>2
  <2> QED BY <2>1, <2>2, <2>3
<1>4. ASSUME NEW d \in caught PROVE Caught(d)'
  <2>0. Caught(d)
    BY DEF IInv
  <2> QED
    <3>1. d # call[u].id
      BY <1>0, <1>b DEF Typed
    <3>2. \A v \in Threads : d \notin Range(tasks'[v])
      BY <1>c, <1>d, <2>0, <3>1 DEF Caught
    <3> QED BY <1>u, <2>0, <3>2 DEF Caught, Registered
<1> QED BY <1>u, <1>1, <1>2, <1>3, <1>4 DEF IInv

\* A caller looks at _nearest_run_time.
LEMMA Schedule_load ==
  ASSUME IInv, NEW u \in Threads, schedule_load(u)
  PROVE  IInv'
<1>0. Typed /\ Looping /\ Times \subseteq Nat /\ Nearest \subseteq Nat
  BY Numbers DEF IInv
<1>a. /\ pc[u] = "load"
      /\ nearest_time' = [nearest_time EXCEPT ![u] = _nearest_run_time]
      /\ pc' = [pc EXCEPT ![u] = IF call[u].at >= _nearest_run_time THEN "size" ELSE "cas"]
  BY DEF schedule_load
<1>u. UNCHANGED <<now, _exit, _nearest_run_time, _timer_id, _containers, tasks, abandon_tasks,
        _tasks, _active_ids, abs_time, call, loop, local, destroyer, used, asked, runs, caught>>
  BY DEF schedule_load, queues, heap, callers, history, outside, inside
<1>p. \A v \in Threads : v # u => pc'[v] = pc[v]
  BY <1>0, <1>a DEF Typed
<1>q. /\ nearest_time'[u] = _nearest_run_time
      /\ pc'[u] = IF call[u].at >= _nearest_run_time THEN "size" ELSE "cas"
      /\ \A v \in Threads : v # u => nearest_time'[v] = nearest_time[v]
  BY <1>0, <1>a DEF Typed
<1>b. call[u].at \in Nat /\ _nearest_run_time \in Nat
  BY <1>0 DEF Typed
<1>1. Typed'
  <2>1. pc' \in [Threads -> {"idle", "push", "load", "cas", "notify", "size"}]
    BY <1>0, <1>a DEF Typed
  <2>2. nearest_time' \in [Threads -> Nearest]
    BY <1>0, <1>a DEF Typed
  <2> QED BY <1>0, <1>u, <2>1, <2>2 DEF Typed
<1>2. Looping'
  <2>1. (\E v \in Threads : pc[v] = "notify") => \E v \in Threads : pc'[v] = "notify"
    BY <1>a, <1>p
  <2> QED BY <1>0, <1>u, <2>1 DEF Looping
<1>3. ASSUME NEW v \in Threads PROVE Calling(v)' /\ Holding(v)' /\ Announced(v)'
  <2>0. Calling(v) /\ Holding(v) /\ Announced(v)
    BY DEF IInv
  <2>1. Calling(v)'
    <3>1. CASE v = u
      <4>1. pc'[u] = "cas" => call[u].at < nearest_time'[u]
        BY SMT, <1>b, <1>q
      <4>2. pc'[u] \in {"size", "cas"}
        BY <1>q
      <4> QED BY <1>a, <1>u, <2>0, <3>1, <4>1, <4>2 DEF Calling, Registered
    <3>2. CASE v # u
      BY <1>p, <1>q, <1>u, <2>0, <3>2 DEF Calling, Registered
    <3> QED BY <3>1, <3>2
  <2>2. Holding(v)'
    BY <1>u, <2>0 DEF Holding, Registered
  <2>3. Announced(v)'
    <3>0. Uncollected' = Uncollected
      BY <1>u DEF Uncollected
    <3>1. CASE v = u
      <4>1. abs_time[call[u].id] = call[u].at
        BY <1>a, <2>0, <3>1 DEF Calling
      <4>2. _nearest_run_time <= abs_time[call[u].id] \/ pc'[u] = "cas"
        BY <1>b, <1>q, <4>1
      <4> QED BY <1>u, <2>0, <3>0, <3>1, <4>2 DEF Announced
    <3>2. CASE v # u
      BY <1>p, <1>u, <2>0, <3>0, <3>2 DEF Announced
    <3> QED BY <3>1, <3>2
  <2> QED BY <2>1, <2>2, <2>3
<1>4. ASSUME NEW d \in caught PROVE Caught(d)'
  <2>0. Caught(d)
    BY DEF IInv
  <2> QED
    BY <1>u, <2>0 DEF Caught, Registered
<1> QED BY <1>u, <1>1, <1>2, <1>3, <1>4 DEF IInv

\* The compare-and-swap fails.
LEMMA Schedule_cas_fails ==
  ASSUME IInv, NEW u \in Threads, schedule_cas(u), _nearest_run_time # nearest_time[u]
  PROVE  IInv'
<1>0. Typed /\ Looping /\ Times \subseteq Nat /\ Nearest \subseteq Nat
  BY Numbers DEF IInv
<1>a. /\ pc[u] = "cas"
      /\ nearest_time' = [nearest_time EXCEPT ![u] = _nearest_run_time]
      /\ pc' = [pc EXCEPT ![u] = IF call[u].at >= _nearest_run_time THEN "size" ELSE "cas"]
  BY DEF schedule_cas
<1>u. UNCHANGED <<now, _exit, _nearest_run_time, _timer_id, _containers, tasks, abandon_tasks,
        _tasks, _active_ids, abs_time, call, loop, local, destroyer, used, asked, runs, caught>>
  BY DEF schedule_cas, queues, heap, callers, history, outside, inside
<1>p. \A v \in Threads : v # u => pc'[v] = pc[v]
  BY <1>0, <1>a DEF Typed
<1>q. /\ nearest_time'[u] = _nearest_run_time
      /\ pc'[u] = IF call[u].at >= _nearest_run_time THEN "size" ELSE "cas"
      /\ \A v \in Threads : v # u => nearest_time'[v] = nearest_time[v]
  BY <1>0, <1>a DEF Typed
<1>b. call[u].at \in Nat /\ _nearest_run_time \in Nat
  BY <1>0 DEF Typed
<1>1. Typed'
  <2>1. pc' \in [Threads -> {"idle", "push", "load", "cas", "notify", "size"}]
    BY <1>0, <1>a DEF Typed
  <2>2. nearest_time' \in [Threads -> Nearest]
    BY <1>0, <1>a DEF Typed
  <2> QED BY <1>0, <1>u, <2>1, <2>2 DEF Typed
<1>2. Looping'
  <2>1. (\E v \in Threads : pc[v] = "notify") => \E v \in Threads : pc'[v] = "notify"
    BY <1>a, <1>p
  <2> QED BY <1>0, <1>u, <2>1 DEF Looping
<1>3. ASSUME NEW v \in Threads PROVE Calling(v)' /\ Holding(v)' /\ Announced(v)'
  <2>0. Calling(v) /\ Holding(v) /\ Announced(v)
    BY DEF IInv
  <2>1. Calling(v)'
    <3>1. CASE v = u
      <4>1. pc'[u] = "cas" => call[u].at < nearest_time'[u]
        BY SMT, <1>b, <1>q
      <4>2. pc'[u] \in {"size", "cas"}
        BY <1>q
      <4> QED BY <1>a, <1>u, <2>0, <3>1, <4>1, <4>2 DEF Calling, Registered
    <3>2. CASE v # u
      BY <1>p, <1>q, <1>u, <2>0, <3>2 DEF Calling, Registered
    <3> QED BY <3>1, <3>2
  <2>2. Holding(v)'
    BY <1>u, <2>0 DEF Holding, Registered
  <2>3. Announced(v)'
    <3>0. Uncollected' = Uncollected
      BY <1>u DEF Uncollected
    <3>1. CASE v = u
      <4>1. abs_time[call[u].id] = call[u].at
        BY <1>a, <2>0, <3>1 DEF Calling
      <4>2. _nearest_run_time <= abs_time[call[u].id] \/ pc'[u] = "cas"
        BY <1>b, <1>q, <4>1
      <4> QED BY <1>u, <2>0, <3>0, <3>1, <4>2 DEF Announced
    <3>2. CASE v # u
      BY <1>p, <1>u, <2>0, <3>0, <3>2 DEF Announced
    <3> QED BY <3>1, <3>2
  <2> QED BY <2>1, <2>2, <2>3
<1>4. ASSUME NEW d \in caught PROVE Caught(d)'
  <2>0. Caught(d)
    BY DEF IInv
  <2> QED
    BY <1>u, <2>0 DEF Caught, Registered
<1> QED BY <1>u, <1>1, <1>2, <1>3, <1>4 DEF IInv

\* The compare-and-swap lowers _nearest_run_time.
LEMMA Schedule_cas ==
  ASSUME IInv, NEW u \in Threads, schedule_cas(u), _nearest_run_time = nearest_time[u]
  PROVE  IInv'
<1>0. Typed /\ Looping /\ Times \subseteq Nat /\ Nearest \subseteq Nat
  BY Numbers DEF IInv
<1>a. /\ pc[u] = "cas" /\ _nearest_run_time' = call[u].at
      /\ pc' = [pc EXCEPT ![u] = "notify"]
  BY DEF schedule_cas
<1>u. UNCHANGED <<now, _exit, _timer_id, _containers, tasks, abandon_tasks, _tasks, _active_ids,
        abs_time, call, nearest_time, loop, local, destroyer, used, asked, runs, caught>>
  BY DEF schedule_cas, queues, heap, callers, history, outside, inside
<1>p. \A v \in Threads : v # u => pc'[v] = pc[v]
  BY <1>0, <1>a DEF Typed
<1>q. pc'[u] = "notify"
  BY <1>0, <1>a DEF Typed
<1>b. /\ call[u].at \in Times /\ call[u].at \in Nat /\ _nearest_run_time \in Nat
      /\ \A id \in Ids : abs_time[id] \in Nat
  BY <1>0 DEF Typed
<1>c. _nearest_run_time' < _nearest_run_time /\ _nearest_run_time' = abs_time[call[u].id]
  BY <1>a DEF IInv, Calling
<1>d. \A id \in Ids : _nearest_run_time <= abs_time[id] => _nearest_run_time' <= abs_time[id]
  BY SMT, <1>a, <1>b, <1>c
<1>e. _tasks \subseteq Ids /\ call[u].id \in Ids
  BY <1>0, <1>a DEF Typed, IInv, Calling
<1>1. Typed'
  <2>1. pc' \in [Threads -> {"idle", "push", "load", "cas", "notify", "size"}]
    BY <1>0, <1>a DEF Typed
  <2>2. _nearest_run_time' \in Nearest
    BY <1>a, <1>b DEF Nearest
  <2> QED BY <1>0, <1>u, <2>1, <2>2 DEF Typed
<1>2. Looping'
  <2>1. \E v \in Threads : pc'[v] = "notify"
    BY <1>q
  <2>2. \A id \in _tasks : _nearest_run_time <= abs_time[id] => _nearest_run_time' <= abs_time[id]
    BY <1>d, <1>e
  <2> QED BY <1>0, <1>u, <2>1, <2>2 DEF Looping
<1>3. ASSUME NEW v \in Threads PROVE Calling(v)' /\ Holding(v)' /\ Announced(v)'
  <2>0. Calling(v) /\ Holding(v) /\ Announced(v)
    BY DEF IInv
  <2>1. Calling(v)'
    <3>1. CASE v = u
      BY <1>a, <1>q, <1>u, <2>0, <3>1 DEF Calling, Registered
    <3>2. CASE v # u
      BY <1>p, <1>u, <2>0, <3>2 DEF Calling, Registered
    <3> QED BY <3>1, <3>2
  <2>2. Holding(v)'
    BY <1>u, <2>0 DEF Holding, Registered
  <2>3. Announced(v)'
    <3>0. Uncollected' = Uncollected
      BY <1>u DEF Uncollected
    <3>1. Range(tasks[v]) \subseteq Ids
      BY <1>0, <2>0 DEF Typed, Holding
    <3>2. _nearest_run_time' <= abs_time[call[u].id]
      BY SMT, <1>a, <1>b, <1>c
    <3>3. CASE v = u
      BY <1>d, <1>u, <2>0, <3>0, <3>1, <3>2, <3>3 DEF Announced
    <3>4. CASE v # u
      BY <1>d, <1>p, <1>u, <2>0, <3>0, <3>1, <3>4 DEF Announced
    <3> QED BY <3>3, <3>4
  <2> QED BY <2>1, <2>2, <2>3
<1>4. ASSUME NEW d \in caught PROVE Caught(d)'
  <2>0. Caught(d)
    BY DEF IInv
  <2> QED
    BY <1>u, <2>0 DEF Caught, Registered
<1> QED BY <1>u, <1>1, <1>2, <1>3, <1>4 DEF IInv

\* The time thread is notified.
LEMMA Schedule_notify ==
  ASSUME IInv, NEW u \in Threads, schedule_notify(u)
  PROVE  IInv'
<1>0. Typed /\ Looping /\ Times \subseteq Nat /\ Nearest \subseteq Nat
  BY Numbers DEF IInv
<1>a. /\ pc[u] = "notify" /\ notify_one
      /\ pc' = [pc EXCEPT ![u] = "size"]
  BY DEF schedule_notify
<1>u. UNCHANGED <<now, _exit, _nearest_run_time, _timer_id, _containers, tasks, abandon_tasks,
        _tasks, _active_ids, abs_time, call, nearest_time, local, destroyer, used, asked, runs,
        caught>>
  BY DEF schedule_notify, queues, heap, callers, history, outside, inside
<1>p. \A v \in Threads : v # u => pc'[v] = pc[v]
  BY <1>0, <1>a DEF Typed
<1>q. pc'[u] = "size"
  BY <1>0, <1>a DEF Typed
<1>l. loop' = loop \/ (loop = "asleep" /\ loop' = "woken")
  BY <1>a DEF notify_one
<1>w. loop \notin {"asleep"} => loop' = loop
  BY <1>l
<1>x. \A s \in {"top", "reset", "count", "collect", "abandon", "run", "unschedule", "fire",
                 "settle", "clock", "wait", "done"} : loop' = s <=> loop = s
  BY <1>l
<1>y. loop' # "asleep" /\ Uncollected' = Uncollected
  BY <1>a, <1>u, <1>x DEF notify_one, Uncollected
<1>1. Typed'
  <2>1. pc' \in [Threads -> {"idle", "push", "load", "cas", "notify", "size"}]
    BY <1>0, <1>a DEF Typed
  <2>2. loop' \in {"top", "reset", "count", "collect", "abandon", "run", "unschedule", "fire",
                 "settle", "clock", "wait", "asleep", "woken", "done"}
    <3>1. loop \in {"top", "reset", "count", "collect", "abandon", "run", "unschedule", "fire",
                 "settle", "clock", "wait", "asleep", "woken", "done"}
      BY <1>0 DEF Typed
    <3> QED BY <1>l, <3>1
  <2> QED BY <1>0, <1>u, <2>1, <2>2 DEF Typed
<1>2. Looping'
  BY <1>0, <1>l, <1>u, <1>y DEF Looping
<1>3. ASSUME NEW v \in Threads PROVE Calling(v)' /\ Holding(v)' /\ Announced(v)'
  <2>0. Calling(v) /\ Holding(v) /\ Announced(v)
    BY DEF IInv
  <2>1. Calling(v)'
    <3>1. CASE v = u
      BY <1>a, <1>q, <1>u, <2>0, <3>1 DEF Calling, Registered
    <3>2. CASE v # u
      BY <1>p, <1>u, <2>0, <3>2 DEF Calling, Registered
    <3> QED BY <3>1, <3>2
  <2>2. Holding(v)'
    BY <1>l, <1>u, <2>0 DEF Holding, Registered
  <2>3. Announced(v)'
    <3>1. CASE v = u
      BY <1>a, <1>u, <1>y, <2>0, <3>1 DEF Announced
    <3>2. CASE v # u
      BY <1>p, <1>u, <1>y, <2>0, <3>2 DEF Announced
    <3> QED BY <3>1, <3>2
  <2> QED BY <2>1, <2>2, <2>3
<1>4. ASSUME NEW d \in caught PROVE Caught(d)'
  <2>0. Caught(d)
    BY DEF IInv
  <2> QED
    BY <1>l, <1>u, <2>0 DEF Caught, Registered
<1> QED BY <1>u, <1>1, <1>2, <1>3, <1>4 DEF IInv

\* scheduleAbs returns.
LEMMA Schedule_size ==
  ASSUME IInv, NEW u \in Threads, schedule_size(u)
  PROVE  IInv'
<1>0. Typed /\ Looping /\ Times \subseteq Nat /\ Nearest \subseteq Nat
  BY Numbers DEF IInv
<1>a. /\ pc[u] = "size" /\ (notify_one \/ UNCHANGED loop)
      /\ pc' = [pc EXCEPT ![u] = "idle"]
      /\ call' = [call EXCEPT ![u] = NoCall]
      /\ nearest_time' = [nearest_time EXCEPT ![u] = 0]
  BY DEF schedule_size
<1>u. UNCHANGED <<now, _exit, _nearest_run_time, _timer_id, _containers, tasks, abandon_tasks,
        _tasks, _active_ids, abs_time, local, destroyer, used, asked, runs, caught>>
  BY DEF schedule_size, queues, heap, callers, history, outside, inside
<1>p. \A v \in Threads : v # u => pc'[v] = pc[v]
  BY <1>0, <1>a DEF Typed
<1>q. /\ pc'[u] = "idle" /\ call'[u] = NoCall
      /\ \A v \in Threads : v # u => call'[v] = call[v] /\ nearest_time'[v] = nearest_time[v]
  BY <1>0, <1>a DEF Typed
<1>l. loop' = loop \/ (loop = "asleep" /\ loop' = "woken")
  BY <1>a DEF notify_one
<1>w. loop \notin {"asleep"} => loop' = loop
  BY <1>l
<1>x. \A s \in {"top", "reset", "count", "collect", "abandon", "run", "unschedule", "fire",
                 "settle", "clock", "wait", "done"} : loop' = s <=> loop = s
  BY <1>l
<1>y. Uncollected' = Uncollected
  BY <1>l, <1>u, <1>x DEF Uncollected
<1>1. Typed'
  <2>1. pc' \in [Threads -> {"idle", "push", "load", "cas", "notify", "size"}]
    BY <1>0, <1>a DEF Typed
  <2>2. call' \in [Threads -> [id : Ids \cup {0}, at : Times]]
    BY SMT, <1>0, <1>a, BoundAssumption DEF Typed, NoCall, Times
  <2>3. nearest_time' \in [Threads -> Nearest]
    BY SMT, <1>0, <1>a, BoundAssumption DEF Typed, Nearest, Times
  <2>4. loop' \in {"top", "reset", "count", "collect", "abandon", "run", "unschedule", "fire",
                 "settle", "clock", "wait", "asleep", "woken", "done"}
    <3>1. loop \in {"top", "reset", "count", "collect", "abandon", "run", "unschedule", "fire",
                 "settle", "clock", "wait", "asleep", "woken", "done"}
      BY <1>0 DEF Typed
    <3> QED BY <1>l, <3>1
  <2> QED BY <1>0, <1>u, <2>1, <2>2, <2>3, <2>4 DEF Typed
<1>2. Looping'
  <2>1. (\E v \in Threads : pc[v] = "notify") => \E v \in Threads : pc'[v] = "notify"
    BY <1>a, <1>p
  <2> QED BY <1>0, <1>l, <1>u, <2>1 DEF Looping
<1>3. ASSUME NEW v \in Threads PROVE Calling(v)' /\ Holding(v)' /\ Announced(v)'
  <2>0. Calling(v) /\ Holding(v) /\ Announced(v)
    BY DEF IInv
  <2>1. Calling(v)'
    <3>1. CASE v = u
      BY <1>q, <3>1 DEF Calling
    <3>2. CASE v # u
      <4>1. pc[v] # "idle" => call'[u].id # call[v].id
        <5>1. call'[u].id = 0 /\ 0 \notin Ids
          BY SMT, <1>q, BoundAssumption DEF NoCall, Ids
        <5>2. pc[v] # "idle" => call[v].id \in Ids
          BY <2>0 DEF Calling
        <5> QED BY <5>1, <5>2
      <4> QED BY <1>p, <1>q, <1>u, <2>0, <3>2, <4>1 DEF Calling, Registered
    <3> QED BY <3>1, <3>2
  <2>2. Holding(v)'
    BY <1>l, <1>u, <2>0 DEF Holding, Registered
  <2>3. Announced(v)'
    <3>1. CASE v = u
      BY <1>a, <1>u, <1>y, <2>0, <3>1 DEF Announced
    <3>2. CASE v # u
      BY <1>p, <1>q, <1>u, <1>y, <2>0, <3>2 DEF Announced
    <3> QED BY <3>1, <3>2
  <2> QED BY <2>1, <2>2, <2>3
<1>4. ASSUME NEW d \in caught PROVE Caught(d)'
  <2>0. Caught(d)
    BY DEF IInv
  <2> QED
    BY <1>l, <1>u, <2>0 DEF Caught, Registered
<1> QED BY <1>u, <1>1, <1>2, <1>3, <1>4 DEF IInv

\* An abandonment is queued.
LEMMA Unschedule ==
  ASSUME IInv, NEW u \in Threads, NEW id \in Ids, unschedule(u, id)
  PROVE  IInv'
<1>0. Typed /\ Looping /\ Times \subseteq Nat /\ Nearest \subseteq Nat
  BY Numbers DEF IInv
<1>a. /\ pc[u] = "idle" /\ ~_exit /\ id \in used /\ runs[id] = 0
      /\ Len(abandon_tasks[u]) < TASK_QUEUE_SIZE /\ getLocalTaskContainer(u)
      /\ abandon_tasks' = [abandon_tasks EXCEPT ![u] = Append(@, id)]
      /\ asked' = asked \cup {id}
      /\ caught' = IF id \in _tasks THEN caught \cup {id} ELSE caught
      /\ notify_one \/ UNCHANGED loop
  BY DEF unschedule, Idle
<1>u. UNCHANGED <<now, _exit, _nearest_run_time, _timer_id, tasks, _tasks, _active_ids,
        abs_time, pc, call, nearest_time, local, destroyer, used, runs>>
  BY DEF unschedule, queues, heap, callers, history, outside, inside, Idle
<1>l. loop' = loop \/ (loop = "asleep" /\ loop' = "woken")
  BY <1>a DEF notify_one
<1>w. loop \notin {"asleep"} => loop' = loop
  BY <1>l
<1>x. \A s \in {"top", "reset", "count", "collect", "abandon", "run", "unschedule", "fire",
                 "settle", "clock", "wait", "done"} : loop' = s <=> loop = s
  BY <1>l
<1>r. /\ _containers' \in Seq(Threads) /\ Registered' = Registered \cup {u}
      /\ Len(_containers) \in Nat /\ Len(_containers') \in Nat /\ Len(_containers) <= Len(_containers')
  BY <1>0, <1>a, Registers
<1>s. Uncollected' = Uncollected
  BY <1>0, <1>a, <1>l, <1>u, SameRound
<1>b. /\ abandon_tasks'[u] = Append(abandon_tasks[u], id)
      /\ \A v \in Threads : v # u => abandon_tasks'[v] = abandon_tasks[v]
  BY <1>0, <1>a DEF Typed
<1>c. Range(abandon_tasks'[u]) = Range(abandon_tasks[u]) \cup {id}
  BY SMT, <1>0, <1>b, RangeLemmas DEF Typed
<1>d. \A v \in Threads : Range(abandon_tasks[v]) \subseteq Range(abandon_tasks'[v])
  BY <1>b, <1>c
<1>1. Typed'
  <2>1. _containers' \in Seq(Threads)
    BY <1>r
  <2>2. /\ abandon_tasks' \in [Threads -> Seq(Ids)]
        /\ \A v \in Threads : Len(abandon_tasks'[v]) <= TASK_QUEUE_SIZE
    <3>1. abandon_tasks' \in [Threads -> Seq(Ids)]
      BY SMT, <1>0, <1>a DEF Typed
    <3>2. Len(abandon_tasks'[u]) = Len(abandon_tasks[u]) + 1 /\ Len(abandon_tasks[u]) \in Nat
      BY SMT, <1>0, <1>b DEF Typed
    <3>3. Len(abandon_tasks'[u]) <= TASK_QUEUE_SIZE
      BY SMT, <1>a, <3>2, QueueAssumption
    <3> QED BY <1>0, <1>b, <3>1, <3>3 DEF Typed
  <2>3. loop' \in {"top", "reset", "count", "collect", "abandon", "run", "unschedule", "fire",
                 "settle", "clock", "wait", "asleep", "woken", "done"}
    <3>1. loop \in {"top", "reset", "count", "collect", "abandon", "run", "unschedule", "fire",
                 "settle", "clock", "wait", "asleep", "woken", "done"}
      BY <1>0 DEF Typed
    <3> QED BY <1>l, <3>1
  <2>4. used' \subseteq Ids /\ asked' \subseteq used' /\ caught' \subseteq asked'
    BY <1>0, <1>a, <1>u DEF Typed
  <2> QED BY <1>0, <1>u, <2>1, <2>2, <2>3, <2>4 DEF Typed
<1>2. Looping'
  <2>1. loop \in {"collect", "abandon"} =>
         local.i \in 1..local.size /\ local.size <= Len(_containers')
    <3>1. local.size \in Nat
      BY <1>0 DEF Typed, Locals
    <3> QED BY SMT, <1>0, <1>r, <3>1 DEF Looping
  <2> QED BY <1>0, <1>l, <1>u, <2>1 DEF Looping
<1>3. ASSUME NEW v \in Threads PROVE Calling(v)' /\ Holding(v)' /\ Announced(v)'
  <2>0. Calling(v) /\ Holding(v) /\ Announced(v)
    BY DEF IInv
  <2>1. Calling(v)'
    BY <1>r, <1>u, <2>0 DEF Calling
  <2>2. Holding(v)'
    <3>1. Range(abandon_tasks'[v]) \subseteq asked'
      BY <1>a, <1>b, <1>c, <2>0 DEF Holding
    <3> QED BY <1>l, <1>r, <1>u, <2>0, <3>1 DEF Holding
  <2>3. Announced(v)'
    BY <1>s, <1>u, <2>0 DEF Announced
  <2> QED BY <2>1, <2>2, <2>3
<1>4. ASSUME NEW d \in caught' PROVE Caught(d)'
  <2>1. CASE d \in caught
    <3>0. Caught(d)
      BY <2>1 DEF IInv
    <3>1. Registered \subseteq Threads
      BY <1>0, RangeLemmas DEF Typed, Registered
    <3>2. d \in _active_ids => \E v \in Registered' : d \in Range(abandon_tasks'[v])
      BY <1>d, <1>r, <3>0, <3>1 DEF Caught
    <3>3. d \in _active_ids => d \in _tasks \/ (loop' = "unschedule" /\ local.task = d)
      BY <1>l, <3>0 DEF Caught
    <3> QED BY <1>u, <3>0, <3>2, <3>3 DEF Caught
  <2>2. CASE d \notin caught
    <3>1. d = id /\ id \in _tasks
      BY <1>a, <2>2
    <3>2. \A v \in Threads : id \notin Range(tasks[v])
      BY <3>1 DEF IInv, Holding
    <3>3. u \in Registered' /\ id \in Range(abandon_tasks'[u])
      BY <1>c, <1>r
    <3> QED BY <1>a, <1>u, <3>1, <3>2, <3>3 DEF Caught
  <2> QED BY <2>1, <2>2
<1> QED BY <1>u, <1>1, <1>2, <1>3, <1>4 DEF IInv

\* The initial state satisfies the inductive invariant.
LEMMA InitIInv == Init => IInv
<1> SUFFICES ASSUME Init PROVE IInv
  OBVIOUS
<1>0. Times \subseteq Nat /\ 0 \in Times /\ 0 \in Nearest /\ Never \in Nearest
  BY SMT, BoundAssumption DEF Times, Nearest
<1>1. Typed
  <2>1. _timer_id \in 1..MaxTasks + 1
    BY SMT, BoundAssumption DEF Init
  <2>2. local \in Locals
    BY LocalsTyped DEF Init
  <2>3. /\ tasks \in [Threads -> Seq(Ids)] /\ abandon_tasks \in [Threads -> Seq(Ids)]
        /\ \A u \in Threads : Len(tasks[u]) <= TASK_QUEUE_SIZE /\ Len(abandon_tasks[u]) <= TASK_QUEUE_SIZE
    BY SMT, QueueAssumption DEF Init
  <2>4. call \in [Threads -> [id : Ids \cup {0}, at : Times]]
    BY <1>0 DEF Init, NoCall
  <2>5. abs_time \in [Ids -> Times] /\ runs \in [Ids -> Nat] /\ nearest_time \in [Threads -> Nearest]
    BY <1>0 DEF Init
  <2>6. pc \in [Threads -> {"idle", "push", "load", "cas", "notify", "size"}]
    BY DEF Init
  <2>7. /\ _tasks \subseteq Ids /\ _active_ids \subseteq Ids
        /\ used \subseteq Ids /\ asked \subseteq used /\ caught \subseteq asked
    BY DEF Init
  <2>9. _exit \in BOOLEAN
    BY DEF Init
  <2>10. _containers \in Seq(Threads)
    BY SMT DEF Init
  <2>8. now \in Times /\ _nearest_run_time \in Nearest /\ loop = "top" /\ destroyer = "idle"
    BY <1>0 DEF Init
  <2> QED BY <2>1, <2>2, <2>3, <2>4, <2>5, <2>6, <2>7, <2>8, <2>9, <2>10 DEF Typed
<1>2. Looping
  BY DEF Init, Looping
<1>3. ASSUME NEW u \in Threads PROVE Calling(u) /\ Holding(u) /\ Announced(u)
  <2>1. tasks[u] = <<>> /\ abandon_tasks[u] = <<>> /\ pc[u] = "idle" /\ call[u] = NoCall
    BY DEF Init
  <2>2. Range(tasks[u]) = {} /\ Range(abandon_tasks[u]) = {}
    BY <2>1, RangeEmpty
  <2> QED BY <2>1, <2>2 DEF Calling, Holding, Announced
<1> QED BY <1>1, <1>2, <1>3 DEF Init, IInv

\* Every step of the time thread keeps the invariant.
LEMMA TimeThreadIInv == ASSUME IInv, TimeThreadNext PROVE IInv'
<1>1. CASE loopOnce
  BY <1>1, Loop_once
<1>2. CASE loop_reset
  <2>1. CASE _nearest_run_time = local.nearest
    BY <1>2, <2>1, Loop_reset
  <2>2. CASE _nearest_run_time # local.nearest
    BY <1>2, <2>2, Loop_reset_again
  <2> QED BY <2>1, <2>2
<1>3. CASE loop_count
  BY <1>3, Loop_count
<1>4. CASE loop_collect
  BY <1>4, Loop_collect
<1>5. CASE loop_abandon
  BY <1>5, Loop_abandon
<1>6. CASE loop_run
  <2>1. loop' \in {"settle", "top", "unschedule"}
    BY <1>6 DEF loop_run, return
  <2> QED BY <1>6, <2>1, Loop_run_settle, Loop_run_back, Loop_run_pop
<1>7. CASE loop_unschedule
  BY <1>7, Loop_unschedule
<1>8. CASE loop_fire
  BY <1>8, Loop_fire
<1>9. CASE loop_settle
  BY <1>9, Loop_settle
<1>10. CASE loop_clock
  <2>1. loop' = "wait" \/ return
    BY <1>10 DEF loop_clock
  <2> QED BY <1>10, <2>1, Loop_clock, Loop_back
<1>11. CASE loop_wait
  <2>1. loop' = "asleep" \/ return
    BY <1>11 DEF loop_wait
  <2> QED BY <1>11, <2>1, Loop_sleep, Loop_back
<1>12. CASE loop_woken
  <2>1. loop' = "asleep" \/ return
    BY <1>12 DEF loop_woken
  <2> QED BY <1>12, <2>1, Loop_sleep_again, Loop_back
<1>13. CASE loop_timeout
  <2>1. return
    BY <1>13 DEF loop_timeout
  <2> QED BY <1>13, <2>1, Loop_back
<1> QED BY <1>1, <1>2, <1>3, <1>4, <1>5, <1>6, <1>7, <1>8, <1>9, <1>10, <1>11, <1>12, <1>13
        DEF TimeThreadNext

\* Every step of a caller and of destroy keeps the invariant.
LEMMA CallerIInv ==
  ASSUME IInv, NEW u \in Threads,
         \/ CallNext(u)
         \/ \E t \in 1..MaxTime : scheduleAbs(u, t)
         \/ \E id \in Ids : unschedule(u, id)
  PROVE  IInv'
<1>1. CASE schedule_cas(u)
  <2>1. CASE _nearest_run_time = nearest_time[u]
    BY <1>1, <2>1, Schedule_cas
  <2>2. CASE _nearest_run_time # nearest_time[u]
    BY <1>1, <2>2, Schedule_cas_fails
  <2> QED BY <2>1, <2>2
<1>2. ASSUME NEW t \in 1..MaxTime, scheduleAbs(u, t) PROVE IInv'
  <2>1. Len(tasks[u]) >= TASK_QUEUE_SIZE \/ Len(tasks[u]) < TASK_QUEUE_SIZE
    BY <1>2 DEF scheduleAbs
  <2> QED BY <1>2, <2>1, Schedule_full, Schedule_accepted
<1> QED BY <1>1, <1>2, Schedule_push, Schedule_load, Schedule_notify, Schedule_size, Unschedule
        DEF CallNext

\* A step of the destruction keeps the inductive invariant.
LEMMA DestroyIInv == ASSUME IInv, DestroyNext PROVE IInv'
<1>1. CASE destroy_run
  <2>1. CASE \E id \in _tasks \cap _active_ids :
               /\ runs' = [runs EXCEPT ![id] = @ + 1]
               /\ _active_ids' = _active_ids \ {id}
               /\ UNCHANGED destroyer
    BY <1>1, <2>1, Destroy_run
  <2>2. CASE destroyer = "join" /\ destroyer' = "done"
    BY <1>1, <2>2, Destroy_done
  <2> QED BY <1>1, <2>1, <2>2 DEF destroy_run
<1> QED BY <1>1, Destroy, Destroy_notify, Destroy_drain DEF DestroyNext

\* Every step keeps the inductive invariant.
LEMMA NextIInv == IInv /\ [Next]_vars => IInv'
<1> SUFFICES ASSUME IInv, [Next]_vars PROVE IInv'
  OBVIOUS
<1>1. CASE UNCHANGED vars
  <2>1. UNCHANGED <<now, _exit, _nearest_run_time, _timer_id, _containers, tasks, abandon_tasks, _tasks,
          _active_ids, abs_time, pc, call, nearest_time, loop, local, destroyer, used, asked, runs, caught>>
    BY <1>1 DEF vars, queues, heap, callers, history
  <2>2. Typed'
    BY <2>1 DEF IInv, Typed
  <2>3. Looping'
    BY <2>1 DEF IInv, Looping
  <2>4. ASSUME NEW u \in Threads PROVE Calling(u)' /\ Holding(u)' /\ Announced(u)'
    <3>0. Calling(u) /\ Holding(u) /\ Announced(u)
      BY DEF IInv
    <3>1. Calling(u)'
      BY <2>1, <3>0 DEF Calling, Registered
    <3>2. Holding(u)'
      BY <2>1, <3>0 DEF Holding, Registered
    <3>3. Announced(u)'
      BY <2>1, <3>0 DEF Announced, Uncollected
    <3> QED BY <3>1, <3>2, <3>3
  <2>5. ASSUME NEW id \in caught PROVE Caught(id)'
    BY <2>1, <2>5 DEF IInv, Caught, Registered
  <2> QED BY <2>1, <2>2, <2>3, <2>4, <2>5 DEF IInv
<1>2. CASE Next
  BY <1>2, Tick_, TimeThreadIInv, CallerIInv, DestroyIInv DEF Next
<1> QED BY <1>1, <1>2

\* The bookkeeping of callers, time thread and destroy in time_thread.cpp: every
\* task in a queue or in the heap is announced to whoever decides how long to sleep,
\* and every abandonment of a task in the heap is on its way to collectUnschedule.
THEOREM TasksAnnounced == Spec => []IInv
  BY InitIInv, NextIInv, PTL DEF Spec

\* The time thread never sleeps past a task that scheduleAbs has accepted, and never
\* runs a task that was unscheduled while it was in the heap, for any number of
\* callers, tasks and containers and any capacity of the queues.
THEOREM NeverSleptOver == Spec => []NotSleptOver
<1>1. IInv => NotSleptOver
  <2> SUFFICES ASSUME IInv PROVE NotSleptOver
    OBVIOUS
  <2>1. TypeOK
    BY TypedOK DEF IInv
  <2>2. ASSUME loop = "asleep", \A u \in Threads : pc[u] \in {"idle", "push", "size"}, ~_exit,
               NEW id \in Queued \cup (_tasks \cap _active_ids)
        PROVE  local.nearest <= abs_time[id]
    <3>1. local.nearest = _nearest_run_time
      BY <2>2 DEF IInv, Looping
    <3>2. CASE id \in _tasks
      BY <2>2, <3>1, <3>2 DEF IInv, Looping
    <3>3. CASE id \in Queued
      <4>1. PICK u \in Threads : id \in Range(tasks[u])
        BY <3>3 DEF Queued
      <4>2. Announced(u) /\ u \notin Uncollected /\ pc[u] \notin {"load", "cas"}
        BY <2>2 DEF IInv, Uncollected
      <4> QED BY <3>1, <4>1, <4>2 DEF Announced
    <3> QED BY <2>2, <3>2, <3>3
  <2>3. \A id \in caught : runs[id] = 0
    BY DEF IInv, Caught
  <2> QED BY <2>1, <2>2, <2>3 DEF NotSleptOver
<1> QED BY <1>1, TasksAnnounced, PTL

-----------------------------------------------------------------------------
\* The refinement of TimerService: a task is pending from the push to its run or drop.

Pending == Queued \cup _active_ids
ServiceVars == <<now, _exit, abs_time, Queued \cup _active_ids, used, asked, runs>>

\* A queued task is not active, and both are tasks that were accepted.
LEMMA PendingTasks ==
  ASSUME IInv
  PROVE  /\ Queued \cap _active_ids = {} /\ Pending \subseteq used /\ used \subseteq Ids
         /\ \A u \in Threads : Range(tasks[u]) \subseteq Queued /\ Range(abandon_tasks[u]) \subseteq asked
<1>1. \A u \in Threads : Holding(u)
  BY DEF IInv
<1>2. \A u \in Threads : Range(tasks[u]) \subseteq Queued
  BY DEF Queued
<1>3. Queued \subseteq used /\ Queued \cap _active_ids = {}
  BY <1>1 DEF Queued, Holding
<1>4. _active_ids \subseteq used /\ used \subseteq Ids
  BY DEF IInv, Looping, Typed
<1>5. \A u \in Threads : Range(abandon_tasks[u]) \subseteq asked
  BY <1>1 DEF Holding
<1> QED BY <1>2, <1>3, <1>4, <1>5 DEF Pending

\* What empties the queue of u.
LEMMA Emptied ==
  ASSUME IInv, NEW u \in Threads, tasks' = [tasks EXCEPT ![u] = <<>>]
  PROVE  Queued' \cup Range(tasks[u]) = Queued
<1>1. \A v \in Threads : v # u => tasks'[v] = tasks[v]
  BY DEF IInv, Typed
<1>2. Range(tasks'[u]) = {}
  <2>1. tasks'[u] = <<>>
    BY DEF IInv, Typed
  <2> QED BY <2>1, RangeEmpty
<1> QED BY <1>1, <1>2 DEF Queued

\* Tasks leave that somebody asked to be dropped.
LEMMA DropStep ==
  ASSUME IInv, UNCHANGED <<now, _exit, abs_time, used, asked, runs>>,
         Pending' \subseteq Pending, Pending \ Pending' \subseteq asked
  PROVE  Service!Next
<1> DEFINE S == Pending \ Pending'
<1>1. S \in SUBSET Ids
  BY PendingTasks
<1>2. Service!Drop(S)
  BY DEF Service!Drop, Pending
<1> QED BY <1>1, <1>2 DEF Service!Next

\* Pushing a task is the service's accepting it.
LEMMA PushSimulation ==
  ASSUME IInv, NEW u \in Threads, schedule_push(u)
  PROVE  Service!Next
<1>1. Calling(u) /\ Typed
  BY DEF IInv
<1>2. pc[u] = "push" /\ call[u].id \in Ids /\ call[u].at \in Times /\ call[u].id \notin used /\ ~_exit
  BY <1>1 DEF schedule_push, Calling, Typed
<1>3. Queued' = Queued \cup {call[u].id}
  <2>1. Range(tasks'[u]) = Range(tasks[u]) \cup {call[u].id}
    <3>1. tasks[u] \in Seq(Ids) /\ tasks'[u] = Append(tasks[u], call[u].id)
      BY <1>1 DEF schedule_push, Typed
    <3> QED BY SMT, <1>2, <3>1, RangeLemmas
  <2>2. \A v \in Threads : v # u => tasks'[v] = tasks[v]
    BY <1>1 DEF schedule_push, Typed
  <2> QED BY <2>1, <2>2 DEF Queued
<1>4. UNCHANGED <<now, _exit, _active_ids, asked, runs>>
  BY DEF schedule_push, heap
<1>5. /\ used' = used \cup {call[u].id}
      /\ abs_time' = [abs_time EXCEPT ![call[u].id] = call[u].at]
  BY DEF schedule_push
<1>6. Service!Accept(call[u].id, call[u].at)
  BY <1>2, <1>3, <1>4, <1>5 DEF Service!Accept
<1> QED BY <1>2, <1>6 DEF Service!Next

\* The run of a task that is active.
LEMMA RunStep ==
  ASSUME IInv, NEW id \in _active_ids, abs_time[id] <= now \/ _exit,
         UNCHANGED <<now, _exit, abs_time, tasks, used, asked>>,
         runs' = [runs EXCEPT ![id] = @ + 1], _active_ids' = _active_ids \ {id}
  PROVE  Service!Next
<1>1. id \in Ids /\ id \notin Queued
  BY PendingTasks DEF Pending
<1>2. Queued' = Queued
  BY DEF Queued
<1>3. Service!Run(id)
  BY <1>1, <1>2 DEF Service!Run, Service!Due
<1> QED BY <1>1, <1>3 DEF Service!Next

\* Calling a task is the service's firing it, or a stutter.
LEMMA FireSimulation ==
  ASSUME IInv, loop_fire
  PROVE  [Service!Next]_ServiceVars
<1>1. /\ loop = "fire" /\ _active_ids' = _active_ids \ {local.task}
      /\ runs' = IF local.task \in _active_ids THEN [runs EXCEPT ![local.task] = @ + 1] ELSE runs
      /\ UNCHANGED <<now, _exit, abs_time, tasks, used, asked>>
  BY DEF loop_fire, outside, queues
<1>2. abs_time[local.task] <= now
  BY <1>1 DEF IInv, Looping
<1>3. CASE local.task \in _active_ids
  BY <1>1, <1>2, <1>3, RunStep
<1>4. CASE local.task \notin _active_ids
  <2>1. _active_ids' = _active_ids /\ runs' = runs /\ Queued' = Queued
    BY <1>1, <1>4 DEF Queued
  <2> QED BY <1>1, <2>1 DEF ServiceVars
<1> QED BY <1>3, <1>4

\* What collectUnschedule takes off _active_ids somebody asked to drop.
LEMMA CollectUnschedule ==
  ASSUME IInv, NEW C, C \subseteq Threads, collectUnschedule(C),
         UNCHANGED <<now, _exit, abs_time, tasks, used, asked, runs>>
  PROVE  Service!Next
<1>1. /\ _active_ids' \subseteq _active_ids
      /\ \A id \in _active_ids \ _active_ids' : \E u \in C : id \in Range(abandon_tasks[u])
  BY DEF collectUnschedule
<1>2. Queued' = Queued
  BY DEF Queued
<1>3. _active_ids \ _active_ids' \subseteq asked
  BY <1>1, PendingTasks
<1>4. Pending' \subseteq Pending /\ Pending \ Pending' \subseteq asked
  BY <1>1, <1>2, <1>3 DEF Pending
<1> QED BY <1>4, DropStep

\* Collecting, abandoning and unscheduling are steps or stutters of the service.
LEMMA CollectSimulation ==
  ASSUME IInv, loop_collect \/ loop_abandon \/ loop_unschedule
  PROVE  [Service!Next]_ServiceVars
<1>0. Typed /\ Looping
  BY DEF IInv
<1>1. CASE loop_collect
  <2>1. /\ loop = "collect" /\ UNCHANGED <<now, _exit, abs_time, used, asked, runs>>
        /\ _active_ids' = _active_ids \cup Range(tasks[_containers[local.i]])
        /\ tasks' = [tasks EXCEPT ![_containers[local.i]] = <<>>]
    BY <1>1 DEF loop_collect, outside, history
  <2>2. _containers[local.i] \in Threads
    BY <1>0, <2>1, InRound
  <2>3. Queued' \cup Range(tasks[_containers[local.i]]) = Queued
    BY <2>1, <2>2, Emptied
  <2>4. (Queued \cup _active_ids)' = Queued \cup _active_ids
    BY <2>1, <2>3
  <2> QED BY <2>1, <2>4 DEF ServiceVars
<1>2. CASE loop_abandon
  <2>1. /\ loop = "abandon" /\ collectUnschedule({_containers[local.i]})
        /\ UNCHANGED <<now, _exit, abs_time, tasks, used, asked, runs>>
    BY <1>2 DEF loop_abandon, outside, history
  <2>2. _containers[local.i] \in Threads
    BY <1>0, <2>1, InRound
  <2> QED BY <2>1, <2>2, CollectUnschedule
<1>3. CASE loop_unschedule
  <2>1. /\ collectUnschedule(Range(_containers))
        /\ UNCHANGED <<now, _exit, abs_time, tasks, used, asked, runs>>
    BY <1>3 DEF loop_unschedule, outside, history
  <2>2. Range(_containers) \subseteq Threads
    BY <1>0, RangeLemmas DEF Typed
  <2> QED BY <2>1, <2>2, CollectUnschedule
<1> QED BY <1>1, <1>2, <1>3

\* A step of the destruction is a step or a stutter of the service.
LEMMA DestroySimulation ==
  ASSUME IInv, DestroyNext
  PROVE  [Service!Next]_ServiceVars
<1>1. CASE destroy
  <2>1. _exit' = TRUE /\ UNCHANGED <<now, abs_time, tasks, _active_ids, used, asked, runs>>
    BY <1>1 DEF destroy, inside, queues, heap, history
  <2>2. Queued' = Queued
    BY <2>1 DEF Queued
  <2> QED BY <2>1, <2>2 DEF Service!Next, Service!Close
<1>2. CASE destroy_notify
  <2>1. UNCHANGED <<now, _exit, abs_time, tasks, _active_ids, used, asked, runs>>
    BY <1>2 DEF destroy_notify, inside, queues, heap, history
  <2>2. Queued' = Queued
    BY <2>1 DEF Queued
  <2> QED BY <2>1, <2>2 DEF ServiceVars
<1>3. CASE destroy_drain
  <2> DEFINE u == Head(_containers)
  <2>1. /\ _containers # <<>> /\ UNCHANGED <<now, _exit, abs_time, used, asked, runs>>
        /\ _active_ids' = (_active_ids \cup Range(tasks[u])) \ Range(abandon_tasks[u])
        /\ tasks' = [tasks EXCEPT ![u] = <<>>]
    BY <1>3 DEF destroy_drain, inside, history
  <2>2. u \in Threads
    BY <2>1, RangeLemmas DEF IInv, Typed
  <2> HIDE DEF u
  <2>3. Queued' \cup Range(tasks[u]) = Queued
    BY <2>1, <2>2, Emptied
  <2>4. Range(abandon_tasks[u]) \subseteq asked
    BY <2>2, PendingTasks
  <2>5. Pending' \subseteq Pending /\ Pending \ Pending' \subseteq asked
    BY <2>1, <2>3, <2>4 DEF Pending
  <2> QED BY <2>1, <2>5, DropStep
<1>4. CASE destroy_run
  <2>1. UNCHANGED <<now, _exit, abs_time, tasks, used, asked>> /\ loop = "done"
    BY <1>4 DEF destroy_run, inside, queues
  <2>2. _exit
    BY <2>1 DEF IInv, Looping
  <2>3. CASE \E id \in _tasks \cap _active_ids :
               runs' = [runs EXCEPT ![id] = @ + 1] /\ _active_ids' = _active_ids \ {id}
    BY <2>1, <2>2, <2>3, RunStep
  <2>4. CASE UNCHANGED <<runs, _active_ids>>
    <3>1. Queued' = Queued
      BY <2>1 DEF Queued
    <3> QED BY <2>1, <2>4, <3>1 DEF ServiceVars
  <2> QED BY <1>4, <2>3, <2>4 DEF destroy_run
<1> QED BY <1>1, <1>2, <1>3, <1>4 DEF DestroyNext

\* The steps that the callers of the service do not see.
LEMMA UnseenSimulation ==
  ASSUME UNCHANGED <<now, _exit, abs_time, tasks, _active_ids, used, asked, runs>>
  PROVE  UNCHANGED ServiceVars
<1>1. Queued' = Queued
  BY DEF Queued
<1> QED BY <1>1 DEF ServiceVars

\* Every other step of a caller is a step or a stutter of the service.
LEMMA CallerSimulation ==
  ASSUME IInv, NEW u \in Threads,
         \/ CallNext(u)
         \/ \E t \in 1..MaxTime : scheduleAbs(u, t)
         \/ \E id \in Ids : unschedule(u, id)
  PROVE  [Service!Next]_ServiceVars
<1>1. CASE schedule_load(u) \/ schedule_cas(u) \/ schedule_notify(u) \/ schedule_size(u)
  <2>1. UNCHANGED <<now, _exit, abs_time, tasks, _active_ids, used, asked, runs>>
    BY <1>1 DEF schedule_load, schedule_cas, schedule_notify, schedule_size, queues, heap, history
  <2> QED BY <2>1, UnseenSimulation
<1>2. ASSUME NEW t \in 1..MaxTime, scheduleAbs(u, t) PROVE UNCHANGED ServiceVars
  <2>1. UNCHANGED <<now, _exit, abs_time, tasks, _active_ids, used, asked, runs>>
    BY <1>2 DEF scheduleAbs, heap, history
  <2> QED BY <2>1, UnseenSimulation
<1>3. ASSUME NEW id \in Ids, unschedule(u, id) PROVE Service!Next
  <2>1. /\ id \in used /\ asked' = asked \cup {id}
        /\ UNCHANGED <<now, _exit, abs_time, tasks, _active_ids, used, runs>>
    BY <1>3 DEF unschedule, heap
  <2>2. Queued' = Queued
    BY <2>1 DEF Queued
  <2>3. Service!AskToDrop(id)
    BY <2>1, <2>2 DEF Service!AskToDrop
  <2> QED BY <2>3 DEF Service!Next
<1> QED BY <1>1, <1>2, <1>3, PushSimulation DEF CallNext

\* Every step is a step or a stutter of the service.
LEMMA StepSimulation == IInv /\ [Next]_vars => [Service!Next]_ServiceVars
<1> SUFFICES ASSUME IInv, [Next]_vars PROVE [Service!Next]_ServiceVars
  OBVIOUS
<1>1. CASE Tick
  <2>1. now' = now + 1 /\ UNCHANGED <<_exit, abs_time, tasks, _active_ids, used, asked, runs>>
    BY <1>1 DEF Tick, queues, heap, history
  <2>2. Queued' = Queued
    BY <2>1 DEF Queued
  <2> QED BY <2>1, <2>2 DEF Service!Next, Service!Pass
<1>2. CASE loopOnce \/ loop_reset \/ loop_count \/ loop_run \/ loop_settle \/ loop_clock
             \/ loop_wait \/ loop_woken \/ loop_timeout
  <2>1. UNCHANGED <<now, _exit, abs_time, tasks, _active_ids, used, asked, runs>>
    BY <1>2 DEF loopOnce, loop_reset, loop_count, loop_run, loop_settle, loop_clock, loop_wait,
                loop_woken, loop_timeout, outside, queues, heap, history
  <2> QED BY <2>1, UnseenSimulation
<1>3. CASE TimeThreadNext
  BY <1>2, <1>3, CollectSimulation, FireSimulation DEF TimeThreadNext
<1>4. CASE UNCHANGED vars
  <2>1. UNCHANGED <<now, _exit, abs_time, tasks, _active_ids, used, asked, runs>>
    BY <1>4 DEF vars, queues, heap, history
  <2> QED BY <2>1, UnseenSimulation
<1> QED BY <1>1, <1>3, <1>4, CallerSimulation, DestroySimulation DEF Next

\* TimeThread implements TimerService: whatever the order of the steps of callers, time
\* thread and destroy, a task that scheduleAbs accepted leaves exactly once, by a run
\* that is not before its time or by a drop that was asked for.
THEOREM TimeThreadImplementsTimerService == Spec => ImplementsTimerService
<1>1. Init => Service!Init
  <2>1. ASSUME Init PROVE Queued \cup _active_ids = {}
    BY <2>1, RangeEmpty DEF Init, Queued
  <2> QED BY <2>1 DEF Init, Service!Init
<1> QED BY <1>1, StepSimulation, TasksAnnounced, PTL
        DEF Spec, ImplementsTimerService, Service!Spec, ServiceVars
=============================================================================
