------------------------- MODULE SocketReadSession -------------------------
(***************************************************************************)
(* The life of a request between the threads that share it.                *)
(*                                                                         *)
(* A call of Session::sync or Session::async (src/session/session.cpp)     *)
(* makes one SocketReadSession for each attempt.  Three threads hold a raw *)
(* pointer to it: the calling thread, the socket's reader thread (OnRead,  *)
(* src/tcp/socket.cpp) and the timer thread.  The answer and the timeout   *)
(* race to deliver the outcome; the reader frees the object when its       *)
(* LifeCycleLock says that nobody uses it any more.                        *)
(*                                                                         *)
(* Each instruction on the lock is a step.  A push into the socket's queue *)
(* claims a slot, fills it and publishes: the index it publishes is the    *)
(* next one and not its own (module MPSCQueue has the instructions), so    *)
(* that the reader can come to a slot that nobody has filled.  What it     *)
(* would read there is indeterminate, and the reader stops.  Adding and    *)
(* abandoning a timer task are atomic.  The protocol is one that finds the *)
(* request of an answer by its id (BOLT), and timeouts are positive.       *)
(***************************************************************************)
EXTENDS LifeCycleBits, Sequences

CONSTANTS Callers,          \* calling threads, one call each
          AsyncCallers,     \* those that call async()
          Retry,            \* attempts of a call (_retry > 0 ? _retry : 1)
          QueueCapacity     \* MAX_PARALLEL_SESSION_SIZE_ON_SOCKET

ASSUME AsyncAssumption == AsyncCallers \subseteq Callers
ASSUME RetryAssumption == Retry \in [Callers -> Nat \ {0}]
ASSUME QueueAssumption == QueueCapacity \in Nat \ {0}

Sessions == UNION {{c} \X (1..Retry[c]) : c \in Callers}
NoSession == <<>>
Notifiers == {"OnRead", "Timeout"}

VARIABLES pc, attempt, _error_code,     \* of a call
          has_callback,     \* the caller's std::function still has a target
          mem,              \* of a session: "unborn", "live" or "freed"
          owners,           \* of a session: the word of its LifeCycleLock
          callback,         \* of a session: callback is not empty
          result,           \* of a session: the promise
          timer,            \* of a session: its task in the timer thread
          _session_info,    \* the socket's queue: the claimed slots, the first to read first
          published,        \* slots that pop() may read (_write_idx - _read_idx)
          _session_map,     \* the sessions of the reader's map
          at, cur,          \* of a notifying thread: where it is, on what
          older,            \* sessions begun before the answer in hand
          todo,             \* sessions the reader has still to look at
          wire,             \* requests the server may answer
          socket,           \* "open", "closing" (in ~Socket) or "closed"
          delivered,        \* outcomes delivered for a session (history)
          invoked,          \* invocations of a caller's callback (history)
          expired,          \* sessions whose timer task has run (history)
          unsent,           \* sessions given up after TIMER_BUSY or WRITE_FAIL (history)
          dangling,         \* uses of a freed session (history)
          overlap           \* two pushes were once past their claim together (history)

call == <<pc, attempt, _error_code, has_callback>>
heap == <<mem, owners, callback, result>>
commit == <<published, overlap>>
reader == <<_session_map, older, todo, wire, socket, commit>>
thread == <<at, cur>>
history == <<delivered, invoked, expired, unsent, dangling>>
vars == <<call, heap, timer, _session_info, reader, thread, history>>

\* NOT_SENT stands for the three errors that precede the session.
Errors == {"SESSION_OK", "NOT_SENT", "SOCKET_BUSY", "TIMER_BUSY", "WRITE_FAIL",
           "READ_TIMEOUT", "PARSE_RESPONSE_FAIL"}

\* The session of the attempt that c is making.
Mine(c) == <<c, attempt[c]>>

Step(c, from, to) == pc[c] = from /\ pc' = [pc EXCEPT ![c] = to]

\* The thread "who" uses the memory of session r.
Use(who, r) == dangling' = IF mem[r] = "freed" THEN dangling \cup {<<who, r>>} ELSE dangling

SetOwners(r, word) == owners' = [owners EXCEPT ![r] = word]

Init ==
  /\ pc = [c \in Callers |-> "begin"]
  /\ attempt = [c \in Callers |-> 1]
  /\ _error_code = [c \in Callers |-> "SESSION_OK"]
  /\ has_callback = [c \in Callers |-> c \in AsyncCallers]
  /\ mem = [r \in Sessions |-> "unborn"]
  /\ owners = [r \in Sessions |-> NoBits]
  /\ callback = [r \in Sessions |-> FALSE]
  /\ result = [r \in Sessions |-> "unset"]
  /\ timer = [r \in Sessions |-> "none"]
  /\ _session_info = << >> /\ published = 0 /\ overlap = FALSE
  /\ _session_map = {}
  /\ at = [t \in Notifiers |-> "idle"] /\ cur = [t \in Notifiers |-> NoSession]
  /\ older = {} /\ todo = {} /\ wire = {} /\ socket = "open"
  /\ delivered = [r \in Sessions |-> 0]
  /\ invoked = [c \in Callers |-> 0]
  /\ expired = {} /\ unsent = {} /\ dangling = {}
-----------------------------------------------------------------------------
\* The calling thread: Session::sendInternal.

\* PROTOCOL_NOT_FOUND, SOCKET_LOST or ASSEMBLE_REQUEST_FAIL: nothing was made yet.
sendInternal_early(c) ==
  /\ Step(c, "begin", "attempted")
  /\ _error_code' = [_error_code EXCEPT ![c] = "NOT_SENT"]
  /\ UNCHANGED <<attempt, has_callback, heap, timer, _session_info, reader, thread, history>>

\* new SocketReadSession: the callback is moved out of the caller's hands, and
\* a share is taken for the timer thread.
sendInternal_new(c) ==
  /\ Step(c, "begin", "prepareRead")
  /\ mem' = [mem EXCEPT ![Mine(c)] = "live"]
  /\ callback' = [callback EXCEPT ![Mine(c)] = has_callback[c]]
  /\ has_callback' = [has_callback EXCEPT ![c] = FALSE]
  /\ SetOwners(Mine(c), AddShared(NoBits))
  /\ UNCHANGED <<attempt, _error_code, result, timer, _session_info, reader, thread, history>>

\* Callers that own a slot of the queue and have not returned from push().
Pushing == {c \in Callers : pc[c] \in {"fill", "publish"}}

\* prepareRead: claim a slot of the socket's queue for the session, or free the
\* session when the queue is full.
sendInternal_prepareRead(c) ==
  /\ \/ /\ Len(_session_info) < QueueCapacity
        /\ _session_info' = Append(_session_info, Mine(c))
        /\ overlap' = (overlap \/ Pushing # {})
        /\ Step(c, "prepareRead", "fill")
        /\ UNCHANGED <<mem, _error_code>>
     \/ /\ Len(_session_info) = QueueCapacity
        /\ mem' = [mem EXCEPT ![Mine(c)] = "freed"]
        /\ _error_code' = [_error_code EXCEPT ![c] = "SOCKET_BUSY"]
        /\ Step(c, "prepareRead", "attempted")
        /\ UNCHANGED <<_session_info, overlap>>
  /\ UNCHANGED <<attempt, has_callback, owners, callback, result, timer, _session_map, older, todo,
                 wire, socket, published, thread, history>>

\* prepareRead: the session is in its slot from now on.
sendInternal_fill(c) ==
  /\ Step(c, "fill", "publish")
  /\ UNCHANGED <<attempt, _error_code, has_callback, heap, timer, _session_info, reader, thread,
                 history>>

\* prepareRead: _write_idx moves by one, from wherever it is.
sendInternal_publish(c) ==
  /\ Step(c, "publish", "addTimeschdule")
  /\ published' = published + 1
  /\ UNCHANGED <<attempt, _error_code, has_callback, heap, timer, _session_info, _session_map,
                 older, todo, wire, socket, overlap, thread, history>>

\* addTimeschdule: the task may run from now on.  It fails when the queue of
\* the timer thread is full.
sendInternal_addTimeschdule(c) ==
  /\ \/ /\ timer' = [timer EXCEPT ![Mine(c)] = "pending"]
        /\ Step(c, "addTimeschdule", "timer_task_id")
        /\ UNCHANGED _error_code
     \/ /\ _error_code' = [_error_code EXCEPT ![c] = "TIMER_BUSY"]
        /\ Step(c, "addTimeschdule", "giveUp")
        /\ UNCHANGED timer
  /\ UNCHANGED <<attempt, has_callback, heap, _session_info, reader, thread, history>>

\* session_info->timer_task_id is stored after the task has been added.
sendInternal_timer_task_id(c) ==
  /\ Step(c, "timer_task_id", "write")
  /\ Use(c, Mine(c))
  /\ UNCHANGED <<attempt, _error_code, has_callback, heap, timer, _session_info, reader, thread,
                 delivered, invoked, expired, unsent>>

\* Socket::write succeeds: the server has the request.
sendInternal_write(c) ==
  /\ Step(c, "write", "written")
  /\ wire' = wire \cup {Mine(c)}
  /\ UNCHANGED <<attempt, _error_code, has_callback, heap, timer, _session_info, _session_map,
                 older, todo, socket, commit, thread, history>>

\* Socket::write fails: removeTimeschdule abandons the task if it is not running.
sendInternal_write_fail(c) ==
  /\ Step(c, "write", "giveUp")
  /\ _error_code' = [_error_code EXCEPT ![c] = "WRITE_FAIL"]
  /\ timer' = [timer EXCEPT ![Mine(c)] = IF @ = "pending" THEN "abandoned" ELSE @]
  /\ Use(c, Mine(c))
  /\ UNCHANGED <<attempt, has_callback, heap, _session_info, reader, thread,
                 delivered, invoked, expired, unsent>>

\* TIMER_BUSY or WRITE_FAIL: give the timer's share back.
sendInternal_giveUp(c) ==
  /\ Step(c, "giveUp", "attempted")
  /\ SetOwners(Mine(c), SubShared(owners[Mine(c)]))
  /\ unsent' = unsent \cup {Mine(c)}
  /\ Use(c, Mine(c))
  /\ UNCHANGED <<attempt, _error_code, has_callback, mem, callback, result, timer, _session_info,
                 reader, thread, delivered, invoked, expired>>

\* if (!session_info->callback): an asynchronous call is over, another waits.
sendInternal_written(c) ==
  /\ Step(c, "written", IF callback[Mine(c)] THEN "attempted" ELSE "wait")
  /\ Use(c, Mine(c))
  /\ UNCHANGED <<attempt, _error_code, has_callback, heap, timer, _session_info, reader, thread,
                 delivered, invoked, expired, unsent>>

\* result.get_future().get() and postProcess, where parsing may fail.
sendInternal_wait(c) ==
  /\ result[Mine(c)] # "unset"
  /\ Step(c, "wait", "releaseShared")
  /\ \E e \in {result[Mine(c)]} \cup
              (IF result[Mine(c)] = "SESSION_OK" THEN {"PARSE_RESPONSE_FAIL"} ELSE {}) :
       _error_code' = [_error_code EXCEPT ![c] = e]
  /\ Use(c, Mine(c))
  /\ UNCHANGED <<attempt, has_callback, heap, timer, _session_info, reader, thread,
                 delivered, invoked, expired, unsent>>

\* Release the share that notify left for the waiting thread.
sendInternal_releaseShared(c) ==
  /\ Step(c, "releaseShared", "attempted")
  /\ SetOwners(Mine(c), SubShared(owners[Mine(c)]))
  /\ Use(c, Mine(c))
  /\ UNCHANGED <<attempt, _error_code, has_callback, mem, callback, result, timer, _session_info,
                 reader, thread, delivered, invoked, expired, unsent>>

\* sendInternalWithRetry: again, after anything but success and a timeout.
sendInternalWithRetry(c) ==
  /\ \/ /\ \/ _error_code[c] \in {"SESSION_OK", "READ_TIMEOUT"}
           \/ attempt[c] = Retry[c]
        /\ Step(c, "attempted", "return")
        /\ UNCHANGED <<attempt, _error_code>>
     \/ /\ _error_code[c] \notin {"SESSION_OK", "READ_TIMEOUT"}
        /\ attempt[c] < Retry[c]
        /\ Step(c, "attempted", "begin")
        /\ attempt' = [attempt EXCEPT ![c] = @ + 1]
        /\ _error_code' = [_error_code EXCEPT ![c] = "SESSION_OK"]
  /\ UNCHANGED <<has_callback, heap, timer, _session_info, reader, thread, history>>

\* sync() returns; async() first reports an error to its callback, and calling
\* the std::function throws when it was moved into a session.
async_return(c) ==
  LET report == c \in AsyncCallers /\ _error_code[c] # "SESSION_OK"
  IN  /\ Step(c, "return", IF report /\ ~has_callback[c] THEN "threw" ELSE "done")
      /\ invoked' = [invoked EXCEPT ![c] = IF report /\ has_callback[c] THEN @ + 1 ELSE @]
      /\ UNCHANGED <<attempt, _error_code, has_callback, heap, timer, _session_info, reader,
                     thread, delivered, expired, unsent, dangling>>
-----------------------------------------------------------------------------
\* SocketReadSession::notify, run by thread t on session cur[t].

Move(t, from, to) == at[t] = from /\ at' = [at EXCEPT ![t] = to]

\* Where a thread goes on after notify.
AfterNotify(t) == IF t = "OnRead" THEN "message" ELSE "releaseTimer"

\* owners.tryShared(), first instruction.
notify_tryShared(t) ==
  /\ at[t] = "notify"
  /\ LET word == owners[cur[t]]
     IN  /\ Move(t, "notify", IF UpgradedOrExclusive(word) THEN "undo" ELSE "upgrade")
         /\ SetOwners(cur[t], AddShared(word))
  /\ Use(t, cur[t])
  /\ UNCHANGED <<call, mem, callback, result, timer, _session_info, reader, cur,
                 delivered, invoked, expired, unsent>>

\* owners.tryShared(), second instruction, and return false.
notify_undo(t) ==
  /\ Move(t, "undo", AfterNotify(t))
  /\ SetOwners(cur[t], SubShared(owners[cur[t]]))
  /\ Use(t, cur[t])
  /\ UNCHANGED <<call, mem, callback, result, timer, _session_info, reader, cur,
                 delivered, invoked, expired, unsent>>

\* Variant: the re-entrant tryUpgrade.
notify_upgrade_reentrant(t) ==
  /\ at[t] = "upgrade"
  /\ LET word == owners[cur[t]]
     IN  /\ Move(t, "upgrade", IF IsExclusive(word) THEN "release" ELSE "deliver")
         /\ SetOwners(cur[t], OrUpgraded(word))
  /\ Use(t, cur[t])
  /\ UNCHANGED <<call, mem, callback, result, timer, _session_info, reader, cur,
                 delivered, invoked, expired, unsent>>

\* owners.tryUpgradeNonReEntrant(): one of the two threads wins.
notify_upgrade(t) ==
  /\ at[t] = "upgrade"
  /\ LET word == owners[cur[t]]
     IN  /\ Move(t, "upgrade", IF UpgradedOrExclusive(word) THEN "release" ELSE "deliver")
         /\ SetOwners(cur[t], OrUpgraded(word))
  /\ Use(t, cur[t])
  /\ UNCHANGED <<call, mem, callback, result, timer, _session_info, reader, cur,
                 delivered, invoked, expired, unsent>>

\* The winner runs the callback, or sets the promise and leaves its share to
\* the waiting thread.
notify_deliver(t) ==
  LET r == cur[t]
  IN  /\ at[t] = "deliver"
      /\ delivered' = [delivered EXCEPT ![r] = @ + 1]
      /\ \/ /\ callback[r]
            /\ invoked' = [invoked EXCEPT ![r[1]] = @ + 1]
            /\ Move(t, "deliver", "release")
            /\ UNCHANGED result
         \/ /\ ~callback[r]
            /\ result' = [result EXCEPT ![r] =
                            IF t = "OnRead" THEN "SESSION_OK" ELSE "READ_TIMEOUT"]
            /\ Move(t, "deliver", AfterNotify(t))
            /\ UNCHANGED invoked
      /\ Use(t, r)
      /\ UNCHANGED <<call, mem, owners, callback, timer, _session_info, reader, cur, expired, unsent>>

notify_release(t) ==
  /\ Move(t, "release", AfterNotify(t))
  /\ SetOwners(cur[t], SubShared(owners[cur[t]]))
  /\ Use(t, cur[t])
  /\ UNCHANGED <<call, mem, callback, result, timer, _session_info, reader, cur,
                 delivered, invoked, expired, unsent>>

notify(t) ==
  \/ notify_tryShared(t) \/ notify_undo(t) \/ notify_upgrade(t)
  \/ notify_deliver(t) \/ notify_release(t)
-----------------------------------------------------------------------------
\* The timer thread.

\* The task of session r runs.  A task abandoned a moment ago still may.
timeout_run(r) ==
  /\ timer[r] \in {"pending", "abandoned"}
  /\ Move("Timeout", "idle", "notify")
  /\ cur' = [cur EXCEPT !["Timeout"] = r]
  /\ timer' = [timer EXCEPT ![r] = "running"]
  /\ UNCHANGED <<call, heap, _session_info, reader, history>>

\* Variant: the wrong task is thrown away.
timeout_drop_any(r) ==
  /\ timer[r] \in {"pending", "abandoned"} /\ at["Timeout"] = "idle"
  /\ timer' = [timer EXCEPT ![r] = "over"]
  /\ UNCHANGED <<call, heap, _session_info, reader, thread, history>>

\* An abandoned task is thrown away.
timeout_drop(r) ==
  /\ timer[r] = "abandoned" /\ at["Timeout"] = "idle"
  /\ timer' = [timer EXCEPT ![r] = "over"]
  /\ UNCHANGED <<call, heap, _session_info, reader, thread, history>>

\* The task ends with the release of the timer's share.
timeout_releaseShared ==
  LET r == cur["Timeout"]
  IN  /\ Move("Timeout", "releaseTimer", "idle")
      /\ SetOwners(r, SubShared(owners[r]))
      /\ timer' = [timer EXCEPT ![r] = "over"]
      /\ expired' = expired \cup {r}
      /\ cur' = [cur EXCEPT !["Timeout"] = NoSession]
      /\ Use("Timeout", r)
      /\ UNCHANGED <<call, mem, callback, result, _session_info, reader, delivered, invoked, unsent>>
-----------------------------------------------------------------------------
\* The reader thread: Socket::onRead, cutIntoMessage and tryReclaimSessionMap.

\* cutIntoMessage with the whole answer to r in the buffer.  What was begun by
\* now has an earlier request_time than on_read_begin_time.
onRead_message(r) ==
  /\ socket = "open" /\ r \in wire
  /\ at["OnRead"] \in {"idle", "message"}
  /\ at' = [at EXCEPT !["OnRead"] = "pop"]
  /\ cur' = [cur EXCEPT !["OnRead"] = r]
  /\ wire' = wire \ {r}
  /\ older' = {s \in Sessions : mem[s] # "unborn"}
  /\ UNCHANGED <<call, heap, timer, _session_info, _session_map, todo, socket, commit,
                 history>>

\* The session is in the slot that was claimed for it.
Filled(r) == ~(pc[r[1]] = "fill" /\ attempt[r[1]] = r[2])

\* Variant: leave the loop before the later session is in the map.
onRead_pop_drop ==
  /\ at["OnRead"] = "pop"
  /\ \/ /\ published > 0 /\ Filled(Head(_session_info))
        /\ _session_map' = _session_map \cup ({Head(_session_info)} \cap older)
        /\ _session_info' = Tail(_session_info) /\ published' = published - 1
        /\ at' = [at EXCEPT !["OnRead"] = IF Head(_session_info) \in older THEN "pop" ELSE "find"]
     \/ /\ published = 0
        /\ at' = [at EXCEPT !["OnRead"] = "find"]
        /\ UNCHANGED <<_session_map, _session_info, published>>
  /\ UNCHANGED <<call, heap, timer, older, todo, wire, socket, overlap, cur, history>>

\* Move the queue into the map, up to the first session that was begun later.
onRead_pop ==
  /\ at["OnRead"] = "pop"
  /\ \/ /\ published > 0 /\ Filled(Head(_session_info))
        /\ _session_map' = _session_map \cup {Head(_session_info)}
        /\ _session_info' = Tail(_session_info) /\ published' = published - 1
        /\ at' = [at EXCEPT !["OnRead"] = IF Head(_session_info) \in older THEN "pop" ELSE "find"]
     \/ /\ published = 0
        /\ at' = [at EXCEPT !["OnRead"] = "find"]
        /\ UNCHANGED <<_session_map, _session_info, published>>
  /\ UNCHANGED <<call, heap, timer, older, todo, wire, socket, overlap, cur, history>>

\* The slot was published and not filled: session->request_id is read through a
\* pointer that is left from an earlier session or was never set.
onRead_pop_unfilled ==
  /\ published > 0 /\ ~Filled(Head(_session_info))
  /\ Move("OnRead", "pop", "undefined")
  /\ UNCHANGED <<call, heap, timer, _session_info, reader, cur, history>>

\* Find the session by its id and hand it the data, or drop the answer.
onRead_find ==
  LET found == cur["OnRead"] \in _session_map
  IN  /\ Move("OnRead", "find", IF found THEN "notify" ELSE "message")
      /\ older' = {}
      /\ IF found THEN Use("OnRead", cur["OnRead"]) ELSE UNCHANGED dangling
      /\ UNCHANGED <<call, heap, timer, _session_info, _session_map, todo, wire, socket, commit,
                     cur, delivered, invoked, expired, unsent>>

\* No (more) complete answer in the buffer: reclaim.  The event may have been
\* raised by part of an answer or by the server closing the connection.
onRead_reclaim ==
  /\ socket = "open" /\ at["OnRead"] \in {"idle", "message"}
  /\ at' = [at EXCEPT !["OnRead"] = "reclaim"]
  /\ cur' = [cur EXCEPT !["OnRead"] = NoSession]
  /\ todo' = _session_map
  /\ UNCHANGED <<call, heap, timer, _session_info, _session_map, older, wire, socket, commit,
                 history>>

\* Variant: sessions are freed as soon as they are notified.
tryReclaim_shared(r) ==
  /\ todo' = todo \ {r}
  /\ \/ /\ owners[r].upgraded = 1
        /\ SetOwners(r, OnlyExclusive)
        /\ mem' = [mem EXCEPT ![r] = "freed"]
        /\ _session_map' = _session_map \ {r}
     \/ /\ owners[r].upgraded # 1
        /\ UNCHANGED <<owners, mem, _session_map>>

\* One round of the loop of tryReclaimSessionMap.
tryReclaim(r) ==
  /\ todo' = todo \ {r}
  /\ \/ /\ OnlyUpgraded(owners[r])
        /\ SetOwners(r, OnlyExclusive)
        /\ mem' = [mem EXCEPT ![r] = "freed"]
        /\ _session_map' = _session_map \ {r}
     \/ /\ ~OnlyUpgraded(owners[r])
        /\ UNCHANGED <<owners, mem, _session_map>>

tryReclaimSessionMap(r) ==
  /\ at["OnRead"] = "reclaim" /\ r \in todo
  /\ tryReclaim(r)
  /\ UNCHANGED <<call, callback, result, timer, _session_info, older, wire, socket, commit,
                 thread, history>>

onRead_return ==
  /\ todo = {}
  /\ Move("OnRead", "reclaim", "idle")
  /\ UNCHANGED <<call, heap, timer, _session_info, reader, cur, history>>

\* ~Socket, run by whoever drops the last reference: every call has returned
\* and the reader has been detached.
destruct ==
  /\ socket = "open" /\ at["OnRead"] = "idle"
  /\ \A c \in Callers : pc[c] \in {"done", "threw"}
  /\ socket' = "closing" /\ wire' = {}
  /\ _session_map' = _session_map \cup {_session_info[i] : i \in DOMAIN _session_info}
  /\ _session_info' = << >> /\ published' = 0
  /\ todo' = _session_map'
  /\ UNCHANGED <<call, heap, timer, older, overlap, thread, history>>

\* while (!_session_map.empty()) tryReclaimSessionMap()
destruct_reclaim(r) ==
  /\ socket = "closing" /\ r \in todo
  /\ tryReclaim(r)
  /\ UNCHANGED <<call, callback, result, timer, _session_info, older, wire, socket, commit,
                 thread, history>>

destruct_again ==
  /\ socket = "closing" /\ todo = {}
  /\ todo' = _session_map
  /\ socket' = IF _session_map = {} THEN "closed" ELSE "closing"
  /\ UNCHANGED <<call, heap, timer, _session_info, _session_map, older, wire, commit, thread,
                 history>>
-----------------------------------------------------------------------------
sendInternal(c) ==
  \/ sendInternal_early(c) \/ sendInternal_new(c) \/ sendInternal_prepareRead(c)
  \/ sendInternal_fill(c) \/ sendInternal_publish(c) \/ sendInternal_addTimeschdule(c) 
  \/ sendInternal_timer_task_id(c)
  \/ sendInternal_write(c) \/ sendInternal_write_fail(c) \/ sendInternal_giveUp(c)
  \/ sendInternal_written(c) \/ sendInternal_wait(c) \/ sendInternal_releaseShared(c)

caller(c) == sendInternal(c) \/ sendInternalWithRetry(c) \/ async_return(c)

timeout ==
  \/ notify("Timeout") \/ timeout_releaseShared
  \/ \E r \in Sessions : timeout_run(r) \/ timeout_drop(r)

onRead_continue ==
  \/ notify("OnRead") \/ onRead_pop \/ onRead_pop_unfilled
  \/ onRead_find \/ onRead_return
  \/ \E r \in Sessions : tryReclaimSessionMap(r)

destruct_loop == destruct_again \/ \E r \in Sessions : destruct_reclaim(r)

Next ==
  \/ \E c \in Callers : caller(c)
  \/ timeout
  \/ \E r \in Sessions : onRead_message(r)
  \/ onRead_reclaim \/ onRead_continue
  \/ destruct \/ destruct_loop

Spec == Init /\ [][Next]_vars

\* Threads go on with what they have begun, and a timer task comes up for its
\* turn because timeouts are finite.  The server owes no answer and the socket
\* no further event.  In the end the socket is given up: the manager detaches
\* the reader first, so events cannot put ~Socket off for ever (SF).
Fairness ==
  /\ \A c \in Callers : WF_vars(caller(c))
  /\ WF_vars(timeout)
  /\ WF_vars(onRead_continue \/ (at["OnRead"] = "message" /\ onRead_reclaim))
  /\ SF_vars(destruct)
  /\ WF_vars(destruct_loop)

FairSpec == Spec /\ Fairness
-----------------------------------------------------------------------------
\* Where a call and a notifying thread can be.
CallAt == {"begin", "prepareRead", "fill", "publish", "addTimeschdule", "timer_task_id", "write",
           "giveUp", "written", "wait", "releaseShared", "attempted", "return", "done", "threw"}
ThreadAt == {"idle", "notify", "undo", "upgrade", "deliver", "release", "releaseTimer", "message",
             "pop", "undefined", "find", "reclaim"}

TypeOK ==
  /\ pc \in [Callers -> CallAt]
  /\ attempt \in [Callers -> Nat] /\ \A c \in Callers : attempt[c] \in 1..Retry[c]
  /\ _error_code \in [Callers -> Errors]
  /\ has_callback \in [Callers -> BOOLEAN]
  /\ mem \in [Sessions -> {"unborn", "live", "freed"}]
  /\ owners \in [Sessions -> Bits]
  /\ callback \in [Sessions -> BOOLEAN]
  /\ result \in [Sessions -> {"unset", "SESSION_OK", "READ_TIMEOUT"}]
  /\ timer \in [Sessions -> {"none", "pending", "abandoned", "running", "over"}]
  /\ _session_info \in Seq(Sessions) /\ Len(_session_info) <= QueueCapacity
  /\ published \in Nat /\ overlap \in BOOLEAN
  /\ _session_map \subseteq Sessions
  /\ at \in [Notifiers -> ThreadAt]
  /\ cur \in [Notifiers -> Sessions \cup {NoSession}]
  /\ older \subseteq Sessions /\ todo \subseteq Sessions /\ wire \subseteq Sessions
  /\ socket \in {"open", "closing", "closed"}
  /\ delivered \in [Sessions -> Nat] /\ invoked \in [Callers -> Nat]
  /\ expired \subseteq Sessions /\ unsent \subseteq Sessions
  /\ dangling \subseteq (Callers \cup Notifiers) \X Sessions

\* Answer and timeout race, and one of them delivers: no promise is set twice,
\* and a user's callback is invoked at most once for a call, whatever fails, is
\* retried or times out in between.  What the reader or ~Socket frees has had
\* its outcome delivered and its timer task has finished, unless an asynchronous
\* caller gave the session up.
DeliveredOnce ==
  /\ TypeOK
  /\ \A r \in Sessions : delivered[r] <= 1
  /\ \A c \in Callers : invoked[c] <= 1
  /\ \A r \in Sessions :
       mem[r] = "freed" /\ timer[r] # "none" /\ ~(callback[r] /\ r \in unsent) =>
         /\ delivered[r] = 1
         /\ timer[r] = "over"
         /\ ~callback[r] /\ attempt[r[1]] = r[2] =>
              pc[r[1]] \in {"attempted", "return", "done", "threw"}

\* The share that notify adds for a waiting thread does its work: nobody ever
\* uses the session of a synchronous call after it was freed.  In an asynchronous
\* call the caller does only if its own timeout passed before the call returned,
\* and the timer thread only if the caller gave the session up under its hands.
\* The reader never does, as far as the slots it reads have been filled.
DanglesOnlyLate ==
  \A use \in dangling :
    /\ callback[use[2]]
    /\ \/ use[1] \in Callers /\ use[2] \in expired
       \/ use[1] \in Callers \cup {"Timeout"} /\ use[2] \in unsent

\* An answer finds its session: the reader has moved it from the queue to the map
\* before it looks, unless the session is gone altogether.  Two pushes at a time
\* undo this (push(), lockfree_queue.h): the one that claimed the later slot can
\* publish the earlier one, and its own request can be answered before its slot
\* is published.
AnswerFindsSession ==
  at["OnRead"] = "find" =>
    \/ cur["OnRead"] \in _session_map
    \/ mem[cur["OnRead"]] = "freed"
    \/ overlap

\* The session of a request that was sent is freed in the end.
WrittenFreed ==
  \A r \in Sessions : (pc[r[1]] = "written" /\ attempt[r[1]] = r[2]) ~> mem[r] = "freed"
=============================================================================
