--------------------------- MODULE SocketManager ---------------------------
(***************************************************************************)
(* How a connection comes into being and is taken down again, across the   *)
(* threads that have their hands on it: the thread that connects it for a  *)
(* channel (Socket::connect, src/tcp/socket.cpp), the loop threads of the  *)
(* schedule (src/schedule), and the thread of the socket manager, which    *)
(* takes surrendered sockets out of service (src/tcp/socket_manager.cpp).  *)
(*                                                                         *)
(* A loop thread calls handlers through plain pointers to std::function    *)
(* members of the sockets.  Before the manager clears such a member it     *)
(* asks a loop thread for an acknowledgement: it registers a descriptor of *)
(* its own, always writable, and waits half a second for the handler.      *)
(*                                                                         *)
(* globalInit starts the loop threads one by one, any of which may fail.   *)
(*                                                                         *)
(* A socket stands for its descriptor.  Edge-triggered epoll: an event is  *)
(* reported once, and removing a descriptor also withdraws an event that   *)
(* epoll_wait has not yet reported, but not one that it has.               *)
(***************************************************************************)
EXTENDS LifeCycleBits, FiniteSets

CONSTANTS Sockets,      \* descriptors of the connections, each used once
          LoopSize,     \* scheduleThreadSize()
          ReclaimFds,   \* descriptors that the manager's pipe may get
          MaxLate       \* bound: rounds that a loop thread is too slow to acknowledge

ASSUME SocketsAssumption == Sockets \subseteq Nat /\ IsFiniteSet(Sockets)
ASSUME LoopSizeAssumption == LoopSize \in Nat \ {0}
ASSUME ReclaimFdsAssumption == ReclaimFds \subseteq Nat \ Sockets
ASSUME MaxLateAssumption == MaxLate \in Nat

Loops == 0..(LoopSize - 1)

\* What a loop thread can be told to call.
OnConnection(s) == <<"connection", s>>
OnRead(s) == <<"read", s>>
OnReclaim(i) == <<"reclaim", i>>
Handlers == {OnConnection(s) : s \in Sockets} \cup {OnRead(s) : s \in Sockets}
              \cup {OnReclaim(i) : i \in Loops}
Nothing == <<>>

\* _on_reclaim[i] once it has set its flag, on_connection once it has set wakeup
Flagged(i) == <<"flagged", i>>
Woke(s) == <<"woke", s>>

VARIABLES conn,             \* of a socket: what its owner, a channel, is doing
          sharers,          \* of a socket: the word of _sharers
          on_connection,    \* sockets whose on_connection is not empty
          on_read,          \* sockets whose _on_read is not empty
          woken,            \* sockets whose wakeup promise is set
          registered,       \* of a loop: handlers known to its epoll
          ready,            \* of a loop: handlers with an event to report
          batch,            \* of a loop: events reported and not yet handled
          running,          \* of a loop: the handler it is in
          read_flag,        \* of a loop: the word on_reclaim has read
          _list, _reclaim_list,
          _reclaim_counter, \* modulo LoopSize
          _reclaim_notify_flag,
          mpc, scan, cur_idx, old_flag,    \* of watchConnections
          gpc, joined,      \* of globalInit and globalDestroy; loop threads that do not run
          _reclaim_fd,      \* _reclaim_fd[1]
          late              \* rounds without acknowledgement

socket == <<conn, sharers, on_connection, on_read, woken>>
epoll == <<registered, ready>>
loop == <<batch, running, read_flag>>
manager == <<mpc, scan, cur_idx, old_flag, _reclaim_counter>>
lists == <<_list, _reclaim_list>>
stop == <<gpc, joined>>
rounds == <<late, _reclaim_fd>>
vars == <<socket, epoll, loop, manager, lists, _reclaim_notify_flag, stop, rounds>>

NoFlags == [i \in Loops |-> FALSE]

\* _threads is empty: destroy_schedule has joined the loop threads.
Stopped == joined = Loops

Init ==
  /\ conn = [s \in Sockets |-> "new"]
  /\ sharers = [s \in Sockets |-> NoBits]
  /\ on_connection = {} /\ on_read = {} /\ woken = {}
  /\ registered = [l \in Loops |-> {}] /\ ready = [l \in Loops |-> {}]
  /\ batch = [l \in Loops |-> {}] /\ running = [l \in Loops |-> Nothing]
  /\ read_flag = [l \in Loops |-> NoFlags]
  /\ _list = {} /\ _reclaim_list = {}
  /\ _reclaim_counter = 0 /\ _reclaim_notify_flag = NoFlags
  /\ mpc = "sleep" /\ scan = {} /\ cur_idx = 0 /\ old_flag = NoFlags
  /\ gpc = "start" /\ joined = Loops /\ late = 0 /\ _reclaim_fd = 0
-----------------------------------------------------------------------------
\* globalInit: Schedule::init, then SocketManager::init.

\* epoll_create or fcntl may fail.
Loop_init == BOOLEAN

\* How start() of a loop thread may end: it has no pipe, or its Loop cannot be
\* set up, or it runs.
start == {"no pipe"} \cup {IF ok THEN "runs" ELSE "no Loop" : ok \in Loop_init}

\* Variant: the threads that were started are left running.
Schedule_init_partial(l) ==
  /\ gpc = "start" /\ l = LoopSize - Cardinality(joined)
  /\ \E how \in start :
       \/ /\ how = "runs"
          /\ joined' = joined \ {l}
          /\ gpc' = IF joined' = {} THEN "manager" ELSE "start"
       \/ how # "runs" /\ gpc' = "manager" /\ UNCHANGED joined
  /\ UNCHANGED <<socket, epoll, loop, manager, lists, _reclaim_notify_flag, rounds>>

\* start() of the next loop thread.  If it fails, destroy_schedule stops all of
\* _threads, which crashes at one that has no Loop: one never reached, or one
\* without a pipe.  When only the Loop of the last thread could not be set up,
\* _threads is cleared; the time thread's result then stands for the whole
\* (it starts at any rate), and globalInit goes on.
Schedule_init(l) ==
  /\ gpc = "start" /\ l = LoopSize - Cardinality(joined)
  /\ \E how \in start :
       \/ /\ how = "runs"
          /\ joined' = joined \ {l}
          /\ gpc' = IF joined' = {} THEN "manager" ELSE "start"
       \/ /\ how = "no Loop" /\ l = LoopSize - 1
          /\ joined' = Loops /\ gpc' = "manager"
       \/ /\ how = "no pipe" \/ l < LoopSize - 1
          /\ how # "runs"
          /\ gpc' = "crashed" /\ UNCHANGED joined
  /\ UNCHANGED <<socket, epoll, loop, manager, lists, _reclaim_notify_flag, rounds>>

\* Without a pipe globalInit returns false.
SocketManager_init ==
  /\ gpc = "manager"
  /\ \/ gpc' = "running" /\ _reclaim_fd' \in ReclaimFds
     \/ gpc' = "refused" /\ UNCHANGED _reclaim_fd
  /\ UNCHANGED <<socket, epoll, loop, manager, lists, _reclaim_notify_flag, joined, late>>

globalInit == (\E l \in Loops : Schedule_init(l)) \/ SocketManager_init
-----------------------------------------------------------------------------
\* Schedule and Loop.

\* Variant: the index is not looked at.
ScheduleThread_fd(fd, idx) == fd % LoopSize

\* The loop thread that addSchedule and removeSchedule choose.
ScheduleThread(fd, idx) == IF idx > 0 THEN idx % LoopSize ELSE fd % LoopSize

\* EPOLL_CTL_ADD of a handler on loop l; "now" if the descriptor is ready.
addSchedule(l, h, now) ==
  /\ registered' = [registered EXCEPT ![l] = @ \cup {h}]
  /\ ready' = IF now THEN [ready EXCEPT ![l] = @ \cup {h}] ELSE ready

\* EPOLL_CTL_DEL of a handler on loop l
removeSchedule(l, h) ==
  /\ registered' = [registered EXCEPT ![l] = @ \ {h}]
  /\ ready' = [ready EXCEPT ![l] = @ \ {h}]

\* The other side accepts the connection, sends data or closes it.
arrive(l, h) ==
  /\ h \in registered[l] /\ h[1] # "reclaim" /\ h \notin ready[l]
  /\ h[1] = "connection" => h \notin batch[l] /\ running[l] # h
  /\ ready' = [ready EXCEPT ![l] = @ \cup {h}]
  /\ UNCHANGED <<socket, registered, loop, manager, lists, _reclaim_notify_flag, stop, rounds>>

\* epoll_wait returns.
loop_once(l) ==
  /\ l \notin joined
  /\ batch[l] = {} /\ running[l] = Nothing /\ ready[l] # {}
  /\ batch' = [batch EXCEPT ![l] = ready[l]]
  /\ ready' = [ready EXCEPT ![l] = {}]
  /\ UNCHANGED <<socket, registered, running, read_flag, manager, lists, _reclaim_notify_flag,
                 stop, rounds>>

\* (*handler)(), for the next event of the batch.  on_reclaim begins by reading
\* the word in which the flags of all loops are packed.
loop_call(l, h) ==
  /\ running[l] = Nothing /\ h \in batch[l]
  /\ batch' = [batch EXCEPT ![l] = @ \ {h}]
  /\ running' = [running EXCEPT ![l] = h]
  /\ read_flag' = [read_flag EXCEPT ![l] = IF h[1] = "reclaim" THEN _reclaim_notify_flag ELSE @]
  /\ UNCHANGED <<socket, epoll, manager, lists, _reclaim_notify_flag, stop, rounds>>

\* on_connection: the descriptor is removed, the connecting thread is woken ...
on_connection_run(l, s) ==
  /\ running[l] = OnConnection(s)
  /\ removeSchedule(l, OnConnection(s))
  /\ woken' = woken \cup {s}
  /\ running' = [running EXCEPT ![l] = Woke(s)]
  /\ UNCHANGED <<conn, sharers, on_connection, on_read, batch, read_flag, manager, lists,
                 _reclaim_notify_flag, stop, rounds>>

\* ... and the handler returns, by when connect may have cleared it.
on_connection_return(l, s) ==
  /\ running[l] = Woke(s)
  /\ running' = [running EXCEPT ![l] = Nothing]
  /\ UNCHANGED <<socket, epoll, batch, read_flag, manager, lists, _reclaim_notify_flag, stop, rounds>>

\* _on_read (module SocketReadSession has what it does).
on_read_run(l, s) ==
  /\ running[l] = OnRead(s)
  /\ running' = [running EXCEPT ![l] = Nothing]
  /\ UNCHANGED <<socket, epoll, batch, read_flag, manager, lists, _reclaim_notify_flag, stop, rounds>>

\* _on_reclaim[i]: set the flag, writing back the whole word (the flags are a
\* vector<bool> and no lock is held) ...
on_reclaim_flag(l, i) ==
  /\ running[l] = OnReclaim(i)
  /\ _reclaim_notify_flag' = [read_flag[l] EXCEPT ![i] = TRUE]
  /\ running' = [running EXCEPT ![l] = Flagged(i)]
  /\ read_flag' = [read_flag EXCEPT ![l] = NoFlags]
  /\ UNCHANGED <<socket, epoll, batch, manager, lists, stop, rounds>>

\* Variant: the descriptor stays registered.
on_reclaim_remove_missing(l, i) ==
  /\ running[l] = Flagged(i)
  /\ running' = [running EXCEPT ![l] = Nothing]
  /\ UNCHANGED <<socket, epoll, batch, read_flag, manager, lists, _reclaim_notify_flag, stop, rounds>>

\* ... then remove the descriptor and notify.
on_reclaim_remove(l, i) ==
  /\ running[l] = Flagged(i)
  /\ removeSchedule(ScheduleThread(_reclaim_fd, i), OnReclaim(i))
  /\ running' = [running EXCEPT ![l] = Nothing]
  /\ UNCHANGED <<socket, batch, read_flag, manager, lists, _reclaim_notify_flag, stop, rounds>>
-----------------------------------------------------------------------------
\* The owner of socket s: Channel::tryConnect and Socket::connect.

\* A connect that failed: the channel lets go of the socket.
fail(s, how) ==
  /\ conn' = [conn EXCEPT ![s] = how]
  /\ sharers' = [sharers EXCEPT ![s] = ClearExclusive(@)]
  /\ UNCHANGED <<on_read, epoll>>

\* Hold the socket exclusively, start to connect, register on_connection: the
\* kernel may refuse either, and without loop threads addSchedule does.  No
\* channel connects once the shutdown has begun.
connect(s) ==
  /\ conn[s] = "new" /\ gpc = "running"
  /\ \/ /\ fail(s, "failed")
        /\ UNCHANGED on_connection
     \/ /\ fail(s, "unscheduled")
        /\ on_connection' = on_connection \cup {s}
     \/ /\ ~Stopped
        /\ sharers' = [sharers EXCEPT ![s] = OnlyExclusive]
        /\ on_connection' = on_connection \cup {s}
        /\ addSchedule(ScheduleThread(s, -1), OnConnection(s), FALSE)
        /\ conn' = [conn EXCEPT ![s] = "waiting"]
        /\ UNCHANGED on_read
  /\ UNCHANGED <<woken, loop, manager, lists, _reclaim_notify_flag, stop, rounds>>

\* wakeup is not set in time; on_connection is left as it is.
connect_timeout(s) ==
  /\ conn[s] = "waiting" /\ s \notin woken
  /\ fail(s, "timeout")
  /\ UNCHANGED <<on_connection, woken, loop, manager, lists, _reclaim_notify_flag, stop, rounds>>

\* _on_read = [self](){...} and addSchedule
connect_read(s) ==
  /\ on_read' = on_read \cup {s}
  /\ addSchedule(ScheduleThread(s, -1), OnRead(s), FALSE)
  /\ conn' = [conn EXCEPT ![s] = "reading"]
  /\ UNCHANGED sharers

\* Variant: on_connection is not cleared.
connect_woken_kept(s) ==
  /\ conn[s] = "waiting" /\ s \in woken
  /\ connect_read(s) \/ fail(s, "failed")
  /\ UNCHANGED <<on_connection, woken, loop, manager, lists, _reclaim_notify_flag, stop, rounds>>

\* wakeup is set: clear on_connection, and go on if the connection stands and
\* its reader can be registered.
connect_woken(s) ==
  /\ conn[s] = "waiting" /\ s \in woken
  /\ on_connection' = on_connection \ {s}
  /\ woken' = woken \ {s}
  /\ connect_read(s) \/ fail(s, "failed")
  /\ UNCHANGED <<loop, manager, lists, _reclaim_notify_flag, stop, rounds>>

\* addWatch, which waits for _mtx
addWatch(s) ==
  /\ conn[s] = "reading" /\ mpc # "scan"
  /\ _list' = _list \cup {s}
  /\ conn' = [conn EXCEPT ![s] = "owned"]
  /\ UNCHANGED <<sharers, on_connection, on_read, woken, epoll, loop, manager, _reclaim_list,
                 _reclaim_notify_flag, stop, rounds>>

\* The channel is destroyed, or gives up a socket that is not active any more.
surrender(s) ==
  /\ conn[s] = "owned"
  /\ sharers' = [sharers EXCEPT ![s] = ClearExclusive(@)]
  /\ conn' = [conn EXCEPT ![s] = "surrendered"]
  /\ UNCHANGED <<on_connection, on_read, woken, epoll, loop, manager, lists,
                 _reclaim_notify_flag, stop, rounds>>
-----------------------------------------------------------------------------
\* The thread of the manager: watchConnections, every second.  Its heartbeats
\* change nothing but the status of a socket, at which nothing here looks.

watch_begin ==
  /\ mpc = "sleep" /\ gpc \in {"running", "stopping", "stopped"}
  /\ mpc' = "scan" /\ scan' = _list
  /\ UNCHANGED <<socket, epoll, loop, cur_idx, old_flag, _reclaim_counter, lists,
                 _reclaim_notify_flag, stop, rounds>>

\* tryExclusive on a socket of the list: its owner keeps it, or it is disconnected
\* and goes to the reclaim list.  The owner lets go once and for all, so that
\* nothing comes between the two instructions when the first succeeds.
watch_tryExclusive(s) ==
  /\ mpc = "scan" /\ s \in scan
  /\ scan' = scan \ {s}
  /\ \/ /\ IsExclusive(sharers[s])
        /\ sharers' = [sharers EXCEPT ![s] = OrUpgraded(@)]
        /\ UNCHANGED <<epoll, lists>>
     \/ /\ ~IsExclusive(sharers[s])
        /\ sharers' = [sharers EXCEPT ![s] = OnlyExclusive]
        /\ IF Stopped THEN UNCHANGED epoll ELSE removeSchedule(ScheduleThread(s, -1), OnRead(s))
        /\ _list' = _list \ {s}
        /\ _reclaim_list' = _reclaim_list \cup {s}
  /\ UNCHANGED <<conn, on_connection, on_read, woken, loop, mpc, cur_idx, old_flag,
                 _reclaim_counter, _reclaim_notify_flag, stop, rounds>>

\* _reclaim_counter++ % schedule_size, and read the word of the flag to clear.
\* With the schedule destroyed the division is by zero and ends the program.
watch_reclaim ==
  /\ mpc = "scan" /\ scan = {}
  /\ mpc' = IF _reclaim_list = {} THEN "sleep" ELSE IF Stopped THEN "crashed" ELSE "clear"
  /\ IF mpc' = "clear"
     THEN /\ cur_idx' = _reclaim_counter
          /\ _reclaim_counter' = (_reclaim_counter + 1) % LoopSize
          /\ old_flag' = _reclaim_notify_flag
     ELSE UNCHANGED <<cur_idx, _reclaim_counter, old_flag>>
  /\ UNCHANGED <<socket, epoll, loop, scan, lists, _reclaim_notify_flag, stop, rounds>>

\* _reclaim_notify_flag[cur_idx] = false, then addSchedule.  The descriptor may
\* still be registered with the loop, and the call fails unnoticed.
watch_addSchedule ==
  LET l == ScheduleThread(_reclaim_fd, cur_idx)
  IN  /\ mpc = "clear"
      /\ _reclaim_notify_flag' = [old_flag EXCEPT ![cur_idx] = FALSE]
      /\ IF Stopped \/ \E i \in Loops : OnReclaim(i) \in registered[l]
         THEN UNCHANGED epoll
         ELSE addSchedule(l, OnReclaim(cur_idx), TRUE)
      /\ mpc' = "wait" /\ old_flag' = NoFlags
      /\ UNCHANGED <<socket, loop, scan, cur_idx, _reclaim_counter, lists, stop, rounds>>

\* Acknowledged: clear _on_read of the sockets of this loop and forget them.
watch_acknowledged ==
  LET mine == {s \in _reclaim_list : s % LoopSize = cur_idx}
  IN  /\ mpc = "wait" /\ _reclaim_notify_flag[cur_idx]
      /\ on_read' = on_read \ mine
      /\ _reclaim_list' = _reclaim_list \ mine
      /\ mpc' = "sleep" /\ cur_idx' = 0
      /\ UNCHANGED <<conn, sharers, on_connection, woken, epoll, loop, scan, old_flag,
                     _reclaim_counter, _list, _reclaim_notify_flag, stop, rounds>>

\* A loop thread has the handler of this round and may still call it.
AckPending == \E l \in Loops \ joined : OnReclaim(cur_idx) \in registered[l]

\* Half a second has passed: try again in the next round of this index.  After
\* MaxLate slow rounds the loop threads are in time.
watch_timeout ==
  /\ mpc = "wait" /\ ~_reclaim_notify_flag[cur_idx]
  /\ AckPending => late < MaxLate
  /\ late' = IF AckPending THEN late + 1 ELSE late
  /\ mpc' = "sleep" /\ cur_idx' = 0
  /\ UNCHANGED <<socket, epoll, loop, scan, old_flag, _reclaim_counter, lists,
                 _reclaim_notify_flag, stop, _reclaim_fd>>
-----------------------------------------------------------------------------
\* globalDestroy: stop and join the loop threads one after the other, then tell
\* the manager's thread to exit, join it and clear the lists.

globalDestroy ==
  /\ gpc = "running"
  /\ \A s \in Sockets : conn[s] \notin {"waiting", "reading"}
  /\ gpc' = IF Stopped THEN "stopped" ELSE "stopping"
  /\ UNCHANGED <<socket, epoll, loop, manager, lists, _reclaim_notify_flag, joined, rounds>>

\* A thread that was told to stop finishes its batch first.
destroy_schedule(l) ==
  /\ gpc = "stopping" /\ l = Cardinality(joined)
  /\ batch[l] = {} /\ running[l] = Nothing
  /\ joined' = joined \cup {l}
  /\ gpc' = IF joined' = Loops THEN "stopped" ELSE gpc
  /\ registered' = [registered EXCEPT ![l] = {}]
  /\ ready' = [ready EXCEPT ![l] = {}]
  /\ UNCHANGED <<socket, loop, manager, lists, _reclaim_notify_flag, rounds>>

destroy_exit ==
  /\ gpc = "stopped"
  /\ gpc' = "exit"
  /\ UNCHANGED <<socket, epoll, loop, manager, lists, _reclaim_notify_flag, joined, rounds>>

\* destroy(): take what nobody owns any more, and clear _on_read of everything.
destroy ==
  /\ gpc = "exit" /\ mpc = "sleep"
  /\ gpc' = "destroyed"
  /\ sharers' = [s \in Sockets |-> IF s \in _list /\ ~IsExclusive(sharers[s]) THEN OnlyExclusive
                                  ELSE IF s \in _list THEN OrUpgraded(sharers[s]) ELSE sharers[s]]
  /\ on_read' = on_read \ (_list \cup _reclaim_list)
  /\ _list' = {} /\ _reclaim_list' = {}
  /\ UNCHANGED <<conn, on_connection, woken, epoll, loop, manager,
                 _reclaim_notify_flag, joined, rounds>>
-----------------------------------------------------------------------------
owner(s) ==
  connect(s) \/ connect_timeout(s) \/ connect_woken(s) \/ addWatch(s) \/ surrender(s)

loopThread(l) ==
  \/ loop_once(l)
  \/ \E h \in Handlers : loop_call(l, h)
  \/ \E s \in Sockets : on_connection_run(l, s) \/ on_connection_return(l, s)
                      \/ on_read_run(l, s)
  \/ \E i \in Loops : on_reclaim_flag(l, i) \/ on_reclaim_remove(l, i)

watchConnections ==
  \/ watch_begin \/ (\E s \in Sockets : watch_tryExclusive(s))
  \/ watch_reclaim \/ watch_addSchedule \/ watch_acknowledged \/ watch_timeout

destruction == (\E l \in Loops : destroy_schedule(l)) \/ destroy_exit \/ destroy

Next ==
  \/ globalInit
  \/ \E s \in Sockets : owner(s)
  \/ \E l \in Loops : loopThread(l)
  \/ \E l \in Loops : \E h \in Handlers : arrive(l, h)
  \/ watchConnections
  \/ globalDestroy \/ destruction

Spec == Init /\ [][Next]_vars

\* The threads of the library run, and a shutdown that was begun goes on even
\* while connections keep the loop threads busy.  Nothing obliges the owners.
FairSpec ==
  /\ Spec
  /\ \A l \in Loops : WF_vars(loopThread(l))
  /\ WF_vars(watchConnections)
  /\ SF_vars(destruction)
-----------------------------------------------------------------------------
TypeOK ==
  /\ conn \in [Sockets -> {"new", "waiting", "reading", "owned", "surrendered",
                           "timeout", "failed", "unscheduled"}]
  /\ sharers \in [Sockets -> Bits]
  /\ on_connection \subseteq Sockets /\ on_read \subseteq Sockets /\ woken \subseteq Sockets
  /\ registered \in [Loops -> SUBSET Handlers] /\ ready \in [Loops -> SUBSET Handlers]
  /\ batch \in [Loops -> SUBSET Handlers]
  /\ running \in [Loops -> Handlers \cup {Nothing} \cup {Flagged(i) : i \in Loops}
                                     \cup {Woke(s) : s \in Sockets}]
  /\ read_flag \in [Loops -> [Loops -> BOOLEAN]]
  /\ _list \subseteq Sockets /\ _reclaim_list \subseteq Sockets
  /\ _reclaim_counter \in Loops /\ _reclaim_notify_flag \in [Loops -> BOOLEAN]
  /\ mpc \in {"sleep", "scan", "clear", "wait", "crashed"}
  /\ scan \subseteq Sockets /\ cur_idx \in Loops
  /\ old_flag \in [Loops -> BOOLEAN]
  /\ gpc \in {"start", "manager", "refused", "crashed", "running", "stopping", "stopped", "exit",
             "destroyed"}
  /\ joined \subseteq Loops
  /\ late \in 0..MaxLate /\ _reclaim_fd \in ReclaimFds \cup {0}

\* Handlers that a loop thread is in or is going to call without asking again.
Calls(l) == batch[l] \cup {running[l]}

\* The manager never clears the _on_read that a loop thread is executing or has
\* taken from epoll_wait and is about to call.
HandlersAlive == \A l \in Loops : \A s \in Sockets : OnRead(s) \in Calls(l) => s \in on_read

\* The descriptor of the manager's pipe belongs to loop 0.  If not, then because
\* ScheduleThread uses an index only above 0, the loop of the pipe answers for
\* loop 0 in round 0, and for itself in a round of its own.
PipeOnLoop0 == ScheduleThread(_reclaim_fd, 0) = 0

\* ... which is what the acknowledgement achieves as long as none came late.
HandlersAliveWhenPrompt == late = 0 /\ PipeOnLoop0 => HandlersAlive

\* A connection that its channel still owns stays in service: whatever the
\* manager and the other connections do, its loop goes on listening to it.
OwnedStaysRegistered ==
  \A s \in Sockets :
    conn[s] = "owned" /\ ScheduleThread(s, -1) \notin joined =>
      OnRead(s) \in registered[ScheduleThread(s, -1)]

\* globalInit is all or nothing (Schedule::init destroys the threads that it has
\* started when one fails): while the library is in service all loop threads run
\* or none.  If none does, no connection is ever reported as established and
\* nothing reaches the manager, whose division by the number of loop threads is
\* by zero only when the shutdown has emptied them.
StartsWhole ==
  /\ gpc = "running" =>
       \/ joined = {}
       \/ /\ Stopped /\ _list = {} /\ _reclaim_list = {}
          /\ \A s \in Sockets : conn[s] \in {"new", "failed", "unscheduled"}
  /\ mpc = "crashed" => gpc \in {"stopped", "exit"}

\* The library is in service as a whole, and so is what a channel owns.
InService == TypeOK /\ StartsWhole /\ OwnedStaysRegistered

\* The handlers hold their socket by a shared pointer.  A connect that failed
\* leaves none behind, unless it ran out of time or could not be registered; and
\* when the library has been shut down none is left of the sockets that were
\* surrendered.
NoHandlerLeft ==
  \A s \in Sockets :
    /\ conn[s] \in {"failed", "owned", "surrendered"} => s \notin on_connection
    /\ conn[s] = "failed" => s \notin on_read
    /\ gpc = "destroyed" /\ conn[s] = "surrendered" => s \notin on_read

\* A socket that was surrendered is let go of in the end.  (Where two rounds ask
\* the same loop, each may find the other's handler still registered.)
Reclaimed ==
  \A s \in Sockets :
    conn[s] = "surrendered" ~> s \notin on_read \/ mpc = "crashed" \/ ~PipeOnLoop0
=============================================================================
