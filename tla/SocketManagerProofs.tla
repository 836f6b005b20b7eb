------------------------- MODULE SocketManagerProofs -------------------------
(***************************************************************************)
(* What the schedule, the connecting threads and the socket manager keep   *)
(* together, for every set of sockets and every number of loop threads.    *)
(*                                                                         *)
(* That no handler is cleared under a loop thread that is about to call it *)
(* rests on what an acknowledgement means: the batch in which a loop       *)
(* thread found it was fetched after the sockets of the reclaim list had   *)
(* been removed from its epoll.                                            *)
(***************************************************************************)
EXTENDS SocketManager, TLAPS

\* Most leaves are first-order: Zenon is the default prover here, and a leaf that
\* needs arithmetic, or the type of a function or a record, cites SMT.
USE Zenon

\* The loop of a socket.
Home(s) == ScheduleThread(s, -1)

\* Before the library is in service nothing has happened.
Untouched ==
  /\ mpc = "sleep" /\ _list = {} /\ _reclaim_list = {}
  /\ \A s \in Sockets : conn[s] = "new"
  /\ \A l \in Loops : registered[l] = {} /\ ready[l] = {} /\ batch[l] = {} /\ running[l] = Nothing

Phases ==
  /\ gpc \in {"start", "manager", "refused", "crashed"} => Untouched
  /\ gpc \in {"manager", "running"} => joined = {} \/ joined = Loops
  /\ gpc = "running" /\ joined = Loops =>
       /\ _list = {} /\ _reclaim_list = {}
       /\ \A s \in Sockets : conn[s] \in {"new", "failed", "unscheduled"}
  /\ gpc = "stopping" => joined # Loops
  /\ gpc \in {"stopped", "exit", "destroyed"} => joined = Loops
  /\ gpc = "destroyed" => mpc = "sleep" /\ _list = {} /\ _reclaim_list = {}
  /\ mpc = "crashed" => gpc \in {"stopped", "exit"}
  /\ mpc # "scan" => scan = {}
  /\ scan \subseteq _list

\* A loop thread that does not run has nothing in hand.
Joined == \A l \in joined : batch[l] = {} /\ running[l] = Nothing

\* What an owner has reached, and who knows its socket.
Owner(s) ==
  /\ conn[s] \in {"waiting", "reading"} => gpc = "running" /\ joined = {}
  /\ conn[s] \in {"waiting", "reading", "owned"} => IsExclusive(sharers[s])
  /\ conn[s] \in {"reading", "owned"} /\ Home(s) \notin joined => OnRead(s) \in registered[Home(s)]
  /\ s \in _list => conn[s] \in {"owned", "surrendered"}
  /\ s \in _reclaim_list => conn[s] = "surrendered"
  /\ s \in on_read => conn[s] = "reading" \/ s \in _list \cup _reclaim_list
  /\ s \in on_connection => conn[s] \in {"waiting", "timeout", "unscheduled"}

\* A loop listens to sockets of its own only, and not to those to be reclaimed; an
\* event is only reported of what is registered.
Listens(l) ==
  /\ ready[l] \subseteq registered[l]
  /\ \A s \in Sockets : OnRead(s) \in registered[l] \cup Calls(l) => l = Home(s)
  /\ \A s \in _reclaim_list : OnRead(s) \notin registered[l]

\* Loop l has been asked for an acknowledgement and has not given it.
Asked(l, i) == OnReclaim(i) \in ready[l] \cup Calls(l)

\* As long as all acknowledgements are in time: at most the loop of this round has
\* been asked; while it has the request in hand, and once it has answered, it has no
\* event in hand of a socket to be reclaimed.
Prompt(l) ==
  /\ \A i \in Loops : Asked(l, i) =>
       /\ l = i /\ mpc = "wait" /\ cur_idx = i /\ ~_reclaim_notify_flag[i]
       /\ OnReclaim(i) \in registered[l]
  /\ \A i \in Loops :
       /\ OnReclaim(i) \in ready[l] => OnReclaim(i) \notin Calls(l)
       /\ OnReclaim(i) \in batch[l] => running[l] # OnReclaim(i)
       /\ running[l] = Flagged(i) => l = i /\ OnReclaim(i) \in registered[l] /\ ~Asked(l, i)
  /\ \/ OnReclaim(l) \in Calls(l)
     \/ mpc = "wait" /\ cur_idx = l /\ _reclaim_notify_flag[l]
     => \A s \in _reclaim_list : OnRead(s) \notin Calls(l)
  /\ \A s \in Sockets : OnRead(s) \in registered[l] \cup Calls(l) => s \in on_read

SInv ==
  /\ TypeOK /\ Phases /\ Joined
  /\ \A s \in Sockets : Owner(s)
  /\ \A l \in Loops \ joined : Listens(l)
  /\ late = 0 /\ PipeOnLoop0 => \A l \in Loops \ joined : Prompt(l)

-----------------------------------------------------------------------------
(* Loops and handlers.                                                     *)

\* What the constants give: loops are numbered from 0, and Home picks one of them.
LEMMA LoopsFacts ==
  /\ 0 \in Loops /\ Loops # {}
  /\ \A i \in Loops : (i + 1) % LoopSize \in Loops
  /\ \A s \in Sockets : Home(s) \in Loops /\ Home(s) = s % LoopSize
  /\ \A fd \in ReclaimFds \cup {0} : \A i \in Loops : ScheduleThread(fd, i) \in Loops
<1>1. \A n \in Nat : n % LoopSize \in Loops
  BY SMT, LoopSizeAssumption DEF Loops
<1>2. 0 \in Loops /\ Loops # {} /\ \A i \in Loops : i \in Nat /\ i + 1 \in Nat
  BY SMT, LoopSizeAssumption DEF Loops
<1>3. ~(-1 > 0)
  BY SMT
<1>4. \A s \in Sockets : s \in Nat
  BY SocketsAssumption
<1>5. \A s \in Sockets : Home(s) = s % LoopSize
  BY <1>3 DEF Home, ScheduleThread
<1>6. \A fd \in ReclaimFds \cup {0} : fd \in Nat
  BY SMT, ReclaimFdsAssumption
<1>7. \A fd \in ReclaimFds \cup {0} : \A i \in Loops : ScheduleThread(fd, i) \in Loops
  BY <1>1, <1>2, <1>6 DEF ScheduleThread
<1> QED BY <1>1, <1>2, <1>4, <1>5, <1>7

\* In each round the manager asks the loop of the round.
LEMMA AsksLoop ==
  ASSUME PipeOnLoop0, NEW i \in Loops
  PROVE  ScheduleThread(_reclaim_fd, i) = i
<1>1. CASE i = 0
  BY <1>1 DEF PipeOnLoop0
<1>2. CASE i # 0
  BY SMT, <1>2, LoopSizeAssumption DEF ScheduleThread, Loops
<1> QED BY <1>1, <1>2

\* Handlers of different kinds, or of different sockets, are different.
LEMMA HandlersDiffer ==
  ASSUME NEW s, NEW t
  PROVE  /\ OnRead(s) = OnRead(t) => s = t
         /\ OnConnection(s) = OnConnection(t) => s = t
         /\ OnReclaim(s) = OnReclaim(t) => s = t
         /\ Flagged(s) = Flagged(t) => s = t
         /\ Woke(s) = Woke(t) => s = t
         /\ OnRead(s) # OnConnection(t) /\ OnRead(s) # OnReclaim(t)
         /\ OnReclaim(s) # OnConnection(t)
         /\ OnRead(s) # Flagged(t) /\ OnReclaim(s) # Flagged(t) /\ OnConnection(s) # Flagged(t)
         /\ OnRead(s) # Woke(t) /\ OnReclaim(s) # Woke(t) /\ OnConnection(s) # Woke(t)
         /\ Flagged(s) # Woke(t)
         /\ OnRead(s) # Nothing /\ OnReclaim(s) # Nothing /\ OnConnection(s) # Nothing
         /\ Flagged(s) # Nothing /\ Woke(s) # Nothing
         /\ OnRead(s)[1] = "read" /\ OnConnection(s)[1] = "connection"
         /\ OnReclaim(s)[1] = "reclaim"
  BY SMT DEF OnRead, OnConnection, OnReclaim, Flagged, Woke, Nothing

\* The three kinds of handler are handlers.
LEMMA IsHandler ==
  /\ \A s \in Sockets : OnRead(s) \in Handlers /\ OnConnection(s) \in Handlers
  /\ \A i \in Loops : OnReclaim(i) \in Handlers
  BY DEF Handlers

\* A function updated with a value of its range keeps its type.
LEMMA Update ==
  ASSUME NEW S, NEW T, NEW f \in [S -> T], NEW x, x \in S => f[x] \in T, NEW e, x \in S => e \in T
  PROVE  [f EXCEPT ![x] = e] \in [S -> T]
OBVIOUS

\* What EPOLL_CTL_ADD and EPOLL_CTL_DEL do to what a loop knows.
LEMMA AddMoves ==
  ASSUME TypeOK, NEW l \in Loops, NEW h \in Handlers, NEW now \in BOOLEAN, addSchedule(l, h, now)
  PROVE  /\ registered' \in [Loops -> SUBSET Handlers] /\ ready' \in [Loops -> SUBSET Handlers]
         /\ \A m \in Loops : \A x : x \in registered'[m] <=> x \in registered[m] \/ (m = l /\ x = h)
         /\ \A m \in Loops : \A x : x \in ready'[m] <=> x \in ready[m] \/ (now /\ m = l /\ x = h)
<1>1. registered \in [Loops -> SUBSET Handlers] /\ ready \in [Loops -> SUBSET Handlers]
  BY DEF TypeOK
<1>2. /\ [registered EXCEPT ![l] = @ \cup {h}] \in [Loops -> SUBSET Handlers]
      /\ [ready EXCEPT ![l] = @ \cup {h}] \in [Loops -> SUBSET Handlers]
  BY <1>1
<1>3. /\ registered' = [registered EXCEPT ![l] = @ \cup {h}]
      /\ ready' = [ready EXCEPT ![l] = @ \cup {h}] \/ (~now /\ ready' = ready)
      /\ now => ready' = [ready EXCEPT ![l] = @ \cup {h}]
      /\ ~now => ready' = ready
  BY DEF addSchedule
<1>4. \A m \in Loops : \A x : x \in registered'[m] <=> x \in registered[m] \/ (m = l /\ x = h)
  BY <1>1, <1>3
<1>5. \A m \in Loops : \A x : x \in ready'[m] <=> x \in ready[m] \/ (now /\ m = l /\ x = h)
  <2>1. CASE now
    BY <1>1, <1>3, <2>1
  <2>2. CASE ~now
    BY <1>3, <2>2
  <2> QED BY <2>1, <2>2
<1> QED BY <1>1, <1>2, <1>3, <1>4, <1>5

\* What removeSchedule does to the registered and the ready handlers.
LEMMA RemoveMoves ==
  ASSUME TypeOK, NEW l \in Loops, NEW h, removeSchedule(l, h)
  PROVE  /\ registered' \in [Loops -> SUBSET Handlers] /\ ready' \in [Loops -> SUBSET Handlers]
         /\ \A m \in Loops : \A x : x \in registered'[m] <=> x \in registered[m] /\ ~(m = l /\ x = h)
         /\ \A m \in Loops : \A x : x \in ready'[m] <=> x \in ready[m] /\ ~(m = l /\ x = h)
<1>1. registered \in [Loops -> SUBSET Handlers] /\ ready \in [Loops -> SUBSET Handlers]
  BY DEF TypeOK
<1>2. /\ [registered EXCEPT ![l] = @ \ {h}] \in [Loops -> SUBSET Handlers]
      /\ [ready EXCEPT ![l] = @ \ {h}] \in [Loops -> SUBSET Handlers]
  BY <1>1
<1>3. /\ registered' = [registered EXCEPT ![l] = @ \ {h}]
      /\ ready' = [ready EXCEPT ![l] = @ \ {h}]
  BY DEF removeSchedule
<1>4. \A m \in Loops : \A x : x \in registered'[m] <=> x \in registered[m] /\ ~(m = l /\ x = h)
  BY <1>1, <1>3
<1>5. \A m \in Loops : \A x : x \in ready'[m] <=> x \in ready[m] /\ ~(m = l /\ x = h)
  BY <1>1, <1>3
<1> QED BY <1>2, <1>3, <1>4, <1>5

-----------------------------------------------------------------------------
(* Types.                                                                  *)

\* The operations on the sharers' word stay inside its type.
LEMMA BitsFacts ==
  /\ NoBits \in Bits /\ OnlyExclusive \in Bits /\ IsExclusive(OnlyExclusive)
  /\ \A b \in Bits : ClearExclusive(b) \in Bits /\ OrUpgraded(b) \in Bits
  /\ \A b \in Bits : IsExclusive(b) => IsExclusive(OrUpgraded(b))
<1>1. NoBits \in Bits /\ OnlyExclusive \in Bits /\ IsExclusive(OnlyExclusive)
  BY SMT DEF NoBits, OnlyExclusive, Bits, IsExclusive
<1>2. \A b \in Bits : ClearExclusive(b) \in Bits /\ OrUpgraded(b) \in Bits
  BY DEF ClearExclusive, OrUpgraded, Bits
<1>3. \A b \in Bits : IsExclusive(b) => IsExclusive(OrUpgraded(b))
  BY SMT DEF OrUpgraded, Bits, IsExclusive
<1> QED BY <1>1, <1>2, <1>3

\* The initial state is well typed.
LEMMA InitType == Init => TypeOK
<1> SUFFICES ASSUME Init PROVE TypeOK
  OBVIOUS
<1> USE DEF Init
<1>1. NoFlags \in [Loops -> BOOLEAN]
  BY DEF NoFlags
<1>2. late \in 0..MaxLate /\ _reclaim_fd \in ReclaimFds \cup {0}
  BY SMT, MaxLateAssumption
<1>3. sharers \in [Sockets -> Bits]
  BY BitsFacts
<1> QED BY <1>1, <1>2, <1>3, LoopsFacts DEF TypeOK

\* A step of globalInit keeps the types.
LEMMA InitStepType ==
  ASSUME TypeOK, globalInit
  PROVE  TypeOK'
<1> USE DEF socket, epoll, loop, manager, lists, stop, rounds
<1>1. ASSUME NEW l \in Loops, Schedule_init(l) PROVE TypeOK'
  <2>1. joined' \subseteq Loops
    BY <1>1 DEF Schedule_init, TypeOK
  <2>2. gpc' \in {"start", "manager", "crashed"}
    BY <1>1 DEF Schedule_init
  <2> QED BY <1>1, <2>1, <2>2 DEF Schedule_init, TypeOK
<1>2. ASSUME SocketManager_init PROVE TypeOK'
  BY <1>2 DEF SocketManager_init, TypeOK
<1> QED BY <1>1, <1>2 DEF globalInit

\* A step of a connection's owner keeps the types.
LEMMA OwnerType ==
  ASSUME TypeOK, NEW s \in Sockets, owner(s)
  PROVE  TypeOK'
<1> USE DEF socket, epoll, loop, manager, lists, stop, rounds
<1>0. conn \in [Sockets -> {"new", "waiting", "reading", "owned", "surrendered",
                            "timeout", "failed", "unscheduled"}]
      /\ sharers \in [Sockets -> Bits] /\ sharers[s] \in Bits
  BY DEF TypeOK
<1>c. \A how \in {"waiting", "reading", "owned", "surrendered", "timeout", "failed", "unscheduled"} :
        [conn EXCEPT ![s] = how] \in
           [Sockets -> {"new", "waiting", "reading", "owned", "surrendered",
                        "timeout", "failed", "unscheduled"}]
  BY <1>0, Update
<1>b. /\ [sharers EXCEPT ![s] = ClearExclusive(@)] \in [Sockets -> Bits]
      /\ [sharers EXCEPT ![s] = OnlyExclusive] \in [Sockets -> Bits]
  BY <1>0, BitsFacts
<1>f. ASSUME NEW how \in {"timeout", "failed", "unscheduled"}, fail(s, how)
      PROVE  /\ conn' \in [Sockets -> {"new", "waiting", "reading", "owned", "surrendered",
                                       "timeout", "failed", "unscheduled"}]
             /\ sharers' \in [Sockets -> Bits] /\ UNCHANGED <<on_read, epoll>>
  BY <1>b, <1>c, <1>f DEF fail
<1>1. CASE connect(s)
  <2>1. CASE fail(s, "failed") /\ UNCHANGED on_connection
    BY <1>f, <1>1, <2>1 DEF connect, TypeOK
  <2>2. CASE fail(s, "unscheduled") /\ on_connection' = on_connection \cup {s}
    BY <1>f, <1>1, <2>2 DEF connect, TypeOK
  <2>3. CASE /\ sharers' = [sharers EXCEPT ![s] = OnlyExclusive]
             /\ on_connection' = on_connection \cup {s}
             /\ addSchedule(ScheduleThread(s, -1), OnConnection(s), FALSE)
             /\ conn' = [conn EXCEPT ![s] = "waiting"]
             /\ UNCHANGED on_read
    <3>1. registered' \in [Loops -> SUBSET Handlers] /\ ready' \in [Loops -> SUBSET Handlers]
      BY <2>3, AddMoves, IsHandler, LoopsFacts DEF Home
    <3> QED BY <1>b, <1>c, <1>1, <2>3, <3>1 DEF connect, TypeOK
  <2> QED BY <1>1, <2>1, <2>2, <2>3 DEF connect
<1>2. CASE connect_timeout(s)
  BY <1>f, <1>2 DEF connect_timeout, TypeOK
<1>3. CASE connect_woken(s)
  <2>1. CASE fail(s, "failed")
    BY <1>f, <1>3, <2>1 DEF connect_woken, TypeOK
  <2>2. CASE connect_read(s)
    <3>1. registered' \in [Loops -> SUBSET Handlers] /\ ready' \in [Loops -> SUBSET Handlers]
      BY <2>2, AddMoves, IsHandler, LoopsFacts DEF Home, connect_read
    <3> QED BY <1>b, <1>c, <1>3, <2>2, <3>1 DEF connect_woken, connect_read, TypeOK
  <2> QED BY <1>3, <2>1, <2>2 DEF connect_woken
<1>4. CASE addWatch(s)
  BY <1>c, <1>4 DEF addWatch, TypeOK
<1>5. CASE surrender(s)
  BY <1>b, <1>c, <1>5 DEF surrender, TypeOK
<1> QED BY <1>1, <1>2, <1>3, <1>4, <1>5 DEF owner

\* A step of an event-loop thread keeps the types.
LEMMA LoopType ==
  ASSUME TypeOK, NEW l \in Loops, loopThread(l)
  PROVE  TypeOK'
<1> USE DEF socket, epoll, loop, manager, lists, stop, rounds
<1> DEFINE R == Handlers \cup {Nothing} \cup {Flagged(i) : i \in Loops} \cup {Woke(s) : s \in Sockets}
<1>0. /\ running \in [Loops -> R] /\ batch \in [Loops -> SUBSET Handlers]
      /\ ready \in [Loops -> SUBSET Handlers]
      /\ read_flag \in [Loops -> [Loops -> BOOLEAN]] /\ read_flag[l] \in [Loops -> BOOLEAN]
      /\ _reclaim_notify_flag \in [Loops -> BOOLEAN] /\ _reclaim_fd \in ReclaimFds \cup {0}
  BY DEF TypeOK
<1>r. \A x \in R : [running EXCEPT ![l] = x] \in [Loops -> R]
  BY <1>0, Update
<1>n. Nothing \in R /\ (\A h \in Handlers : h \in R) /\ (\A i \in Loops : Flagged(i) \in R)
      /\ (\A s \in Sockets : Woke(s) \in R)
  OBVIOUS
<1>t. ASSUME running' \in [Loops -> R], batch' \in [Loops -> SUBSET Handlers],
             registered' \in [Loops -> SUBSET Handlers], ready' \in [Loops -> SUBSET Handlers],
             read_flag' \in [Loops -> [Loops -> BOOLEAN]], woken' \subseteq Sockets,
             _reclaim_notify_flag' \in [Loops -> BOOLEAN],
             UNCHANGED <<conn, sharers, on_connection, on_read, manager, lists, stop, rounds>>
      PROVE  TypeOK'
  BY <1>t DEF TypeOK
<1> HIDE DEF R
<1>u. /\ registered \in [Loops -> SUBSET Handlers] /\ woken \subseteq Sockets
  BY DEF TypeOK
<1>1. CASE loop_once(l)
  <2>1. batch' \in [Loops -> SUBSET Handlers] /\ ready' \in [Loops -> SUBSET Handlers]
    BY <1>0, <1>1, Update DEF loop_once
  <2> QED BY <1>0, <1>u, <1>t, <1>1, <2>1 DEF loop_once
<1>2. ASSUME NEW h \in Handlers, loop_call(l, h) PROVE TypeOK'
  <2>1. batch' \in [Loops -> SUBSET Handlers]
    BY <1>0, <1>2 DEF loop_call
  <2>2. read_flag' \in [Loops -> [Loops -> BOOLEAN]]
    <3>1. (IF h[1] = "reclaim" THEN _reclaim_notify_flag ELSE read_flag[l]) \in [Loops -> BOOLEAN]
      BY <1>0
    <3> QED BY <1>0, <1>2, <3>1, Update DEF loop_call
  <2>3. running' \in [Loops -> R]
    BY <1>r, <1>n, <1>2 DEF loop_call
  <2> QED BY <1>0, <1>u, <1>t, <1>2, <2>1, <2>2, <2>3 DEF loop_call
<1>3. ASSUME NEW s \in Sockets, on_connection_run(l, s) PROVE TypeOK'
  <2>1. registered' \in [Loops -> SUBSET Handlers] /\ ready' \in [Loops -> SUBSET Handlers]
    BY <1>3, RemoveMoves DEF on_connection_run
  <2>2. running' \in [Loops -> R] /\ woken' \subseteq Sockets
    BY <1>r, <1>n, <1>u, <1>3 DEF on_connection_run
  <2> QED BY <1>0, <1>t, <1>3, <2>1, <2>2 DEF on_connection_run
<1>4. ASSUME NEW s \in Sockets, on_connection_return(l, s) \/ on_read_run(l, s) PROVE TypeOK'
  <2>1. running' = [running EXCEPT ![l] = Nothing]
        /\ UNCHANGED <<socket, epoll, batch, read_flag, manager, lists, _reclaim_notify_flag, stop,
                       rounds>>
    BY <1>4 DEF on_connection_return, on_read_run
  <2>2. running' \in [Loops -> R]
    BY <1>r, <1>n, <2>1
  <2> QED BY <1>0, <1>u, <1>t, <2>1, <2>2
<1>5. ASSUME NEW i \in Loops, on_reclaim_flag(l, i) PROVE TypeOK'
  <2>1. running' \in [Loops -> R]
    BY <1>r, <1>n, <1>5 DEF on_reclaim_flag
  <2>2. _reclaim_notify_flag' \in [Loops -> BOOLEAN]
    BY <1>0, <1>5, Update DEF on_reclaim_flag
  <2>3. read_flag' \in [Loops -> [Loops -> BOOLEAN]]
    BY <1>0, <1>5, Update DEF on_reclaim_flag, NoFlags
  <2> QED BY <1>0, <1>u, <1>t, <1>5, <2>1, <2>2, <2>3 DEF on_reclaim_flag
<1>6. ASSUME NEW i \in Loops, on_reclaim_remove(l, i) PROVE TypeOK'
  <2>1. registered' \in [Loops -> SUBSET Handlers] /\ ready' \in [Loops -> SUBSET Handlers]
    BY <1>0, <1>6, RemoveMoves, LoopsFacts DEF on_reclaim_remove
  <2>2. running' \in [Loops -> R]
    BY <1>r, <1>n, <1>6 DEF on_reclaim_remove
  <2> QED BY <1>0, <1>u, <1>t, <1>6, <2>1, <2>2 DEF on_reclaim_remove
<1> QED BY <1>1, <1>2, <1>3, <1>4, <1>5, <1>6 DEF loopThread

\* The arrival of an event keeps the types.
LEMMA ArriveType ==
  ASSUME TypeOK, NEW l \in Loops, NEW h \in Handlers, arrive(l, h)
  PROVE  TypeOK'
<1>1. ready' \in [Loops -> SUBSET Handlers]
  BY DEF arrive, TypeOK
<1> QED BY <1>1 DEF arrive, TypeOK, socket, loop, manager, lists, stop, rounds

\* A step of watchConnections keeps the types.
LEMMA WatchType ==
  ASSUME TypeOK, watchConnections
  PROVE  TypeOK'
<1> USE DEF socket, epoll, loop, manager, lists, stop, rounds
<1>1. CASE watch_begin
  BY <1>1 DEF watch_begin, TypeOK
<1>2. ASSUME NEW s \in Sockets, watch_tryExclusive(s) PROVE TypeOK'
  <2>1. sharers' \in [Sockets -> Bits]
    <3>1. sharers \in [Sockets -> Bits] /\ sharers[s] \in Bits
      BY DEF TypeOK
    <3>2. sharers' = [sharers EXCEPT ![s] = OrUpgraded(@)]
          \/ sharers' = [sharers EXCEPT ![s] = OnlyExclusive]
      BY <1>2 DEF watch_tryExclusive
    <3> QED BY <3>1, <3>2, BitsFacts
  <2>2. registered' \in [Loops -> SUBSET Handlers] /\ ready' \in [Loops -> SUBSET Handlers]
    <3>1. CASE UNCHANGED epoll
      BY <3>1 DEF TypeOK
    <3>2. CASE removeSchedule(ScheduleThread(s, -1), OnRead(s))
      BY <3>2, RemoveMoves, LoopsFacts DEF Home
    <3> QED BY <1>2, <3>1, <3>2 DEF watch_tryExclusive
  <2>3. scan' \subseteq Sockets /\ _list' \subseteq Sockets /\ _reclaim_list' \subseteq Sockets
    BY <1>2 DEF watch_tryExclusive, TypeOK
  <2> QED BY <1>2, <2>1, <2>2, <2>3 DEF watch_tryExclusive, TypeOK
<1>3. CASE watch_reclaim
  <2>1. mpc' \in {"sleep", "crashed", "clear"}
    BY <1>3 DEF watch_reclaim
  <2>2. cur_idx' \in Loops /\ _reclaim_counter' \in Loops /\ old_flag' \in [Loops -> BOOLEAN]
    BY <1>3, LoopsFacts DEF watch_reclaim, TypeOK
  <2> QED BY <1>3, <2>1, <2>2 DEF watch_reclaim, TypeOK
<1>4. CASE watch_addSchedule
  <2>1. _reclaim_notify_flag' \in [Loops -> BOOLEAN] /\ old_flag' \in [Loops -> BOOLEAN]
    BY <1>4, Update DEF watch_addSchedule, TypeOK, NoFlags
  <2>2. registered' \in [Loops -> SUBSET Handlers] /\ ready' \in [Loops -> SUBSET Handlers]
    <3>1. CASE UNCHANGED epoll
      BY <3>1 DEF TypeOK
    <3>2. CASE addSchedule(ScheduleThread(_reclaim_fd, cur_idx), OnReclaim(cur_idx), TRUE)
      <4>1. cur_idx \in Loops /\ ScheduleThread(_reclaim_fd, cur_idx) \in Loops
        BY LoopsFacts DEF TypeOK
      <4> QED BY <3>2, <4>1, AddMoves, IsHandler
    <3> QED BY <1>4, <3>1, <3>2 DEF watch_addSchedule
  <2> QED BY <1>4, <2>1, <2>2 DEF watch_addSchedule, TypeOK
<1>5. CASE watch_acknowledged
  BY <1>5, LoopsFacts DEF watch_acknowledged, TypeOK
<1>6. CASE watch_timeout
  <2>1. late' \in 0..MaxLate
    <3>1. late \in 0..MaxLate
      BY DEF TypeOK
    <3>2. late < MaxLate => late + 1 \in 0..MaxLate
      BY SMT, <3>1, MaxLateAssumption
    <3> QED BY <1>6, <3>1, <3>2 DEF watch_timeout
  <2> QED BY <1>6, <2>1, LoopsFacts DEF watch_timeout, TypeOK
<1> QED BY <1>1, <1>2, <1>3, <1>4, <1>5, <1>6 DEF watchConnections

\* A step of globalDestroy or of the statics' destruction keeps the types.
LEMMA DestroyType ==
  ASSUME TypeOK, globalDestroy \/ destruction
  PROVE  TypeOK'
<1> USE DEF socket, epoll, loop, manager, lists, stop, rounds
<1>1. CASE globalDestroy
  BY <1>1 DEF globalDestroy, TypeOK
<1>2. ASSUME NEW l \in Loops, destroy_schedule(l) PROVE TypeOK'
  <2>1. registered' \in [Loops -> SUBSET Handlers] /\ ready' \in [Loops -> SUBSET Handlers]
    BY <1>2, Update DEF destroy_schedule, TypeOK
  <2> QED BY <1>2, <2>1 DEF destroy_schedule, TypeOK
<1>3. CASE destroy_exit
  BY <1>3 DEF destroy_exit, TypeOK
<1>4. CASE destroy
  <2>1. sharers' \in [Sockets -> Bits]
    <3>1. \A s \in Sockets : sharers[s] \in Bits
      BY DEF TypeOK
    <3> QED BY <1>4, <3>1, BitsFacts DEF destroy
  <2> QED BY <1>4, <2>1 DEF destroy, TypeOK
<1> QED BY <1>1, <1>2, <1>3, <1>4 DEF destruction

-----------------------------------------------------------------------------
(* The phases of the library, and loop threads that do not run.            *)

\* A loop thread that takes a step runs, and has something in hand.
LEMMA LoopRuns ==
  ASSUME TypeOK, Joined, NEW l \in Loops, loopThread(l)
  PROVE  /\ l \notin joined /\ ~Untouched
         /\ UNCHANGED <<conn, sharers, on_connection, on_read, manager, lists, stop, rounds>>
         /\ \A m \in Loops \ {l} : batch'[m] = batch[m] /\ running'[m] = running[m]
<1> USE DEF socket, epoll, loop
<1>0. /\ running \in [Loops -> Handlers \cup {Nothing} \cup {Flagged(i) : i \in Loops}
                                        \cup {Woke(s) : s \in Sockets}]
      /\ batch \in [Loops -> SUBSET Handlers]
  BY DEF TypeOK
<1>j. running[l] # Nothing \/ batch[l] # {} => l \notin joined /\ ~Untouched
  BY DEF Joined, Untouched
<1>1. CASE loop_once(l)
  BY <1>0, <1>1 DEF loop_once, Untouched
<1>2. ASSUME NEW h \in Handlers, loop_call(l, h)
      PROVE  /\ l \notin joined /\ ~Untouched
             /\ UNCHANGED <<conn, sharers, on_connection, on_read, manager, lists, stop, rounds>>
             /\ \A m \in Loops \ {l} : batch'[m] = batch[m] /\ running'[m] = running[m]
  BY <1>0, <1>j, <1>2 DEF loop_call
<1>3. ASSUME NEW s \in Sockets,
             on_connection_run(l, s) \/ on_connection_return(l, s) \/ on_read_run(l, s)
      PROVE  /\ l \notin joined /\ ~Untouched
             /\ UNCHANGED <<conn, sharers, on_connection, on_read, manager, lists, stop, rounds>>
             /\ \A m \in Loops \ {l} : batch'[m] = batch[m] /\ running'[m] = running[m]
  <2>1. running[l] # Nothing
    BY <1>3, HandlersDiffer DEF on_connection_run, on_connection_return, on_read_run
  <2> QED BY <1>0, <1>j, <1>3, <2>1 DEF on_connection_run, on_connection_return, on_read_run
<1>4. ASSUME NEW i \in Loops, on_reclaim_flag(l, i) \/ on_reclaim_remove(l, i)
      PROVE  /\ l \notin joined /\ ~Untouched
             /\ UNCHANGED <<conn, sharers, on_connection, on_read, manager, lists, stop, rounds>>
             /\ \A m \in Loops \ {l} : batch'[m] = batch[m] /\ running'[m] = running[m]
  <2>1. running[l] # Nothing
    BY <1>4, HandlersDiffer DEF on_reclaim_flag, on_reclaim_remove
  <2> QED BY <1>0, <1>j, <1>4, <2>1 DEF on_reclaim_flag, on_reclaim_remove
<1> QED BY <1>1, <1>2, <1>3, <1>4 DEF loopThread

\* The initial state satisfies the phases.
LEMMA InitPhases == Init => Phases /\ Joined
<1> SUFFICES ASSUME Init PROVE Phases /\ Joined
  OBVIOUS
<1>1. Untouched /\ Joined
  BY DEF Init, Untouched, Joined
<1>2. gpc = "start" /\ mpc = "sleep" /\ scan = {}
  BY DEF Init
<1> QED BY <1>1, <1>2 DEF Phases

\* A step of globalInit keeps what each phase of the manager's life implies.
LEMMA InitStepPhases ==
  ASSUME TypeOK, Phases, Joined, globalInit
  PROVE  Phases' /\ Joined'
<1> USE DEF socket, epoll, loop, manager, lists, stop, rounds
<1>0. /\ UNCHANGED <<mpc, scan, _list, _reclaim_list, conn, registered, ready, batch, running>>
      /\ gpc \in {"start", "manager"}
  BY DEF globalInit, Schedule_init, SocketManager_init
<1>1. Untouched /\ Untouched'
  BY <1>0 DEF Phases, Untouched
<1>2. scan' \subseteq _list' /\ (mpc' # "scan" => scan' = {}) /\ mpc' = "sleep"
  BY <1>0, <1>1 DEF Phases, Untouched
<1>3. joined' \subseteq Loops
  BY InitStepType DEF TypeOK
<1>4. Joined'
  BY <1>1, <1>3 DEF Joined, Untouched
<1>5. ASSUME NEW l \in Loops, Schedule_init(l) PROVE Phases'
  <2>1. gpc' \in {"start", "manager", "crashed"} /\ (gpc' = "manager" => joined' = {} \/ joined' = Loops)
    BY <1>5 DEF Schedule_init
  <2> QED BY <1>1, <1>2, <2>1 DEF Phases
<1>6. ASSUME SocketManager_init PROVE Phases'
  <2>1. gpc = "manager" /\ joined' = joined /\ gpc' \in {"running", "refused"}
    BY <1>6 DEF SocketManager_init
  <2>2. joined = {} \/ joined = Loops
    BY <2>1 DEF Phases
  <2>3. _list' = {} /\ _reclaim_list' = {} /\ \A s \in Sockets : conn'[s] = "new"
    BY <1>1 DEF Untouched
  <2> QED BY <1>1, <1>2, <2>1, <2>2, <2>3 DEF Phases
<1> QED BY <1>4, <1>5, <1>6 DEF globalInit

\* A step of the owner of s, seen from the library.
LEMMA OwnerMoves ==
  ASSUME TypeOK, NEW s \in Sockets, owner(s)
  PROVE  /\ UNCHANGED <<loop, manager, _reclaim_list, _reclaim_notify_flag, stop, rounds>>
         /\ \A t \in Sockets \ {s} : conn'[t] = conn[t] /\ sharers'[t] = sharers[t]
         /\ conn[s] \in {"new", "waiting", "reading", "owned"} /\ conn'[s] # "new"
         /\ conn[s] = "new" => gpc = "running"
         /\ _list' = _list \/ (conn[s] = "reading" /\ _list' = _list \cup {s})
<1> USE DEF socket, epoll, loop, manager, lists, stop, rounds
<1>0. DOMAIN conn = Sockets /\ DOMAIN sharers = Sockets
  BY DEF TypeOK
<1>f. ASSUME NEW how \in {"timeout", "failed", "unscheduled"}, fail(s, how)
      PROVE  conn'[s] # "new" /\ \A t \in Sockets \ {s} : conn'[t] = conn[t] /\ sharers'[t] = sharers[t]
  BY <1>0, <1>f DEF fail
<1>r. connect_read(s) =>
        conn'[s] # "new" /\ \A t \in Sockets \ {s} : conn'[t] = conn[t] /\ sharers'[t] = sharers[t]
  BY <1>0 DEF connect_read
<1>1. CASE connect(s)
  <2>1. conn'[s] # "new" /\ \A t \in Sockets \ {s} : conn'[t] = conn[t] /\ sharers'[t] = sharers[t]
    BY <1>0, <1>f, <1>1 DEF connect
  <2> QED BY <1>1, <2>1 DEF connect
<1>2. CASE connect_timeout(s)
  BY <1>f, <1>2 DEF connect_timeout
<1>3. CASE connect_woken(s)
  BY <1>f, <1>r, <1>3 DEF connect_woken
<1>4. CASE addWatch(s)
  BY <1>0, <1>4 DEF addWatch
<1>5. CASE surrender(s)
  BY <1>0, <1>5 DEF surrender
<1> QED BY <1>1, <1>2, <1>3, <1>4, <1>5 DEF owner

\* A step of a connection's owner keeps what each phase of the manager's life implies.
LEMMA OwnerPhases ==
  ASSUME TypeOK, Phases, Joined, NEW s \in Sockets, owner(s), Owner(s)
  PROVE  Phases' /\ Joined'
<1>0. /\ UNCHANGED <<batch, running, mpc, scan, _reclaim_list, gpc, joined>>
      /\ \A t \in Sockets \ {s} : conn'[t] = conn[t]
      /\ conn[s] \in {"new", "waiting", "reading", "owned"}
      /\ conn[s] = "new" => gpc = "running"
      /\ _list' = _list \/ (conn[s] = "reading" /\ _list' = _list \cup {s})
  BY OwnerMoves DEF loop, manager, stop
<1>1. Joined'
  BY <1>0 DEF Joined
<1>2. gpc \notin {"start", "manager", "refused", "crashed"}
  BY <1>0 DEF Phases, Untouched
<1>3. ASSUME gpc = "running", joined = Loops
      PROVE  conn[s] = "new" /\ conn'[s] \in {"failed", "unscheduled"}
  <2>1. conn[s] = "new"
    BY <1>0, <1>3 DEF Phases
  <2>2. connect(s)
    BY <2>1 DEF owner, connect_timeout, connect_woken, addWatch, surrender
  <2>3. DOMAIN conn = Sockets
    BY DEF TypeOK
  <2> QED BY <1>3, <2>1, <2>2, <2>3 DEF connect, fail, Stopped
<1>4. gpc = "destroyed" => _list' = _list
  BY <1>0 DEF Owner
<1> QED BY <1>0, <1>1, <1>2, <1>3, <1>4 DEF Phases

\* A step of an event-loop thread keeps what each phase of the manager's life implies.
LEMMA LoopPhases ==
  ASSUME TypeOK, Phases, Joined, NEW l \in Loops, loopThread(l)
  PROVE  Phases' /\ Joined'
<1>0. /\ l \notin joined /\ ~Untouched
      /\ UNCHANGED <<conn, mpc, scan, _list, _reclaim_list, gpc, joined>>
      /\ \A m \in Loops \ {l} : batch'[m] = batch[m] /\ running'[m] = running[m]
  BY LoopRuns DEF manager, lists, stop
<1>1. Joined'
  BY <1>0 DEF Joined, TypeOK
<1> QED BY <1>0, <1>1 DEF Phases

\* The arrival of an event keeps what each phase of the manager's life implies.
LEMMA ArrivePhases ==
  ASSUME TypeOK, Phases, Joined, NEW l \in Loops, NEW h \in Handlers, arrive(l, h)
  PROVE  Phases' /\ Joined'
<1>0. /\ h \in registered[l]
      /\ UNCHANGED <<conn, batch, running, mpc, scan, _list, _reclaim_list, gpc, joined>>
  BY DEF arrive, socket, loop, manager, lists, stop
<1>1. ~Untouched
  BY <1>0 DEF Untouched
<1> QED BY <1>0, <1>1 DEF Phases, Joined

\* The manager's thread works while the library is in service or is shut down.
LEMMA WatchServes ==
  ASSUME TypeOK, Phases, watchConnections
  PROVE  /\ gpc \in {"running", "stopping", "stopped", "exit"}
         /\ UNCHANGED <<conn, on_connection, woken, loop, stop>>
<1>1. /\ mpc # "sleep" \/ gpc \in {"running", "stopping", "stopped"}
      /\ UNCHANGED <<conn, on_connection, woken, loop, stop>>
  BY DEF watchConnections, watch_begin, watch_tryExclusive, watch_reclaim, watch_addSchedule,
     watch_acknowledged, watch_timeout, socket, stop, loop
<1>2. gpc \in {"start", "manager", "refused", "crashed", "running", "stopping", "stopped", "exit",
               "destroyed"}
  BY DEF TypeOK
<1> QED BY <1>1, <1>2 DEF Phases, Untouched

\* A step of watchConnections keeps what each phase of the manager's life implies.
LEMMA WatchPhases ==
  ASSUME TypeOK, Phases, Joined, watchConnections
  PROVE  Phases' /\ Joined'
<1> USE DEF socket, manager, lists
<1>0. /\ gpc \in {"running", "stopping", "stopped", "exit"}
      /\ UNCHANGED <<conn, batch, running, gpc, joined>>
  BY WatchServes DEF loop, stop
<1>1. Joined'
  BY <1>0 DEF Joined
<1>2. ASSUME /\ gpc = "running" /\ joined = Loops => _list' = {} /\ _reclaim_list' = {}
             /\ mpc' = "crashed" => gpc \in {"stopped", "exit"}
             /\ mpc' # "scan" => scan' = {}
             /\ scan' \subseteq _list'
      PROVE  Phases'
  BY <1>0, <1>2 DEF Phases
<1>p. /\ gpc = "running" /\ joined = Loops => _list = {} /\ _reclaim_list = {}
      /\ mpc # "scan" => scan = {}
      /\ scan \subseteq _list
  BY DEF Phases
<1>3. CASE watch_begin
  BY <1>1, <1>2, <1>3, <1>p DEF watch_begin
<1>4. ASSUME NEW s \in Sockets, watch_tryExclusive(s) PROVE Phases'
  <2>1. /\ mpc = "scan" /\ mpc' = mpc /\ s \in scan /\ scan' = scan \ {s}
        /\ _list' = _list \/ _list' = _list \ {s}
    BY <1>4 DEF watch_tryExclusive
  <2>2. ~(gpc = "running" /\ joined = Loops)
    BY <2>1 DEF Phases
  <2> QED BY <1>2, <2>1, <2>2 DEF Phases
<1>5. CASE watch_reclaim
  <2>1. /\ mpc = "scan" /\ scan = {} /\ UNCHANGED <<scan, _list, _reclaim_list>>
        /\ mpc' \in {"sleep", "clear", "crashed"}
        /\ mpc' = "crashed" => _reclaim_list # {} /\ joined = Loops
    BY <1>5 DEF watch_reclaim, Stopped
  <2>2. mpc' = "crashed" => gpc \in {"stopped", "exit"}
    BY <1>0, <2>1 DEF Phases
  <2> QED BY <1>1, <1>2, <1>p, <2>1, <2>2
<1>6. CASE watch_addSchedule
  BY <1>1, <1>2, <1>p, <1>6 DEF watch_addSchedule
<1>7. CASE watch_acknowledged
  BY <1>1, <1>2, <1>p, <1>7 DEF watch_acknowledged
<1>8. CASE watch_timeout
  BY <1>1, <1>2, <1>p, <1>8 DEF watch_timeout
<1> QED BY <1>1, <1>3, <1>4, <1>5, <1>6, <1>7, <1>8 DEF watchConnections

\* A step of globalDestroy or of the statics' destruction keeps what each phase of the manager's life implies.
LEMMA DestroyPhases ==
  ASSUME TypeOK, Phases, Joined, globalDestroy \/ destruction
  PROVE  Phases' /\ Joined'
<1> USE DEF loop, manager, lists, stop
<1>0. /\ UNCHANGED <<conn, batch, running, mpc, scan>>
      /\ gpc \in {"running", "stopping", "stopped", "exit"}
  BY DEF globalDestroy, destruction, destroy_schedule, destroy_exit, destroy, socket
<1>1. CASE globalDestroy
  <2>1. /\ gpc = "running" /\ UNCHANGED <<_list, _reclaim_list, joined>>
        /\ gpc' = IF joined = Loops THEN "stopped" ELSE "stopping"
    BY <1>1 DEF globalDestroy, Stopped
  <2>2. mpc # "crashed"
    BY <2>1 DEF Phases
  <2> QED BY <1>0, <2>1, <2>2 DEF Phases, Joined
<1>2. ASSUME NEW l \in Loops, destroy_schedule(l) PROVE Phases' /\ Joined'
  <2>1. /\ gpc = "stopping" /\ UNCHANGED <<_list, _reclaim_list>>
        /\ gpc' = IF joined' = Loops THEN "stopped" ELSE "stopping"
        /\ joined' = joined \cup {l} /\ batch[l] = {} /\ running[l] = Nothing
    BY <1>2 DEF destroy_schedule
  <2>2. mpc # "crashed"
    BY <2>1 DEF Phases
  <2> QED BY <1>0, <2>1, <2>2 DEF Phases, Joined
<1>3. CASE destroy_exit
  BY <1>0, <1>3 DEF destroy_exit, Phases, Joined
<1>4. CASE destroy
  BY <1>0, <1>4 DEF destroy, Phases, Joined
<1> QED BY <1>1, <1>2, <1>3, <1>4 DEF destruction

-----------------------------------------------------------------------------
(* Owners.                                                                 *)

\* What a loop thread does to what it knows: it may drop an on_connection or an
\* on_reclaim, never an _on_read.
LEMMA LoopKeepsReads ==
  ASSUME TypeOK, NEW l \in Loops, loopThread(l), NEW m \in Loops, NEW s
  PROVE  OnRead(s) \in registered'[m] <=> OnRead(s) \in registered[m]
<1> USE DEF epoll
<1>1. CASE loop_once(l)
  BY <1>1 DEF loop_once
<1>2. ASSUME NEW h \in Handlers, loop_call(l, h)
      PROVE  OnRead(s) \in registered'[m] <=> OnRead(s) \in registered[m]
  BY <1>2 DEF loop_call
<1>3. ASSUME NEW t \in Sockets,
             on_connection_run(l, t) \/ on_connection_return(l, t) \/ on_read_run(l, t)
      PROVE  OnRead(s) \in registered'[m] <=> OnRead(s) \in registered[m]
  <2>1. CASE on_connection_run(l, t)
    BY <2>1, RemoveMoves, HandlersDiffer DEF on_connection_run
  <2> QED BY <1>3, <2>1 DEF on_connection_return, on_read_run
<1>4. ASSUME NEW i \in Loops, on_reclaim_flag(l, i) \/ on_reclaim_remove(l, i)
      PROVE  OnRead(s) \in registered'[m] <=> OnRead(s) \in registered[m]
  <2>1. CASE on_reclaim_remove(l, i)
    <3>1. ScheduleThread(_reclaim_fd, i) \in Loops
      BY LoopsFacts DEF TypeOK
    <3> QED BY <2>1, <3>1, RemoveMoves, HandlersDiffer DEF on_reclaim_remove
  <2> QED BY <1>4, <2>1 DEF on_reclaim_flag
<1> QED BY <1>1, <1>2, <1>3, <1>4 DEF loopThread

\* A step that takes nothing away from a socket keeps its owner's condition.
LEMMA OwnerKept ==
  ASSUME NEW t \in Sockets, Owner(t), conn'[t] = conn[t],
         IsExclusive(sharers[t]) => IsExclusive(sharers'[t]),
         conn[t] \in {"waiting", "reading"} => gpc' = gpc /\ joined' = joined,
         Home(t) \notin joined' =>
           Home(t) \notin joined /\ (OnRead(t) \in registered[Home(t)] => OnRead(t) \in registered'[Home(t)]),
         t \in _list' => t \in _list, t \in _reclaim_list' => t \in _reclaim_list,
         t \in on_read' => t \in on_read,
         t \in on_read' /\ t \in _list \cup _reclaim_list => t \in _list' \cup _reclaim_list',
         t \in on_connection' => t \in on_connection
  PROVE  Owner(t)'
<1>1. Home(t)' = Home(t)
  BY DEF Home, ScheduleThread
<1> QED BY <1>1 DEF Owner

\* Every owner's condition holds initially.
LEMMA InitOwner == Init => \A s \in Sockets : Owner(s)
  BY DEF Init, Owner

\* A step of globalInit keeps what each owner's place implies.
LEMMA InitStepOwner ==
  ASSUME TypeOK, Phases, globalInit, NEW t \in Sockets, Owner(t)
  PROVE  Owner(t)'
<1> USE DEF socket, epoll, loop, manager, lists, stop, rounds
<1>0. /\ UNCHANGED <<conn, sharers, on_connection, on_read, _list, _reclaim_list>>
      /\ gpc \in {"start", "manager"}
  BY DEF globalInit, Schedule_init, SocketManager_init
<1>1. conn[t] = "new" /\ _list = {} /\ _reclaim_list = {}
  BY <1>0 DEF Phases, Untouched
<1> QED BY <1>0, <1>1 DEF Owner

\* A step of an event-loop thread keeps what each owner's place implies.
LEMMA LoopOwner ==
  ASSUME TypeOK, Joined, NEW l \in Loops, loopThread(l), NEW t \in Sockets, Owner(t)
  PROVE  Owner(t)'
<1>0. UNCHANGED <<conn, sharers, on_connection, on_read, _list, _reclaim_list, gpc, joined>>
  BY LoopRuns DEF manager, lists, stop
<1>1. OnRead(t) \in registered'[Home(t)] <=> OnRead(t) \in registered[Home(t)]
  BY LoopKeepsReads, LoopsFacts
<1> QED BY <1>0, <1>1, OwnerKept

\* The arrival of an event keeps what each owner's place implies.
LEMMA ArriveOwner ==
  ASSUME NEW l \in Loops, NEW h \in Handlers, arrive(l, h), NEW t \in Sockets, Owner(t)
  PROVE  Owner(t)'
<1>0. /\ UNCHANGED <<conn, sharers, on_connection, on_read, _list, _reclaim_list, gpc, joined>>
      /\ UNCHANGED registered
  BY DEF arrive, socket, loop, manager, lists, stop
<1> QED BY <1>0, OwnerKept

\* What addSchedule does when nothing is pending on the handler.
LEMMA AddQuietly ==
  ASSUME TypeOK, NEW l \in Loops, NEW h \in Handlers, addSchedule(l, h, FALSE), NEW m \in Loops
  PROVE  ready' = ready /\ \A x : x \in registered'[m] <=> x \in registered[m] \/ (m = l /\ x = h)
<1>1. ready' = ready
  BY DEF addSchedule
<1>2. FALSE \in BOOLEAN
  OBVIOUS
<1> QED BY <1>1, <1>2, AddMoves

\* What addSchedule does when an event is already pending on the handler.
LEMMA AddReady ==
  ASSUME TypeOK, NEW l \in Loops, NEW h \in Handlers, addSchedule(l, h, TRUE), NEW m \in Loops
  PROVE  /\ \A x : x \in registered'[m] <=> x \in registered[m] \/ (m = l /\ x = h)
         /\ \A x : x \in ready'[m] <=> x \in ready[m] \/ (m = l /\ x = h)
<1>1. DOMAIN registered = Loops /\ DOMAIN ready = Loops
  BY DEF TypeOK
<1>2. /\ registered' = [registered EXCEPT ![l] = @ \cup {h}]
      /\ ready' = [ready EXCEPT ![l] = @ \cup {h}]
  BY DEF addSchedule
<1> QED BY <1>1, <1>2

\* What a step of an owner makes the loops listen to.
LEMMA OwnerListens ==
  ASSUME TypeOK, NEW s \in Sockets, owner(s), NEW m \in Loops
  PROVE  /\ ready' = ready /\ on_read \subseteq on_read'
         /\ \A x \in registered[m] : x \in registered'[m]
         /\ \A i : OnReclaim(i) \in registered'[m] => OnReclaim(i) \in registered[m]
         /\ \A x : OnRead(x) \in registered'[m] /\ OnRead(x) \notin registered[m] =>
              x = s /\ m = Home(s) /\ conn[s] = "waiting" /\ s \in on_read'
<1> USE DEF socket, epoll, loop, manager, lists, stop, rounds
<1>s. Home(s) \in Loops /\ Home(s) = ScheduleThread(s, -1)
  BY LoopsFacts DEF Home
<1>h. OnRead(s) \in Handlers /\ OnConnection(s) \in Handlers
  BY IsHandler
<1>n. CASE UNCHANGED <<registered, ready, on_read>>
  BY <1>n
<1>1. CASE connect(s)
  <2>1. CASE addSchedule(ScheduleThread(s, -1), OnConnection(s), FALSE) /\ UNCHANGED on_read
    <3>1. ready' = ready /\ \A x : x \in registered'[m] <=>
             x \in registered[m] \/ (m = Home(s) /\ x = OnConnection(s))
      <4>1. addSchedule(Home(s), OnConnection(s), FALSE)
        BY <2>1 DEF Home
      <4> QED BY <1>s, <1>h, <4>1, AddQuietly
    <3>2. \A x : OnRead(x) # OnConnection(s) /\ OnReclaim(x) # OnConnection(s)
      BY HandlersDiffer
    <3> QED BY SMT, <2>1, <3>1, <3>2
  <2>2. CASE UNCHANGED <<on_read, epoll>>
    BY <1>n, <2>2
  <2> QED BY <1>1, <2>1, <2>2 DEF connect, fail
<1>2. CASE connect_timeout(s)
  BY <1>n, <1>2 DEF connect_timeout, fail
<1>3. CASE connect_woken(s)
  <2>1. CASE connect_read(s)
    <3>1. ready' = ready /\ \A x : x \in registered'[m] <=>
             x \in registered[m] \/ (m = Home(s) /\ x = OnRead(s))
      <4>1. addSchedule(Home(s), OnRead(s), FALSE)
        BY <2>1 DEF Home, connect_read
      <4> QED BY <1>s, <1>h, <4>1, AddQuietly
    <3>2. on_read' = on_read \cup {s} /\ conn[s] = "waiting"
      BY <1>3, <2>1 DEF connect_read, connect_woken
    <3>3. \A x : (OnRead(x) = OnRead(s) => x = s) /\ OnReclaim(x) # OnRead(s)
      BY HandlersDiffer
    <3> QED BY SMT, <3>1, <3>2, <3>3
  <2>2. CASE UNCHANGED <<on_read, epoll>>
    BY <1>n, <2>2
  <2> QED BY <1>3, <2>1, <2>2 DEF connect_woken, fail
<1>4. CASE addWatch(s)
  BY <1>n, <1>4 DEF addWatch
<1>5. CASE surrender(s)
  BY <1>n, <1>5 DEF surrender
<1> QED BY <1>1, <1>2, <1>3, <1>4, <1>5 DEF owner

\* The owner's own step.
LEMMA OwnerSelf ==
  ASSUME TypeOK, Phases, NEW s \in Sockets, owner(s), Owner(s)
  PROVE  Owner(s)'
<1> USE DEF socket, epoll, loop, manager, lists, stop, rounds
<1>0. DOMAIN conn = Sockets /\ DOMAIN sharers = Sockets /\ Home(s)' = Home(s) /\ Home(s) \in Loops
  BY LoopsFacts DEF TypeOK, Home, ScheduleThread
<1>n. conn[s] \in {"new", "waiting"} => s \notin _list /\ s \notin _reclaim_list /\ s \notin on_read
  BY DEF Owner
<1>f. ASSUME NEW how \in {"timeout", "failed", "unscheduled"}, fail(s, how),
             conn[s] \in {"new", "waiting"}, UNCHANGED lists,
             s \in on_connection' => how \in {"timeout", "unscheduled"}
      PROVE  Owner(s)'
  <2>1. conn'[s] = how /\ on_read' = on_read
    BY <1>0, <1>f DEF fail
  <2> QED BY <1>n, <1>f, <2>1 DEF Owner
<1>1. CASE connect(s)
  <2>0. conn[s] = "new" /\ gpc = "running" /\ UNCHANGED <<gpc, joined, lists>> /\ s \notin on_connection
    BY <1>1 DEF connect, Owner
  <2>1. CASE fail(s, "failed") /\ UNCHANGED on_connection
    BY <1>f, <2>0, <2>1
  <2>2. CASE fail(s, "unscheduled") /\ on_connection' = on_connection \cup {s}
    BY <1>f, <2>0, <2>2
  <2>3. CASE /\ ~Stopped /\ conn' = [conn EXCEPT ![s] = "waiting"]
             /\ sharers' = [sharers EXCEPT ![s] = OnlyExclusive] /\ UNCHANGED on_read
    <3>1. conn'[s] = "waiting" /\ IsExclusive(sharers'[s])
      BY <1>0, <2>3, BitsFacts
    <3>2. joined = {}
      BY <2>0, <2>3 DEF Phases, Stopped
    <3> QED BY <1>n, <2>0, <2>3, <3>1, <3>2 DEF Owner
  <2> QED BY <1>1, <2>1, <2>2, <2>3 DEF connect
<1>2. CASE connect_timeout(s)
  BY <1>f, <1>2 DEF connect_timeout
<1>3. CASE connect_woken(s)
  <2>0. conn[s] = "waiting" /\ s \notin on_connection' /\ UNCHANGED <<gpc, joined, lists>>
    BY <1>3 DEF connect_woken
  <2>1. CASE fail(s, "failed")
    BY <1>f, <2>0, <2>1
  <2>2. CASE connect_read(s)
    <3>1. conn'[s] = "reading" /\ sharers' = sharers
      BY <1>0, <2>2 DEF connect_read
    <3>2. OnRead(s) \in registered'[Home(s)]
      <4>1. addSchedule(Home(s), OnRead(s), FALSE)
        BY <2>2 DEF Home, connect_read
      <4> QED BY <1>0, <4>1, AddQuietly, IsHandler
    <3>3. gpc = "running" /\ joined = {} /\ IsExclusive(sharers[s])
      BY <2>0 DEF Owner
    <3> QED BY <1>0, <1>n, <2>0, <3>1, <3>2, <3>3 DEF Owner
  <2> QED BY <1>3, <2>1, <2>2 DEF connect_woken
<1>4. CASE addWatch(s)
  <2>1. /\ conn[s] = "reading" /\ conn'[s] = "owned" /\ _list' = _list \cup {s}
        /\ UNCHANGED <<sharers, on_connection, on_read, registered, _reclaim_list, gpc, joined>>
    BY <1>0, <1>4 DEF addWatch
  <2> QED BY <1>0, <2>1 DEF Owner
<1>5. CASE surrender(s)
  <2>1. /\ conn[s] = "owned" /\ conn'[s] = "surrendered"
        /\ UNCHANGED <<on_connection, on_read, _list, _reclaim_list>>
    BY <1>0, <1>5 DEF surrender
  <2> QED BY <2>1 DEF Owner
<1> QED BY <1>1, <1>2, <1>3, <1>4, <1>5 DEF owner

\* A step of a connection's owner keeps what each owner's place implies.
LEMMA OwnerOwner ==
  ASSUME TypeOK, Phases, NEW s \in Sockets, owner(s), Owner(s), NEW t \in Sockets, Owner(t)
  PROVE  Owner(t)'
<1>1. CASE t = s
  BY <1>1, OwnerSelf
<1>2. CASE t # s
  <2>1. /\ conn'[t] = conn[t] /\ sharers'[t] = sharers[t]
        /\ UNCHANGED <<_reclaim_list, gpc, joined>>
        /\ _list' = _list \/ _list' = _list \cup {s}
    BY <1>2, OwnerMoves DEF stop
  <2>2. OnRead(t) \in registered[Home(t)] => OnRead(t) \in registered'[Home(t)]
    BY LoopsFacts, OwnerListens
  <2>3. (t \in on_read' => t \in on_read) /\ (t \in on_connection' => t \in on_connection)
    BY <1>2 DEF owner, connect, connect_timeout, connect_woken, connect_read, addWatch, surrender, fail
  <2> QED BY <1>2, <2>1, <2>2, <2>3, OwnerKept
<1> QED BY <1>1, <1>2

\* What the manager's thread does to what the loops know.
LEMMA WatchListens ==
  ASSUME TypeOK, watchConnections, NEW m \in Loops, NEW x, x \in registered[m], x \notin registered'[m]
  PROVE  \E s \in Sockets :
           x = OnRead(s) /\ m = Home(s) /\ watch_tryExclusive(s) /\ ~IsExclusive(sharers[s])
<1> USE DEF socket, epoll, loop, manager, lists, stop, rounds
<1>1. ASSUME NEW s \in Sockets, watch_tryExclusive(s)
      PROVE  x = OnRead(s) /\ m = Home(s) /\ ~IsExclusive(sharers[s])
  <2>1. ~IsExclusive(sharers[s]) /\ removeSchedule(ScheduleThread(s, -1), OnRead(s))
    BY <1>1 DEF watch_tryExclusive
  <2>2. Home(s) \in Loops /\ removeSchedule(Home(s), OnRead(s))
    BY <2>1, LoopsFacts DEF Home
  <2> QED BY <2>1, <2>2, RemoveMoves
<1>2. CASE watch_addSchedule
  <2>1. addSchedule(ScheduleThread(_reclaim_fd, cur_idx), OnReclaim(cur_idx), TRUE)
    BY <1>2 DEF watch_addSchedule
  <2>2. ScheduleThread(_reclaim_fd, cur_idx) \in Loops /\ OnReclaim(cur_idx) \in Handlers
    BY LoopsFacts, IsHandler DEF TypeOK
  <2>3. x \in registered'[m]
    BY <2>1, <2>2, AddMoves
  <2> QED BY <2>3
<1>3. CASE watch_begin \/ watch_reclaim \/ watch_acknowledged \/ watch_timeout
  BY <1>3 DEF watch_begin, watch_reclaim, watch_acknowledged, watch_timeout
<1> QED BY <1>1, <1>2, <1>3 DEF watchConnections

\* A step of watchConnections keeps what each owner's place implies.
LEMMA WatchOwner ==
  ASSUME TypeOK, Phases, watchConnections, NEW t \in Sockets, Owner(t)
  PROVE  Owner(t)'
<1> USE DEF socket, manager, lists
<1>0. UNCHANGED <<conn, on_connection, gpc, joined>>
  BY WatchServes DEF stop
<1>1. ASSUME NEW s \in Sockets, watch_tryExclusive(s) PROVE Owner(t)'
  <2>0. /\ sharers \in [Sockets -> Bits] /\ UNCHANGED on_read /\ s \in _list
    BY <1>1 DEF watch_tryExclusive, TypeOK, Phases
  <2>1. CASE t # s \/ IsExclusive(sharers[s])
    <3>1. IsExclusive(sharers[t]) => IsExclusive(sharers'[t])
      <4>1. CASE t # s
        BY <1>1, <2>0, <4>1 DEF watch_tryExclusive
      <4>2. CASE IsExclusive(sharers[s])
        <5>1. sharers' = [sharers EXCEPT ![s] = OrUpgraded(@)]
          BY <1>1, <4>2 DEF watch_tryExclusive
        <5>2. t = s => sharers'[t] = OrUpgraded(sharers[t])
          BY <2>0, <5>1
        <5>3. t # s => sharers'[t] = sharers[t]
          BY <2>0, <5>1
        <5> QED BY <2>0, <5>2, <5>3, BitsFacts
      <4> QED BY <2>1, <4>1, <4>2
    <3>2. OnRead(t) \in registered[Home(t)] => OnRead(t) \in registered'[Home(t)]
      <4>1. CASE t # s
        <5>1. CASE UNCHANGED epoll
          BY <5>1 DEF epoll
        <5>2. CASE removeSchedule(Home(s), OnRead(s))
          BY <4>1, <5>2, RemoveMoves, LoopsFacts, HandlersDiffer
        <5> QED BY <1>1, <5>1, <5>2 DEF watch_tryExclusive, Home
      <4>2. CASE IsExclusive(sharers[s])
        BY <1>1, <4>2 DEF watch_tryExclusive, epoll
      <4> QED BY <2>1, <4>1, <4>2
    <3>3. /\ t \in _list' => t \in _list
          /\ t \in _reclaim_list' => t \in _reclaim_list
          /\ t \in _list \cup _reclaim_list => t \in _list' \cup _reclaim_list'
      BY <1>1, <2>1 DEF watch_tryExclusive
    <3> QED BY <1>0, <2>0, <3>1, <3>2, <3>3, OwnerKept
  <2>2. CASE t = s /\ ~IsExclusive(sharers[s])
    <3>1. conn[s] = "surrendered"
      BY <2>0, <2>2 DEF Owner
    <3>2. s \notin _list' /\ s \in _reclaim_list'
      BY <1>1, <2>2 DEF watch_tryExclusive
    <3> QED BY <1>0, <2>0, <2>2, <3>1, <3>2 DEF Owner
  <2> QED BY <2>1, <2>2
<1>2. ASSUME sharers' = sharers, _list' = _list, on_read' \subseteq on_read,
             _reclaim_list' \subseteq _reclaim_list, \A s \in Sockets : ~watch_tryExclusive(s),
             t \in on_read' /\ t \in _reclaim_list => t \in _reclaim_list'
      PROVE  Owner(t)'
  <2>1. OnRead(t) \in registered[Home(t)] => OnRead(t) \in registered'[Home(t)]
    BY <1>2, WatchListens, LoopsFacts
  <2> QED BY <1>0, <1>2, <2>1, OwnerKept
<1>3. CASE \E s \in Sockets : watch_tryExclusive(s)
  BY <1>1, <1>3
<1>4. CASE ~\E s \in Sockets : watch_tryExclusive(s)
  <2>1. /\ sharers' = sharers /\ _list' = _list /\ on_read' \subseteq on_read
        /\ _reclaim_list' \subseteq _reclaim_list
        /\ t \in on_read' /\ t \in _reclaim_list => t \in _reclaim_list'
    BY <1>4 DEF watchConnections, watch_begin, watch_reclaim, watch_addSchedule, watch_acknowledged,
       watch_timeout
  <2> QED BY <1>2, <1>4, <2>1
<1> QED BY <1>3, <1>4

\* A step of globalDestroy or of the statics' destruction keeps what each owner's place implies.
LEMMA DestroyOwner ==
  ASSUME TypeOK, globalDestroy \/ destruction, NEW t \in Sockets, Owner(t)
  PROVE  Owner(t)'
<1> USE DEF socket, epoll, loop, manager, lists, stop
<1>1. CASE globalDestroy
  BY <1>1, OwnerKept DEF globalDestroy
<1>2. ASSUME NEW l \in Loops, destroy_schedule(l) PROVE Owner(t)'
  <2>1. /\ gpc = "stopping" /\ joined' = joined \cup {l}
        /\ UNCHANGED <<conn, sharers, on_connection, on_read, _list, _reclaim_list>>
        /\ registered' = [registered EXCEPT ![l] = {}]
    BY <1>2 DEF destroy_schedule
  <2>2. conn[t] \notin {"waiting", "reading"}
    BY <2>1 DEF Owner
  <2>3. Home(t) # l => registered'[Home(t)] = registered[Home(t)]
    BY <2>1, LoopsFacts DEF TypeOK
  <2> QED BY <2>1, <2>2, <2>3, OwnerKept
<1>3. CASE destroy_exit
  <2>1. conn[t] \notin {"waiting", "reading"}
    BY <1>3 DEF destroy_exit, Owner
  <2> QED BY <1>3, <2>1, OwnerKept DEF destroy_exit
<1>4. CASE destroy
  <2>1. gpc = "exit" /\ UNCHANGED <<conn, on_connection, registered, joined>>
        /\ _list' = {} /\ _reclaim_list' = {} /\ on_read' = on_read \ (_list \cup _reclaim_list)
    BY <1>4 DEF destroy
  <2>2. conn[t] \notin {"waiting", "reading"}
    BY <2>1 DEF Owner
  <2>3. IsExclusive(sharers[t]) => IsExclusive(sharers'[t])
    <3>1. sharers[t] \in Bits
      BY DEF TypeOK
    <3>2. IsExclusive(sharers[t]) => sharers'[t] \in {OrUpgraded(sharers[t]), sharers[t]}
      BY <1>4 DEF destroy
    <3> QED BY <3>1, <3>2, BitsFacts
  <2> QED BY <2>1, <2>2, <2>3, OwnerKept
<1> QED BY <1>1, <1>2, <1>3, <1>4 DEF destruction

-----------------------------------------------------------------------------
(* Loops.                                                                  *)

\* What a loop thread has in hand after a step it had before, or epoll_wait has
\* just reported it.
LEMMA LoopCalls ==
  ASSUME TypeOK, NEW l \in Loops, loopThread(l), NEW x \in Handlers, x \in Calls(l)'
  PROVE  x \in batch[l] \/ (loop_once(l) /\ x \in ready[l])
<1>0. DOMAIN batch = Loops /\ DOMAIN running = Loops
  BY DEF TypeOK
<1>d. \A i : x # Flagged(i) /\ x # Woke(i) /\ x # Nothing
  <2>1. \/ \E s : x = OnConnection(s)
        \/ \E s : x = OnRead(s)
        \/ \E s : x = OnReclaim(s)
    BY DEF Handlers
  <2>2. \A s, i : /\ OnConnection(s) # Flagged(i) /\ OnRead(s) # Flagged(i) /\ OnReclaim(s) # Flagged(i)
                  /\ OnConnection(s) # Woke(i) /\ OnRead(s) # Woke(i) /\ OnReclaim(s) # Woke(i)
                  /\ OnConnection(s) # Nothing /\ OnRead(s) # Nothing /\ OnReclaim(s) # Nothing
    BY HandlersDiffer
  <2> QED BY <2>1, <2>2
<1>1. CASE loop_once(l)
  BY <1>0, <1>d, <1>1 DEF loop_once, Calls
<1>2. ASSUME NEW h \in Handlers, loop_call(l, h) PROVE x \in batch[l]
  BY <1>0, <1>2 DEF loop_call, Calls
<1>3. ASSUME NEW s \in Sockets,
             on_connection_run(l, s) \/ on_connection_return(l, s) \/ on_read_run(l, s)
      PROVE  x \in batch[l]
  BY <1>0, <1>d, <1>3 DEF on_connection_run, on_connection_return, on_read_run, Calls
<1>4. ASSUME NEW i \in Loops, on_reclaim_flag(l, i) \/ on_reclaim_remove(l, i)
      PROVE  x \in batch[l]
  BY <1>0, <1>d, <1>4 DEF on_reclaim_flag, on_reclaim_remove, Calls
<1> QED BY <1>1, <1>2, <1>3, <1>4 DEF loopThread

\* What is withdrawn from a loop is withdrawn as a whole.
LEMMA LoopReady ==
  ASSUME TypeOK, NEW l \in Loops, loopThread(l), NEW m \in Loops
  PROVE  /\ ready'[m] \subseteq ready[m]
         /\ ready[m] \subseteq registered[m] => ready'[m] \subseteq registered'[m]
<1> USE DEF epoll
<1>0. DOMAIN ready = Loops
  BY DEF TypeOK
<1>1. CASE loop_once(l)
  BY <1>0, <1>1 DEF loop_once
<1>2. CASE UNCHANGED epoll
  BY <1>2
<1>3. ASSUME NEW k \in Loops, NEW h, removeSchedule(k, h)
      PROVE  /\ ready'[m] \subseteq ready[m]
             /\ ready[m] \subseteq registered[m] => ready'[m] \subseteq registered'[m]
  <2>1. /\ \A x : x \in registered'[m] <=> x \in registered[m] /\ ~(m = k /\ x = h)
        /\ \A x : x \in ready'[m] <=> x \in ready[m] /\ ~(m = k /\ x = h)
    BY <1>3, RemoveMoves
  <2> QED BY SMT, <2>1
<1>4. ASSUME NEW s \in Sockets, on_connection_run(l, s)
      PROVE  /\ ready'[m] \subseteq ready[m]
             /\ ready[m] \subseteq registered[m] => ready'[m] \subseteq registered'[m]
  BY <1>3, <1>4 DEF on_connection_run
<1>5. ASSUME NEW i \in Loops, on_reclaim_remove(l, i)
      PROVE  /\ ready'[m] \subseteq ready[m]
             /\ ready[m] \subseteq registered[m] => ready'[m] \subseteq registered'[m]
  <2>1. ScheduleThread(_reclaim_fd, i) \in Loops
    BY LoopsFacts DEF TypeOK
  <2> QED BY <1>3, <1>5, <2>1 DEF on_reclaim_remove
<1>6. \/ loop_once(l) \/ UNCHANGED epoll \/ (\E s \in Sockets : on_connection_run(l, s))
      \/ \E i \in Loops : on_reclaim_remove(l, i)
  BY DEF loopThread, loop_call, on_connection_return, on_read_run, on_reclaim_flag
<1> QED BY <1>1, <1>2, <1>4, <1>5, <1>6

\* A loop that knows and has in hand nothing more than before.
LEMMA ListensKept ==
  ASSUME NEW l \in Loops, Listens(l), ready'[l] \subseteq registered'[l],
         \A s \in Sockets : OnRead(s) \in registered'[l] \cup Calls(l)' =>
           OnRead(s) \in registered[l] \cup Calls(l),
         \A s \in Sockets : OnRead(s) \in registered'[l] => OnRead(s) \in registered[l],
         _reclaim_list' \subseteq _reclaim_list, _reclaim_list \subseteq Sockets
  PROVE  Listens(l)'
<1>1. \A s \in Sockets : Home(s)' = Home(s)
  BY DEF Home, ScheduleThread
<1> QED BY <1>1 DEF Listens

\* A step of an event-loop thread keeps what a loop listens to.
LEMMA LoopListens ==
  ASSUME TypeOK, Joined, NEW l \in Loops, loopThread(l), NEW m \in Loops, Listens(m)
  PROVE  Listens(m)'
<1>0. /\ _reclaim_list' = _reclaim_list /\ _reclaim_list \subseteq Sockets
      /\ m # l => batch'[m] = batch[m] /\ running'[m] = running[m]
  BY LoopRuns DEF lists, TypeOK
<1>1. ready'[m] \subseteq registered'[m] /\ ready[m] \subseteq registered[m]
  BY LoopReady DEF Listens
<1>2. \A s \in Sockets : OnRead(s) \in registered'[m] <=> OnRead(s) \in registered[m]
  BY LoopKeepsReads
<1>3. \A s \in Sockets : OnRead(s) \in Calls(m)' => OnRead(s) \in ready[m] \cup Calls(m)
  <2>1. CASE m = l
    BY <2>1, LoopCalls, IsHandler DEF Calls
  <2>2. CASE m # l
    BY <1>0, <2>2 DEF Calls
  <2> QED BY <2>1, <2>2
<1> QED BY <1>0, <1>1, <1>2, <1>3, ListensKept

\* The arrival of an event keeps what a loop listens to.
LEMMA ArriveListens ==
  ASSUME TypeOK, NEW l \in Loops, NEW h \in Handlers, arrive(l, h), NEW m \in Loops, Listens(m)
  PROVE  Listens(m)'
<1>1. /\ UNCHANGED <<registered, batch, running, _reclaim_list>> /\ h \in registered[l]
      /\ ready' = [ready EXCEPT ![l] = @ \cup {h}] /\ _reclaim_list \subseteq Sockets
  BY DEF arrive, loop, lists, TypeOK
<1>2. ready'[m] \subseteq registered'[m]
  BY <1>1 DEF Listens, TypeOK
<1> QED BY <1>1, <1>2, ListensKept DEF Calls

\* A step of a connection's owner keeps what a loop listens to.
LEMMA OwnerLoops ==
  ASSUME TypeOK, NEW s \in Sockets, owner(s), Owner(s), NEW m \in Loops, Listens(m)
  PROVE  Listens(m)'
<1>1. UNCHANGED <<batch, running, _reclaim_list>> /\ _reclaim_list \subseteq Sockets
  BY OwnerMoves DEF loop, TypeOK
<1>2. /\ ready' = ready /\ (\A x \in registered[m] : x \in registered'[m])
      /\ \A x : OnRead(x) \in registered'[m] /\ OnRead(x) \notin registered[m] =>
           x = s /\ m = Home(s) /\ conn[s] = "waiting"
  BY OwnerListens
<1>3. conn[s] = "waiting" => s \notin _reclaim_list
  BY DEF Owner
<1>4. \A t \in Sockets : Home(t)' = Home(t)
  BY DEF Home, ScheduleThread
<1>5. ready'[m] \subseteq registered'[m]
  BY <1>2 DEF Listens
<1>6. ASSUME NEW t \in Sockets, OnRead(t) \in registered'[m] \cup Calls(m)' PROVE m = Home(t)
  <2>1. CASE OnRead(t) \in registered[m] \cup Calls(m)
    BY <2>1 DEF Listens
  <2>2. CASE OnRead(t) \notin registered[m] \cup Calls(m)
    BY <1>1, <1>2, <1>6, <2>2 DEF Calls
  <2> QED BY <2>1, <2>2
<1>7. ASSUME NEW t \in _reclaim_list PROVE OnRead(t) \notin registered'[m]
  <2>1. OnRead(t) \notin registered[m]
    BY <1>7 DEF Listens
  <2> QED BY SMT, <1>2, <1>3, <1>7, <2>1
<1> QED BY <1>1, <1>4, <1>5, <1>6, <1>7 DEF Listens

\* A step of globalInit starts loops that listen to nothing and owe no acknowledgement.
LEMMA InitStepListens ==
  ASSUME TypeOK, Phases, globalInit, NEW m \in Loops
  PROVE  Listens(m)' /\ Prompt(m)'
<1> USE DEF socket, epoll, loop, manager, lists, stop, rounds
<1>0. /\ UNCHANGED <<mpc, _list, _reclaim_list, registered, ready, batch, running>>
      /\ gpc \in {"start", "manager"}
  BY DEF globalInit, Schedule_init, SocketManager_init
<1>1. /\ mpc' = "sleep" /\ _reclaim_list' = {}
      /\ registered'[m] = {} /\ ready'[m] = {} /\ Calls(m)' = {Nothing}
      /\ batch'[m] = {} /\ running'[m] = Nothing
  BY <1>0 DEF Phases, Untouched, Calls
<1>2. \A x : OnRead(x) # Nothing /\ OnReclaim(x) # Nothing /\ Flagged(x) # Nothing
  BY HandlersDiffer
<1>3. Listens(m)'
  BY <1>1, <1>2 DEF Listens
<1>4. \A i \in Loops : ~Asked(m, i)'
  BY <1>1, <1>2 DEF Asked
<1> QED BY <1>1, <1>2, <1>3, <1>4 DEF Prompt

\* A step of watchConnections keeps what a loop listens to.
LEMMA WatchLoops ==
  ASSUME TypeOK, Phases, watchConnections, NEW m \in Loops \ joined, Listens(m)
  PROVE  Listens(m)'
<1> USE DEF socket, epoll, manager, lists
<1>0. /\ UNCHANGED <<batch, running>> /\ Calls(m)' = Calls(m) /\ _reclaim_list \subseteq Sockets
      /\ \A t \in Sockets : Home(t)' = Home(t)
  BY WatchServes DEF loop, Calls, TypeOK, Home, ScheduleThread
<1>1. CASE UNCHANGED epoll /\ _reclaim_list' \subseteq _reclaim_list
  <2>1. ready'[m] \subseteq registered'[m]
    BY <1>1 DEF Listens
  <2> QED BY <1>0, <1>1, <2>1, ListensKept
<1>2. ASSUME NEW s \in Sockets, watch_tryExclusive(s) PROVE Listens(m)'
  <2>1. CASE IsExclusive(sharers[s])
    BY <1>1, <1>2, <2>1 DEF watch_tryExclusive
  <2>2. CASE ~IsExclusive(sharers[s])
    <3>1. removeSchedule(Home(s), OnRead(s)) /\ _reclaim_list' = _reclaim_list \cup {s}
      BY <1>2, <2>2 DEF watch_tryExclusive, Stopped, Home
    <3>2. /\ \A x : x \in registered'[m] <=> x \in registered[m] /\ ~(m = Home(s) /\ x = OnRead(s))
          /\ \A x : x \in ready'[m] <=> x \in ready[m] /\ ~(m = Home(s) /\ x = OnRead(s))
      <4>1. Home(s) \in Loops /\ m \in Loops
        BY LoopsFacts
      <4> QED BY <3>1, <4>1, RemoveMoves
    <3>3. registered'[m] \subseteq registered[m] /\ OnRead(s) \notin registered'[m]
      <4>1. registered'[m] \subseteq registered[m] /\ (m = Home(s) => OnRead(s) \notin registered'[m])
        BY SMT, <3>2
      <4> QED BY <4>1 DEF Listens
    <3>4. ready'[m] \subseteq registered'[m]
      <4>1. ready[m] \subseteq registered[m]
        BY DEF Listens
      <4> QED BY SMT, <3>2, <4>1
    <3> QED BY <1>0, <3>1, <3>3, <3>4 DEF Listens
  <2> QED BY <2>1, <2>2
<1>3. CASE watch_addSchedule
  <2>1. CASE UNCHANGED epoll
    BY <1>1, <1>3, <2>1 DEF watch_addSchedule
  <2>2. CASE addSchedule(ScheduleThread(_reclaim_fd, cur_idx), OnReclaim(cur_idx), TRUE)
    <3> DEFINE l == ScheduleThread(_reclaim_fd, cur_idx)
    <3>0. l \in Loops /\ OnReclaim(cur_idx) \in Handlers
      BY LoopsFacts, IsHandler DEF TypeOK
    <3>1. /\ \A x : x \in registered'[m] <=> x \in registered[m] \/ (m = l /\ x = OnReclaim(cur_idx))
          /\ \A x : x \in ready'[m] <=> x \in ready[m] \/ (m = l /\ x = OnReclaim(cur_idx))
      BY <2>2, <3>0, AddReady
    <3>2. \A x : OnRead(x) # OnReclaim(cur_idx)
      BY HandlersDiffer
    <3> HIDE DEF l
    <3>3. /\ \A x : OnRead(x) \in registered'[m] => OnRead(x) \in registered[m]
          /\ ready[m] \subseteq registered[m] => ready'[m] \subseteq registered'[m]
      BY SMT, <3>1, <3>2
    <3>4. _reclaim_list' = _reclaim_list
      BY <1>3 DEF watch_addSchedule
    <3>5. ready'[m] \subseteq registered'[m]
      BY <3>3 DEF Listens
    <3> QED BY <1>0, <3>3, <3>4, <3>5, ListensKept
  <2> QED BY <1>3, <2>1, <2>2 DEF watch_addSchedule
<1>4. CASE watch_begin \/ watch_reclaim \/ watch_acknowledged \/ watch_timeout
  <2>1. UNCHANGED epoll /\ _reclaim_list' \subseteq _reclaim_list
    BY <1>4 DEF watch_begin, watch_reclaim, watch_acknowledged, watch_timeout
  <2> QED BY <1>1, <2>1
<1> QED BY <1>2, <1>3, <1>4 DEF watchConnections

\* A loop that the shutdown has not reached stays as it is.
LEMMA DestroyLoops ==
  ASSUME TypeOK, Phases, globalDestroy \/ destruction, NEW m \in Loops \ joined'
  PROVE  /\ m \notin joined
         /\ UNCHANGED <<batch, running, read_flag, _reclaim_list, on_read, mpc, cur_idx,
                        _reclaim_notify_flag, late, _reclaim_fd>>
         /\ registered'[m] = registered[m] /\ ready'[m] = ready[m]
<1> USE DEF socket, epoll, loop, manager, lists, stop, rounds
<1>1. CASE globalDestroy
  BY <1>1 DEF globalDestroy
<1>2. ASSUME NEW l \in Loops, destroy_schedule(l)
      PROVE  /\ m \notin joined
             /\ UNCHANGED <<batch, running, read_flag, _reclaim_list, on_read, mpc, cur_idx,
                            _reclaim_notify_flag, late, _reclaim_fd>>
             /\ registered'[m] = registered[m] /\ ready'[m] = ready[m]
  <2>1. m # l /\ m \notin joined
    BY <1>2 DEF destroy_schedule
  <2>2. DOMAIN registered = Loops /\ DOMAIN ready = Loops
    BY DEF TypeOK
  <2> QED BY <1>2, <2>1, <2>2 DEF destroy_schedule
<1>3. CASE destroy_exit
  BY <1>3 DEF destroy_exit
<1>4. CASE destroy
  <2>1. joined = Loops /\ joined' = joined
    BY <1>4 DEF destroy, Phases
  <2> QED BY <2>1
<1> QED BY <1>1, <1>2, <1>3, <1>4 DEF destruction

\* A step of globalDestroy or of the statics' destruction keeps what a loop listens to.
LEMMA DestroyListens ==
  ASSUME TypeOK, Phases, globalDestroy \/ destruction, NEW m \in Loops \ joined', Listens(m)
  PROVE  Listens(m)'
<1>1. /\ UNCHANGED <<batch, running, _reclaim_list>> /\ _reclaim_list \subseteq Sockets
      /\ registered'[m] = registered[m] /\ ready'[m] = ready[m]
  BY DestroyLoops DEF TypeOK
<1>2. ready'[m] \subseteq registered'[m]
  BY <1>1 DEF Listens
<1> QED BY <1>1, <1>2, ListensKept DEF Calls

-----------------------------------------------------------------------------
(* Acknowledgements.                                                       *)

\* A loop that has no more in hand than before.
LEMMA PromptShrinks ==
  ASSUME NEW l \in Loops, Prompt(l), UNCHANGED <<mpc, cur_idx, _reclaim_list, on_read>>,
         \A i \in Loops : _reclaim_notify_flag'[i] = _reclaim_notify_flag[i],
         \A x \in Handlers : x \in Calls(l)' => x \in Calls(l),
         \A i \in Loops : /\ OnReclaim(i) \in ready'[l] => OnReclaim(i) \in ready[l]
                          /\ OnReclaim(i) \in registered[l] => OnReclaim(i) \in registered'[l]
                          /\ OnReclaim(i) \in batch'[l] => running'[l] # OnReclaim(i)
                          /\ running'[l] = Flagged(i) => running[l] = Flagged(i),
         \A s \in Sockets : OnRead(s) \in registered'[l] => OnRead(s) \in registered[l],
         _reclaim_list \subseteq Sockets
  PROVE  Prompt(l)'
<1>0. /\ \A i \in Loops : OnReclaim(i) \in Calls(l)' => OnReclaim(i) \in Calls(l)
      /\ \A s \in Sockets : OnRead(s) \in Calls(l)' => OnRead(s) \in Calls(l)
  BY IsHandler
<1>1. ASSUME NEW i \in Loops
      PROVE  Asked(l, i)' => Asked(l, i)
  BY <1>0 DEF Asked
<1>2. ASSUME NEW i \in Loops, Asked(l, i)'
      PROVE  /\ l = i /\ mpc' = "wait" /\ cur_idx' = i /\ ~_reclaim_notify_flag'[i]
             /\ OnReclaim(i) \in registered'[l]
  <2>1. Asked(l, i)
    BY <1>1, <1>2
  <2> QED BY <2>1 DEF Prompt
<1>3. ASSUME NEW i \in Loops
      PROVE  /\ OnReclaim(i) \in ready'[l] => OnReclaim(i) \notin Calls(l)'
             /\ OnReclaim(i) \in batch'[l] => running'[l] # OnReclaim(i)
             /\ running'[l] = Flagged(i) => l = i /\ OnReclaim(i) \in registered'[l] /\ ~Asked(l, i)'
  BY <1>0, <1>1 DEF Prompt
<1>4. ASSUME \/ OnReclaim(l) \in Calls(l)'
             \/ mpc' = "wait" /\ cur_idx' = l /\ _reclaim_notify_flag'[l]
      PROVE  \A s \in _reclaim_list' : OnRead(s) \notin Calls(l)'
  <2>1. \/ OnReclaim(l) \in Calls(l)
        \/ mpc = "wait" /\ cur_idx = l /\ _reclaim_notify_flag[l]
    BY <1>0, <1>4
  <2>2. \A s \in _reclaim_list : OnRead(s) \notin Calls(l)
    BY <2>1 DEF Prompt
  <2> QED BY <1>0, <2>2
<1>5. ASSUME NEW s \in Sockets, OnRead(s) \in registered'[l] \cup Calls(l)' PROVE s \in on_read'
  BY <1>0, <1>5 DEF Prompt
<1> QED BY <1>2, <1>3, <1>4, <1>5 DEF Prompt

\* A loop that nobody asks.
LEMMA PromptIdle ==
  ASSUME NEW l \in Loops, Prompt(l), \A i \in Loops : ~Asked(l, i), mpc' # "wait",
         batch'[l] = batch[l], running'[l] = running[l],
         \A i \in Loops : /\ OnReclaim(i) \in ready'[l] => OnReclaim(i) \in ready[l]
                          /\ OnReclaim(i) \in registered[l] => OnReclaim(i) \in registered'[l],
         \A s \in Sockets : OnRead(s) \in registered'[l] \cup Calls(l) => s \in on_read'
  PROVE  Prompt(l)'
<1>0. Calls(l)' = Calls(l)
  BY DEF Calls
<1>1. \A i \in Loops : ~Asked(l, i)' /\ OnReclaim(i) \notin Calls(l) /\ OnReclaim(i) \notin ready'[l]
  BY <1>0 DEF Asked
<1>2. ASSUME NEW i \in Loops, running'[l] = Flagged(i) PROVE l = i /\ OnReclaim(i) \in registered'[l]
  BY <1>2 DEF Prompt
<1>3. \A i \in Loops : OnReclaim(i) \notin batch'[l]
  BY <1>1 DEF Calls
<1> QED BY <1>0, <1>1, <1>2, <1>3 DEF Prompt

\* The arrival of an event keeps what a loop asked for an acknowledgement has in hand.
LEMMA ArrivePrompt ==
  ASSUME TypeOK, NEW l \in Loops, NEW h \in Handlers, arrive(l, h), NEW m \in Loops, Prompt(m)
  PROVE  Prompt(m)'
<1>1. /\ UNCHANGED <<mpc, cur_idx, _reclaim_list, on_read, batch, running, registered>>
      /\ UNCHANGED _reclaim_notify_flag
      /\ h[1] # "reclaim" /\ ready' = [ready EXCEPT ![l] = @ \cup {h}]
  BY DEF arrive, loop, lists, manager, socket
<1>2. Calls(m)' = Calls(m) /\ _reclaim_list \subseteq Sockets /\ DOMAIN ready = Loops
  BY <1>1 DEF Calls, TypeOK
<1>3. \A i \in Loops : h # OnReclaim(i)
  BY <1>1, HandlersDiffer
<1>4. \A i \in Loops : OnReclaim(i) \in ready'[m] => OnReclaim(i) \in ready[m]
  BY <1>1, <1>2, <1>3
<1>5. \A i \in Loops : OnReclaim(i) \in batch'[m] => running'[m] # OnReclaim(i)
  BY <1>1 DEF Prompt
<1> QED BY <1>1, <1>2, <1>4, <1>5, PromptShrinks

\* A step of globalDestroy or of the statics' destruction keeps what a loop asked for an acknowledgement has in hand.
LEMMA DestroyPrompt ==
  ASSUME TypeOK, Phases, globalDestroy \/ destruction, NEW m \in Loops \ joined', Prompt(m)
  PROVE  Prompt(m)'
<1>1. /\ UNCHANGED <<mpc, cur_idx, _reclaim_list, on_read, batch, running>>
      /\ UNCHANGED _reclaim_notify_flag
      /\ registered'[m] = registered[m] /\ ready'[m] = ready[m]
  BY DestroyLoops
<1>2. Calls(m)' = Calls(m) /\ _reclaim_list \subseteq Sockets
  BY <1>1 DEF Calls, TypeOK
<1>3. \A i \in Loops : OnReclaim(i) \in batch'[m] => running'[m] # OnReclaim(i)
  BY <1>1 DEF Prompt
<1> QED BY <1>1, <1>2, <1>3, PromptShrinks

\* A step of a connection's owner keeps what a loop asked for an acknowledgement has in hand.
LEMMA OwnerPrompt ==
  ASSUME TypeOK, NEW s \in Sockets, owner(s), NEW m \in Loops, Prompt(m)
  PROVE  Prompt(m)'
<1>1. /\ UNCHANGED <<batch, running, mpc, cur_idx, _reclaim_list>>
      /\ UNCHANGED _reclaim_notify_flag
  BY OwnerMoves DEF loop, manager
<1>2. /\ ready' = ready /\ on_read \subseteq on_read' /\ (\A x \in registered[m] : x \in registered'[m])
      /\ \A x : OnRead(x) \in registered'[m] /\ OnRead(x) \notin registered[m] =>
           x = s /\ m = Home(s) /\ conn[s] = "waiting" /\ s \in on_read'
  BY OwnerListens
<1>3. Calls(m)' = Calls(m)
  BY <1>1 DEF Calls
<1>4. \A i \in Loops : Asked(m, i)' <=> Asked(m, i)
  BY <1>2, <1>3 DEF Asked
<1>5. ASSUME NEW t \in Sockets, OnRead(t) \in registered'[m] \cup Calls(m)' PROVE t \in on_read'
  BY <1>2, <1>3, <1>5 DEF Prompt
<1>6. \A i \in Loops : Asked(m, i)' =>
        /\ m = i /\ mpc' = "wait" /\ cur_idx' = i /\ ~_reclaim_notify_flag'[i]
        /\ OnReclaim(i) \in registered'[m]
  BY <1>1, <1>2, <1>4 DEF Prompt
<1>7. \A i \in Loops :
        /\ OnReclaim(i) \in ready'[m] => OnReclaim(i) \notin Calls(m)'
        /\ OnReclaim(i) \in batch'[m] => running'[m] # OnReclaim(i)
        /\ running'[m] = Flagged(i) => m = i /\ OnReclaim(i) \in registered'[m] /\ ~Asked(m, i)'
  BY <1>1, <1>2, <1>3, <1>4 DEF Prompt
<1>8. \/ OnReclaim(m) \in Calls(m)'
      \/ mpc' = "wait" /\ cur_idx' = m /\ _reclaim_notify_flag'[m]
      => \A t \in _reclaim_list' : OnRead(t) \notin Calls(m)'
  BY <1>1, <1>3 DEF Prompt
<1> QED BY <1>5, <1>6, <1>7, <1>8 DEF Prompt

\* A step of a loop thread that is not about on_reclaim, and the one that fetches events.
LEMMA OtherPrompt ==
  ASSUME TypeOK, Joined, NEW l \in Loops, loopThread(l), NEW m \in Loops, Prompt(m), Listens(m),
         \A i \in Loops : _reclaim_notify_flag'[i] = _reclaim_notify_flag[i],
         ~loop_once(l),
         \A i \in Loops : OnReclaim(i) \in registered[m] => OnReclaim(i) \in registered'[m],
         m = l => /\ \A i \in Loops : OnReclaim(i) \in batch'[m] => running'[m] # OnReclaim(i)
                  /\ \A i \in Loops : running'[m] # Flagged(i)
  PROVE  Prompt(m)'
<1>1. /\ UNCHANGED <<mpc, cur_idx, _reclaim_list, on_read>> /\ _reclaim_list \subseteq Sockets
      /\ m # l => batch'[m] = batch[m] /\ running'[m] = running[m]
  BY LoopRuns DEF manager, lists, TypeOK
<1>2. \A x \in Handlers : x \in Calls(m)' => x \in Calls(m)
  <2>1. CASE m = l
    BY <2>1, LoopCalls DEF Calls
  <2>2. CASE m # l
    BY <1>1, <2>2 DEF Calls
  <2> QED BY <2>1, <2>2
<1>3. /\ \A s \in Sockets : OnRead(s) \in registered'[m] => OnRead(s) \in registered[m]
      /\ \A i \in Loops : OnReclaim(i) \in ready'[m] => OnReclaim(i) \in ready[m]
  BY LoopKeepsReads, LoopReady
<1>4. \A i \in Loops : /\ OnReclaim(i) \in batch'[m] => running'[m] # OnReclaim(i)
                       /\ running'[m] = Flagged(i) => running[m] = Flagged(i)
  <2>1. CASE m = l
    BY <2>1
  <2>2. CASE m # l
    BY <1>1, <2>2 DEF Prompt
  <2> QED BY <2>1, <2>2
<1> QED BY <1>1, <1>2, <1>3, <1>4, PromptShrinks

\* One pass of loop_once keeps what a loop asked for an acknowledgement has in hand.
LEMMA OncePrompt ==
  ASSUME TypeOK, NEW l \in Loops, loop_once(l), NEW m \in Loops, Prompt(m), Listens(m)
  PROVE  Prompt(m)'
<1>1. /\ UNCHANGED <<mpc, cur_idx, _reclaim_list, on_read, registered, running>>
      /\ UNCHANGED _reclaim_notify_flag
      /\ batch[l] = {} /\ running[l] = Nothing
      /\ batch' = [batch EXCEPT ![l] = ready[l]] /\ ready' = [ready EXCEPT ![l] = {}]
      /\ DOMAIN batch = Loops /\ DOMAIN ready = Loops /\ _reclaim_list \subseteq Sockets
  BY DEF loop_once, manager, lists, socket, TypeOK
<1>2. CASE m # l
  <2>1. batch'[m] = batch[m] /\ ready'[m] = ready[m] /\ Calls(m)' = Calls(m)
    BY <1>1, <1>2 DEF Calls
  <2>2. \A i \in Loops : OnReclaim(i) \in batch'[m] => running'[m] # OnReclaim(i)
    BY <1>1, <2>1 DEF Prompt
  <2> QED BY <1>1, <2>1, <2>2, PromptShrinks
<1>3. CASE m = l
  <2>1. /\ batch'[m] = ready[m] /\ ready'[m] = {} /\ running'[m] = Nothing
        /\ Calls(m)' = ready[m] \cup {Nothing}
    BY <1>1, <1>3 DEF Calls
  <2>2. \A i : OnReclaim(i) # Nothing /\ OnRead(i) # Nothing /\ Flagged(i) # Nothing
    BY HandlersDiffer
  <2>3. \A i \in Loops : Asked(m, i)' => Asked(m, i)
    BY <2>1, <2>2 DEF Asked
  <2>4. \A i \in Loops : Asked(m, i)' =>
          /\ m = i /\ mpc' = "wait" /\ cur_idx' = i /\ ~_reclaim_notify_flag'[i]
          /\ OnReclaim(i) \in registered'[m]
    BY <1>1, <2>3 DEF Prompt
  <2>5. \A s \in _reclaim_list' : OnRead(s) \notin Calls(m)'
    BY <1>1, <2>1, <2>2 DEF Listens
  <2>6. \A s \in Sockets : OnRead(s) \in registered'[m] \cup Calls(m)' => s \in on_read'
    BY <1>1, <2>1, <2>2 DEF Listens, Prompt
  <2> QED BY <2>1, <2>2, <2>4, <2>5, <2>6 DEF Prompt
<1> QED BY <1>2, <1>3

\* _on_reclaim sets its flag: it was asked, and has no event of a socket to be reclaimed in hand.
LEMMA FlagPrompt ==
  ASSUME TypeOK, Joined, NEW l \in Loops \ joined, NEW i \in Loops, on_reclaim_flag(l, i), Prompt(l),
         NEW m \in Loops, Prompt(m)
  PROVE  Prompt(m)'
<1>1. /\ UNCHANGED <<mpc, cur_idx, _reclaim_list, on_read, registered, ready, batch>>
      /\ running[l] = OnReclaim(i) /\ running' = [running EXCEPT ![l] = Flagged(i)]
      /\ DOMAIN running = Loops /\ _reclaim_list \subseteq Sockets
  BY DEF on_reclaim_flag, manager, lists, socket, epoll, TypeOK
<1>2. OnReclaim(i) \in Calls(l) /\ Asked(l, i)
  BY <1>1 DEF Asked, Calls
<1>3. l = i /\ mpc = "wait" /\ cur_idx = i /\ OnReclaim(i) \in registered[l]
  BY <1>2 DEF Prompt
<1>4. OnReclaim(i) \notin ready[l] /\ OnReclaim(i) \notin batch[l]
  BY <1>1, <1>2 DEF Prompt
<1>5. \A k : Flagged(k) # OnReclaim(k) /\ (\A j : Flagged(k) # OnReclaim(j) /\ OnRead(j) # Flagged(k))
  BY HandlersDiffer
<1>6. CASE m # l
  <2>1. running'[m] = running[m] /\ Calls(m)' = Calls(m)
    BY <1>1, <1>6 DEF Calls
  <2>2. \A j \in Loops : ~Asked(m, j)
    BY <1>3, <1>6 DEF Prompt
  <2>3. \A j \in Loops : ~Asked(m, j)' /\ OnReclaim(j) \notin Calls(m)' /\ OnReclaim(j) \notin ready'[m]
    BY <1>1, <2>1, <2>2 DEF Asked
  <2>4. cur_idx' # m
    BY <1>1, <1>3, <1>6
  <2>5. \A s \in Sockets : OnRead(s) \in registered'[m] \cup Calls(m)' => s \in on_read'
    BY <1>1, <2>1 DEF Prompt
  <2>6. \A j \in Loops :
          /\ OnReclaim(j) \in batch'[m] => running'[m] # OnReclaim(j)
          /\ running'[m] = Flagged(j) => m = j /\ OnReclaim(j) \in registered'[m]
    BY <1>1, <2>1 DEF Prompt
  <2> QED BY <2>3, <2>4, <2>5, <2>6 DEF Prompt
<1>7. CASE m = l
  <2>1. running'[m] = Flagged(i) /\ Calls(m)' = batch[m] \cup {Flagged(i)} /\ m = i
    BY <1>1, <1>3, <1>7 DEF Calls
  <2>2. \A j \in Loops : j # i => ~Asked(m, j)
    BY <1>3, <1>7 DEF Prompt
  <2>3. ASSUME NEW j \in Loops
        PROVE  ~Asked(m, j)' /\ OnReclaim(j) \notin Calls(m)' /\ OnReclaim(j) \notin ready'[m]
    <3>1. CASE j = i
      BY <1>1, <1>4, <1>5, <1>7, <2>1, <3>1 DEF Asked
    <3>2. CASE j # i
      BY <1>1, <1>5, <2>1, <2>2, <3>2 DEF Asked, Calls
    <3> QED BY <3>1, <3>2
  <2>4. \A x : x \in Calls(m)' => x \in Calls(m) \/ x = Flagged(i)
    BY <2>1 DEF Calls
  <2>5. \A s \in Sockets : OnRead(s) \in registered'[m] \cup Calls(m)' => s \in on_read'
    BY <1>1, <1>5, <2>4 DEF Prompt
  <2>6. \A s \in _reclaim_list' : OnRead(s) \notin Calls(m)'
    BY <1>1, <1>2, <1>3, <1>5, <1>7, <2>4 DEF Prompt
  <2>7. \A j \in Loops :
          /\ running'[m] # OnReclaim(j)
          /\ running'[m] = Flagged(j) => m = j /\ OnReclaim(j) \in registered'[m]
    <3>1. \A j : Flagged(i) = Flagged(j) => i = j
      BY HandlersDiffer
    <3> QED BY <1>1, <1>3, <1>5, <2>1, <3>1
  <2> QED BY <2>3, <2>5, <2>6, <2>7 DEF Prompt
<1> QED BY <1>6, <1>7

\* _on_reclaim has answered, and takes the pipe from its own loop.
LEMMA RemovePrompt ==
  ASSUME TypeOK, Joined, PipeOnLoop0, NEW l \in Loops \ joined, NEW i \in Loops,
         on_reclaim_remove(l, i), Prompt(l), NEW m \in Loops, Prompt(m)
  PROVE  Prompt(m)'
<1>1. /\ UNCHANGED <<mpc, cur_idx, _reclaim_list, on_read, batch>> /\ UNCHANGED _reclaim_notify_flag
      /\ running[l] = Flagged(i) /\ running' = [running EXCEPT ![l] = Nothing]
      /\ DOMAIN running = Loops /\ _reclaim_list \subseteq Sockets
  BY DEF on_reclaim_remove, manager, lists, socket, TypeOK
<1>2. removeSchedule(i, OnReclaim(i))
  BY AsksLoop DEF on_reclaim_remove
<1>3. l = i /\ ~Asked(l, i)
  BY <1>1 DEF Prompt
<1>4. /\ \A x : x \in registered'[m] <=> x \in registered[m] /\ ~(m = i /\ x = OnReclaim(i))
      /\ \A x : x \in ready'[m] <=> x \in ready[m] /\ ~(m = i /\ x = OnReclaim(i))
  BY <1>2, RemoveMoves
<1>5. \A s : OnRead(s) \in registered'[m] => OnRead(s) \in registered[m]
  BY SMT, <1>4
<1>6. \A j \in Loops : OnReclaim(j) \in ready'[m] => OnReclaim(j) \in ready[m]
  BY SMT, <1>4
<1>n. \A j : Nothing # OnReclaim(j) /\ Nothing # Flagged(j) /\ OnRead(j) # Nothing
  BY HandlersDiffer
<1>7. CASE m # l
  <2>1. running'[m] = running[m] /\ Calls(m)' = Calls(m)
    BY <1>1, <1>7 DEF Calls
  <2>2. \A j \in Loops : OnReclaim(j) \in registered[m] => OnReclaim(j) \in registered'[m]
    BY <1>3, <1>4, <1>7
  <2>3. \A j \in Loops : OnReclaim(j) \in batch'[m] => running'[m] # OnReclaim(j)
    BY <1>1, <2>1 DEF Prompt
  <2> QED BY <1>1, <1>5, <1>6, <2>1, <2>2, <2>3, PromptShrinks
<1>8. CASE m = l
  <2>1. running'[m] = Nothing /\ Calls(m)' = batch[m] \cup {Nothing}
    BY <1>1, <1>8 DEF Calls
  <2>2. \A j \in Loops : ~Asked(m, j)
    BY <1>3, <1>8 DEF Prompt
  <2>3. \A j \in Loops : ~Asked(m, j)' /\ OnReclaim(j) \notin Calls(m)' /\ OnReclaim(j) \notin ready'[m]
    <3>1. \A j \in Loops : OnReclaim(j) \notin ready[m] /\ OnReclaim(j) \notin batch[m]
      BY <2>2 DEF Asked, Calls
    <3>2. \A j \in Loops : OnReclaim(j) \notin ready'[m] /\ OnReclaim(j) \notin Calls(m)'
      BY <1>6, <1>n, <2>1, <3>1
    <3> QED BY <3>2 DEF Asked
  <2>4. \A x : x \in Calls(m)' => x \in Calls(m) \/ x = Nothing
    BY <2>1 DEF Calls
  <2>5. \A s \in Sockets : OnRead(s) \in registered'[m] \cup Calls(m)' => s \in on_read'
    BY <1>1, <1>5, <1>n, <2>4 DEF Prompt
  <2>6. mpc' = "wait" /\ cur_idx' = m /\ _reclaim_notify_flag'[m] =>
          \A s \in _reclaim_list' : OnRead(s) \notin Calls(m)'
    BY <1>1, <1>n, <2>4 DEF Prompt
  <2>7. \A j \in Loops : running'[m] # OnReclaim(j) /\ running'[m] # Flagged(j)
    BY <1>n, <2>1
  <2> QED BY <2>3, <2>5, <2>6, <2>7 DEF Prompt
<1> QED BY <1>7, <1>8

\* Removing a connection's handler leaves the reclaim pipes registered.
LEMMA RemoveKeepsPipe ==
  ASSUME TypeOK, NEW l \in Loops, NEW s, removeSchedule(l, OnConnection(s)), NEW m \in Loops, NEW i,
         OnReclaim(i) \in registered[m]
  PROVE  OnReclaim(i) \in registered'[m]
<1>1. \A x : x \in registered'[m] <=> x \in registered[m] /\ ~(m = l /\ x = OnConnection(s))
  BY RemoveMoves
<1>2. OnReclaim(i) # OnConnection(s)
  BY HandlersDiffer
<1> QED BY <1>1, <1>2

\* watchConnections leaves the reclaim pipes registered.
LEMMA WatchKeepsPipe ==
  ASSUME TypeOK, watchConnections, NEW m \in Loops, NEW i, OnReclaim(i) \in registered[m]
  PROVE  OnReclaim(i) \in registered'[m]
<1>1. \A t : OnReclaim(i) # OnRead(t)
  BY HandlersDiffer
<1>2. SUFFICES ASSUME OnReclaim(i) \notin registered'[m] PROVE FALSE
  OBVIOUS
<1>3. PICK s \in Sockets : OnReclaim(i) = OnRead(s)
  BY <1>2, WatchListens
<1> QED BY <1>1, <1>3

\* A step of an event-loop thread keeps what a loop asked for an acknowledgement has in hand.
LEMMA LoopPrompt ==
  ASSUME TypeOK, Joined, PipeOnLoop0, NEW l \in Loops, loopThread(l), NEW m \in Loops \ joined,
         \A k \in Loops \ joined : Prompt(k) /\ Listens(k)
  PROVE  Prompt(m)'
<1>0. l \in Loops \ joined /\ Prompt(l) /\ Prompt(m) /\ Listens(m) /\ m \in Loops
  BY LoopRuns
<1>d. DOMAIN batch = Loops /\ DOMAIN running = Loops
  BY DEF TypeOK
<1>n. \A i, s : /\ Nothing # OnReclaim(i) /\ Nothing # Flagged(i)
                /\ Woke(s) # OnReclaim(i) /\ Woke(s) # Flagged(i)
  BY HandlersDiffer
<1>1. CASE loop_once(l)
  BY <1>0, <1>1, OncePrompt
<1>2. ASSUME NEW h \in Handlers, loop_call(l, h) PROVE Prompt(m)'
  <2>1. /\ UNCHANGED <<registered, _reclaim_notify_flag>> /\ running[l] = Nothing /\ h \in batch[l]
        /\ batch' = [batch EXCEPT ![l] = @ \ {h}] /\ running' = [running EXCEPT ![l] = h]
    BY <1>2 DEF loop_call, epoll
  <2>2. \A i : h # Flagged(i)
    <3>1. \/ \E s : h = OnConnection(s)
          \/ \E s : h = OnRead(s)
          \/ \E s : h = OnReclaim(s)
      BY DEF Handlers
    <3> QED BY <3>1, HandlersDiffer
  <2>3. ~loop_once(l)
    BY <2>1 DEF loop_once
  <2>4. m = l => /\ \A i \in Loops : OnReclaim(i) \in batch'[m] => running'[m] # OnReclaim(i)
                 /\ \A i \in Loops : running'[m] # Flagged(i)
    BY <1>d, <2>1, <2>2
  <2> QED BY <1>0, <2>1, <2>3, <2>4, OtherPrompt
<1>3. ASSUME NEW s \in Sockets,
             on_connection_run(l, s) \/ on_connection_return(l, s) \/ on_read_run(l, s)
      PROVE  Prompt(m)'
  <2>1. /\ UNCHANGED _reclaim_notify_flag /\ running[l] # Nothing
        /\ running' = [running EXCEPT ![l] = Woke(s)] \/ running' = [running EXCEPT ![l] = Nothing]
    BY <1>3, HandlersDiffer DEF on_connection_run, on_connection_return, on_read_run
  <2>2. \A i \in Loops : OnReclaim(i) \in registered[m] => OnReclaim(i) \in registered'[m]
    <3>1. CASE removeSchedule(l, OnConnection(s))
      BY <1>0, <3>1, RemoveKeepsPipe
    <3>2. CASE UNCHANGED epoll
      BY <3>2 DEF epoll
    <3> QED BY <1>3, <3>1, <3>2 DEF on_connection_run, on_connection_return, on_read_run
  <2>3. ~loop_once(l)
    BY <2>1 DEF loop_once
  <2>4. m = l => /\ \A i \in Loops : running'[m] # OnReclaim(i)
                 /\ \A i \in Loops : running'[m] # Flagged(i)
    BY <1>d, <1>n, <2>1
  <2> QED BY <1>0, <2>1, <2>2, <2>3, <2>4, OtherPrompt
<1>4. ASSUME NEW i \in Loops, on_reclaim_flag(l, i) PROVE Prompt(m)'
  BY <1>0, <1>4, FlagPrompt
<1>5. ASSUME NEW i \in Loops, on_reclaim_remove(l, i) PROVE Prompt(m)'
  BY <1>0, <1>5, RemovePrompt
<1> QED BY <1>1, <1>2, <1>3, <1>4, <1>5 DEF loopThread

\* A step of watchConnections keeps what a loop asked for an acknowledgement has in hand.
LEMMA WatchPrompt ==
  ASSUME TypeOK, Phases, PipeOnLoop0, watchConnections, late = 0, late' = 0,
         NEW m \in Loops \ joined, Prompt(m), Listens(m)
  PROVE  Prompt(m)'
<1> USE DEF socket, epoll, manager, lists
<1>0. /\ UNCHANGED <<batch, running>> /\ Calls(m)' = Calls(m) /\ _reclaim_list \subseteq Sockets
      /\ batch'[m] = batch[m] /\ running'[m] = running[m] /\ m \in Loops /\ m \notin joined
  BY WatchServes DEF loop, Calls, TypeOK
<1>q. mpc # "wait" => \A i \in Loops : ~Asked(m, i)
  BY DEF Prompt
<1>r. \A s \in Sockets : OnRead(s) \in registered[m] \cup Calls(m) => s \in on_read
  BY DEF Prompt
<1>1. CASE watch_begin \/ watch_reclaim
  <2>1. mpc # "wait" /\ mpc' # "wait" /\ UNCHANGED <<epoll, on_read>>
    BY <1>1 DEF watch_begin, watch_reclaim
  <2> QED BY <1>0, <1>q, <1>r, <2>1, PromptIdle
<1>2. ASSUME NEW s \in Sockets, watch_tryExclusive(s) PROVE Prompt(m)'
  <2>1. mpc # "wait" /\ mpc' # "wait" /\ on_read' = on_read
    BY <1>2 DEF watch_tryExclusive
  <2>2. \A i \in Loops : OnReclaim(i) \in registered[m] => OnReclaim(i) \in registered'[m]
    BY <1>0, WatchKeepsPipe
  <2>3. registered'[m] \subseteq registered[m] /\ ready'[m] \subseteq ready[m]
    <3>1. CASE UNCHANGED epoll
      BY <3>1
    <3>2. CASE removeSchedule(ScheduleThread(s, -1), OnRead(s))
      <4>1. Home(s) \in Loops /\ removeSchedule(Home(s), OnRead(s))
        BY <3>2, LoopsFacts DEF Home
      <4> QED BY <1>0, <4>1, RemoveMoves
    <3> QED BY <1>2, <3>1, <3>2 DEF watch_tryExclusive
  <2>4. \A i \in Loops : /\ OnReclaim(i) \in ready'[m] => OnReclaim(i) \in ready[m]
                         /\ OnReclaim(i) \in registered[m] => OnReclaim(i) \in registered'[m]
    BY <2>2, <2>3
  <2>5. \A t \in Sockets : OnRead(t) \in registered'[m] \cup Calls(m) => t \in on_read'
    BY <1>r, <2>1, <2>3
  <2> QED BY <1>0, <1>q, <2>1, <2>4, <2>5, PromptIdle
<1>3. CASE watch_timeout
  <2>1. ~AckPending
    BY SMT, <1>3 DEF watch_timeout
  <2>2. mpc' # "wait" /\ UNCHANGED <<epoll, on_read>>
    BY <1>3 DEF watch_timeout
  <2>3. \A i \in Loops : ~Asked(m, i)
    BY <1>0, <2>1 DEF AckPending, Prompt
  <2> QED BY <1>0, <1>r, <2>2, <2>3, PromptIdle
<1>4. CASE watch_acknowledged
  <2> DEFINE mine == {s \in _reclaim_list : s % LoopSize = cur_idx}
  <2>1. /\ mpc = "wait" /\ _reclaim_notify_flag[cur_idx] /\ mpc' # "wait" /\ UNCHANGED epoll
        /\ on_read' = on_read \ mine
    BY <1>4 DEF watch_acknowledged
  <2>2. \A i \in Loops : ~Asked(m, i)
    BY <2>1 DEF Prompt
  <2>3. ASSUME NEW t \in Sockets, OnRead(t) \in registered'[m] \cup Calls(m) PROVE t \in on_read'
    <3>1. SUFFICES t \notin mine
      BY <1>r, <2>1, <2>3
    <3>2. SUFFICES ASSUME t \in _reclaim_list, t % LoopSize = cur_idx PROVE FALSE
      OBVIOUS
    <3>3. OnRead(t) \in Calls(m)
      BY <2>1, <2>3, <3>2 DEF Listens
    <3>4. m = Home(t) /\ Home(t) = t % LoopSize
      BY <3>3, LoopsFacts DEF Listens
    <3> QED BY <2>1, <3>2, <3>3, <3>4 DEF Prompt
  <2> QED BY <1>0, <2>1, <2>2, <2>3, PromptIdle
<1>5. CASE watch_addSchedule
  <2>1. /\ mpc = "clear" /\ mpc' = "wait" /\ UNCHANGED <<_reclaim_list, on_read, cur_idx>>
        /\ _reclaim_notify_flag' = [old_flag EXCEPT ![cur_idx] = FALSE]
        /\ cur_idx \in Loops /\ DOMAIN old_flag = Loops
        /\ ScheduleThread(_reclaim_fd, cur_idx) = cur_idx
    BY <1>5, AsksLoop DEF watch_addSchedule, TypeOK
  <2>2. ~_reclaim_notify_flag'[cur_idx]
    BY <2>1
  <2>3. /\ \A i \in Loops : ~Asked(m, i)
        /\ \A i \in Loops : OnReclaim(i) \notin ready[m] /\ OnReclaim(i) \notin Calls(m)
                            /\ OnReclaim(i) \notin batch[m]
    BY <1>q, <2>1 DEF Asked, Calls
  <2>4. \A x \in registered[m] : x \in registered'[m]
    BY <1>5, <1>0, WatchListens DEF watchConnections, watch_tryExclusive, watch_addSchedule
  <2>5. /\ \A s : OnRead(s) \in registered'[m] => OnRead(s) \in registered[m]
        /\ \A i \in Loops : OnReclaim(i) \in ready'[m] =>
             m = i /\ i = cur_idx /\ OnReclaim(i) \in registered'[m]
             /\ \A j \in Loops : OnReclaim(j) \notin registered[m]
    <3>1. CASE UNCHANGED epoll
      BY <2>3, <3>1
    <3>2. CASE /\ addSchedule(cur_idx, OnReclaim(cur_idx), TRUE)
               /\ ~\E j \in Loops : OnReclaim(j) \in registered[cur_idx]
      <4>1. /\ \A x : x \in registered'[m] <=>
                        x \in registered[m] \/ (m = cur_idx /\ x = OnReclaim(cur_idx))
            /\ \A x : x \in ready'[m] <=> x \in ready[m] \/ (m = cur_idx /\ x = OnReclaim(cur_idx))
        <5>1. OnReclaim(cur_idx) \in Handlers
          BY <2>1, IsHandler
        <5> QED BY <1>0, <2>1, <3>2, <5>1, AddReady
      <4>2. \A s : OnRead(s) # OnReclaim(cur_idx)
        BY HandlersDiffer
      <4>3. ASSUME NEW i \in Loops, OnReclaim(i) \in ready'[m]
            PROVE  m = cur_idx /\ OnReclaim(i) = OnReclaim(cur_idx)
        BY <2>3, <4>1, <4>3
      <4>4. ASSUME NEW i \in Loops, OnReclaim(i) \in ready'[m]
            PROVE  /\ m = i /\ i = cur_idx /\ OnReclaim(i) \in registered'[m]
                   /\ \A j \in Loops : OnReclaim(j) \notin registered[m]
        <5>1. m = cur_idx /\ i = cur_idx
          BY <4>3, <4>4, HandlersDiffer
        <5> QED BY <3>2, <4>1, <5>1
      <4>5. \A s : OnRead(s) \in registered'[m] => OnRead(s) \in registered[m]
        BY SMT, <4>1, <4>2
      <4> QED BY <4>4, <4>5
    <3> QED BY <1>5, <2>1, <3>1, <3>2 DEF watch_addSchedule
  <2>6. \A i \in Loops : Asked(m, i)' => OnReclaim(i) \in ready'[m]
    BY <1>0, <2>3 DEF Asked
  <2>7. \A i \in Loops : Asked(m, i)' =>
          /\ m = i /\ mpc' = "wait" /\ cur_idx' = i /\ ~_reclaim_notify_flag'[i]
          /\ OnReclaim(i) \in registered'[m]
    BY <2>1, <2>2, <2>5, <2>6
  <2>8. \A i \in Loops :
          /\ OnReclaim(i) \notin Calls(m)' /\ OnReclaim(i) \notin batch'[m]
          /\ running'[m] = Flagged(i) => m = i /\ OnReclaim(i) \in registered'[m] /\ ~Asked(m, i)'
    <3>1. ASSUME NEW i \in Loops, running'[m] = Flagged(i) PROVE m = i /\ OnReclaim(i) \in registered[m]
      BY <1>0, <3>1 DEF Prompt
    <3> QED BY <1>0, <2>3, <2>4, <2>5, <2>6, <3>1
  <2>9. ~(mpc' = "wait" /\ cur_idx' = m /\ _reclaim_notify_flag'[m])
    BY <2>1, <2>2
  <2>10. \A s \in Sockets : OnRead(s) \in registered'[m] \cup Calls(m)' => s \in on_read'
    BY <1>0, <1>r, <2>1, <2>5
  <2> QED BY <1>0, <2>7, <2>8, <2>9, <2>10 DEF Prompt
<1> QED BY <1>1, <1>2, <1>3, <1>4, <1>5 DEF watchConnections

-----------------------------------------------------------------------------
(* The invariant.                                                          *)

\* A step that changes nothing keeps the inductive invariant.
LEMMA Stutter ==
  ASSUME SInv, UNCHANGED vars
  PROVE  SInv'
<1>1. UNCHANGED <<conn, sharers, on_connection, on_read, woken, registered, ready, batch, running,
                  read_flag>>
  BY DEF vars, socket, epoll, loop
<1>2. UNCHANGED <<mpc, scan, cur_idx, old_flag, _reclaim_counter, _list, _reclaim_list,
                  _reclaim_notify_flag, gpc, joined, late, _reclaim_fd>>
  BY DEF vars, manager, lists, stop, rounds
<1>3. TypeOK' /\ Phases' /\ Joined'
  <2>1. TypeOK'
    BY <1>1, <1>2 DEF SInv, TypeOK
  <2>2. Phases' /\ Joined'
    BY <1>1, <1>2 DEF SInv, Phases, Untouched, Joined
  <2> QED BY <2>1, <2>2
<1>4. \A s \in Sockets : Owner(s)'
  BY <1>1, <1>2 DEF SInv, Owner, Home, ScheduleThread
<1>5. \A l \in Loops \ joined' : Listens(l)'
  BY <1>1, <1>2 DEF SInv, Listens, Calls, Home, ScheduleThread
<1>6. late' = 0 /\ PipeOnLoop0' => \A l \in Loops \ joined' : Prompt(l)'
  BY <1>1, <1>2 DEF SInv, Prompt, Asked, Calls, PipeOnLoop0, ScheduleThread
<1> QED BY <1>3, <1>4, <1>5, <1>6 DEF SInv

\* The initial state satisfies the inductive invariant.
LEMMA InitSInv == Init => SInv
<1> SUFFICES ASSUME Init PROVE SInv
  OBVIOUS
<1>1. joined = Loops
  BY DEF Init
<1> QED BY <1>1, InitType, InitPhases, InitOwner DEF SInv

\* The invariant of every step: each part of it, actor by actor.
LEMMA NextSInv ==
  ASSUME SInv, Next
  PROVE  SInv'
<1>0. /\ TypeOK /\ Phases /\ Joined
      /\ \A s \in Sockets : Owner(s)
      /\ \A l \in Loops \ joined : Listens(l)
      /\ late = 0 /\ PipeOnLoop0 => \A l \in Loops \ joined : Prompt(l)
  BY DEF SInv
<1>1. CASE globalInit
  <2>1. TypeOK' /\ Phases' /\ Joined'
    BY <1>0, <1>1, InitStepType, InitStepPhases
  <2>2. \A s \in Sockets : Owner(s)'
    BY <1>0, <1>1, InitStepOwner
  <2>3. \A m \in Loops : Listens(m)' /\ Prompt(m)'
    BY <1>0, <1>1, InitStepListens
  <2> QED BY <2>1, <2>2, <2>3 DEF SInv
<1>2. ASSUME NEW s \in Sockets, owner(s) PROVE SInv'
  <2>1. TypeOK' /\ Phases' /\ Joined'
    BY <1>0, <1>2, OwnerType, OwnerPhases
  <2>2. \A t \in Sockets : Owner(t)'
    BY <1>0, <1>2, OwnerOwner
  <2>3. UNCHANGED <<joined, late, _reclaim_fd>>
    BY <1>0, <1>2, OwnerMoves DEF stop, rounds
  <2>4. \A m \in Loops \ joined' : Listens(m)'
    BY <1>0, <1>2, <2>3, OwnerLoops
  <2>5. PipeOnLoop0' <=> PipeOnLoop0
    BY <2>3 DEF PipeOnLoop0, ScheduleThread
  <2>6. late' = 0 /\ PipeOnLoop0' => \A m \in Loops \ joined' : Prompt(m)'
    BY <1>0, <1>2, <2>3, <2>5, OwnerPrompt
  <2> QED BY <2>1, <2>2, <2>4, <2>6 DEF SInv
<1>3. ASSUME NEW l \in Loops, loopThread(l) PROVE SInv'
  <2>1. TypeOK' /\ Phases' /\ Joined'
    BY <1>0, <1>3, LoopType, LoopPhases
  <2>2. \A t \in Sockets : Owner(t)'
    BY <1>0, <1>3, LoopOwner
  <2>3. UNCHANGED <<joined, late, _reclaim_fd>>
    BY <1>0, <1>3, LoopRuns DEF stop, rounds
  <2>4. \A m \in Loops \ joined' : Listens(m)'
    BY <1>0, <1>3, <2>3, LoopListens
  <2>5. PipeOnLoop0' <=> PipeOnLoop0
    BY <2>3 DEF PipeOnLoop0, ScheduleThread
  <2>6. late' = 0 /\ PipeOnLoop0' => \A m \in Loops \ joined' : Prompt(m)'
    <3>1. SUFFICES ASSUME late = 0, PipeOnLoop0, NEW m \in Loops \ joined PROVE Prompt(m)'
      BY <2>3, <2>5
    <3>2. \A k \in Loops \ joined : Prompt(k) /\ Listens(k)
      BY <1>0, <3>1
    <3> QED BY <1>0, <1>3, <3>1, <3>2, LoopPrompt
  <2> QED BY <2>1, <2>2, <2>4, <2>6 DEF SInv
<1>4. ASSUME NEW l \in Loops, NEW h \in Handlers, arrive(l, h) PROVE SInv'
  <2>1. TypeOK' /\ Phases' /\ Joined'
    BY <1>0, <1>4, ArriveType, ArrivePhases
  <2>2. \A t \in Sockets : Owner(t)'
    BY <1>0, <1>4, ArriveOwner
  <2>3. UNCHANGED <<joined, late, _reclaim_fd>>
    BY <1>4 DEF arrive, stop, rounds
  <2>4. \A m \in Loops \ joined' : Listens(m)'
    BY <1>0, <1>4, <2>3, ArriveListens
  <2>5. PipeOnLoop0' <=> PipeOnLoop0
    BY <2>3 DEF PipeOnLoop0, ScheduleThread
  <2>6. late' = 0 /\ PipeOnLoop0' => \A m \in Loops \ joined' : Prompt(m)'
    BY <1>0, <1>4, <2>3, <2>5, ArrivePrompt
  <2> QED BY <2>1, <2>2, <2>4, <2>6 DEF SInv
<1>5. CASE watchConnections
  <2>1. TypeOK' /\ Phases' /\ Joined'
    BY <1>0, <1>5, WatchType, WatchPhases
  <2>2. \A t \in Sockets : Owner(t)'
    BY <1>0, <1>5, WatchOwner
  <2>3. UNCHANGED <<joined, _reclaim_fd>> /\ (late' = 0 => late = 0)
    <3>1. UNCHANGED joined
      BY <1>0, <1>5, WatchServes DEF stop
    <3>2. CASE watch_timeout
      <4>1. late \in 0..MaxLate
        BY <1>0 DEF TypeOK
      <4> QED BY SMT, <3>1, <3>2, <4>1 DEF watch_timeout
    <3>3. CASE UNCHANGED rounds
      BY <3>1, <3>3 DEF rounds
    <3> QED BY <1>5, <3>2, <3>3 DEF watchConnections, watch_begin, watch_tryExclusive, watch_reclaim,
            watch_addSchedule, watch_acknowledged
  <2>4. \A m \in Loops \ joined' : Listens(m)'
    BY <1>0, <1>5, <2>3, WatchLoops
  <2>5. PipeOnLoop0' <=> PipeOnLoop0
    BY <2>3 DEF PipeOnLoop0, ScheduleThread
  <2>6. late' = 0 /\ PipeOnLoop0' => \A m \in Loops \ joined' : Prompt(m)'
    <3>1. SUFFICES ASSUME late = 0, late' = 0, PipeOnLoop0, NEW m \in Loops \ joined PROVE Prompt(m)'
      BY <2>3, <2>5
    <3>2. Prompt(m) /\ Listens(m)
      BY <1>0, <3>1
    <3> QED BY <1>0, <1>5, <3>1, <3>2, WatchPrompt
  <2> QED BY <2>1, <2>2, <2>4, <2>6 DEF SInv
<1>6. CASE globalDestroy \/ destruction
  <2>1. TypeOK' /\ Phases' /\ Joined'
    BY <1>0, <1>6, DestroyType, DestroyPhases
  <2>2. \A t \in Sockets : Owner(t)'
    BY <1>0, <1>6, DestroyOwner
  <2>3. \A m \in Loops \ joined' : m \notin joined /\ UNCHANGED <<late, _reclaim_fd>>
    BY <1>0, <1>6, DestroyLoops
  <2>4. \A m \in Loops \ joined' : Listens(m)'
    BY <1>0, <1>6, <2>3, DestroyListens
  <2>6. late' = 0 /\ PipeOnLoop0' => \A m \in Loops \ joined' : Prompt(m)'
    <3>1. SUFFICES ASSUME late' = 0, PipeOnLoop0', NEW m \in Loops \ joined' PROVE Prompt(m)'
      OBVIOUS
    <3>2. m \in Loops \ joined /\ late = 0 /\ _reclaim_fd' = _reclaim_fd
      BY <2>3, <3>1
    <3>3. PipeOnLoop0
      BY <3>1, <3>2 DEF PipeOnLoop0, ScheduleThread
    <3>4. Prompt(m)
      BY <1>0, <3>2, <3>3
    <3> QED BY <1>0, <1>6, <3>4, DestroyPrompt
  <2> QED BY <2>1, <2>2, <2>4, <2>6 DEF SInv
<1> QED BY <1>1, <1>2, <1>3, <1>4, <1>5, <1>6 DEF Next

\* In every behaviour of the schedule, the connecting threads and the manager: the
\* program goes through its phases, each owner's socket is known to whom it should
\* be, a loop listens to its own sockets only and never to one to be reclaimed, and
\* an acknowledgement that is in time means what the manager takes it for.
THEOREM ConnectionsAccounted == Spec => []SInv
<1>1. ASSUME SInv, [Next]_vars PROVE SInv'
  BY <1>1, NextSInv, Stutter
<1> QED BY <1>1, InitSInv, PTL DEF Spec

\* While the library is in service all its loop threads run or none does, the
\* manager does not divide by zero, and a connection that its channel still owns
\* stays registered with its loop (Schedule::init, watchConnections, tryExclusive).
THEOREM OwnedInService == Spec => []InService
<1>1. ASSUME SInv PROVE InService
  <2>1. TypeOK /\ Phases /\ \A s \in Sockets : Owner(s)
    BY <1>1 DEF SInv
  <2>2. StartsWhole
    BY <2>1 DEF Phases, StartsWhole, Stopped
  <2>3. OwnedStaysRegistered
    BY <2>1 DEF OwnedStaysRegistered, Owner, Home
  <2> QED BY <2>1, <2>2, <2>3 DEF InService
<1> QED BY <1>1, ConnectionsAccounted, PTL

\* As long as every acknowledgement came in time and the manager's pipe belongs to
\* loop 0, watchConnections never clears the _on_read that a loop thread is in, or
\* has taken from epoll_wait and is about to call.
THEOREM HandlersOutliveTheirCalls == Spec => []HandlersAliveWhenPrompt
<1>1. ASSUME SInv PROVE HandlersAliveWhenPrompt
  <2>1. SUFFICES ASSUME late = 0, PipeOnLoop0, NEW l \in Loops, NEW s \in Sockets, OnRead(s) \in Calls(l)
                 PROVE  s \in on_read
    BY DEF HandlersAliveWhenPrompt, HandlersAlive
  <2>2. CASE l \in joined
    <3>1. Calls(l) = {Nothing}
      BY <1>1, <2>2 DEF SInv, Joined, Calls
    <3>2. OnRead(s) # Nothing
      BY HandlersDiffer
    <3> QED BY <2>1, <3>1, <3>2
  <2>3. CASE l \notin joined
    <3>1. Prompt(l)
      BY <1>1, <2>1, <2>3 DEF SInv
    <3> QED BY <2>1, <3>1 DEF Prompt
  <2> QED BY <2>2, <2>3
<1> QED BY <1>1, ConnectionsAccounted, PTL

\* The handlers share their socket: a connect that failed leaves none behind, unless
\* it ran out of time or could not be registered; and after destroy none is left of
\* a socket that its channel has given up.
THEOREM NoHandlerIsLeft == Spec => []NoHandlerLeft
<1>1. ASSUME SInv PROVE NoHandlerLeft
  <2>1. SUFFICES ASSUME NEW s \in Sockets
                 PROVE  /\ conn[s] \in {"failed", "owned", "surrendered"} => s \notin on_connection
                        /\ conn[s] = "failed" => s \notin on_read
                        /\ gpc = "destroyed" /\ conn[s] = "surrendered" => s \notin on_read
    BY DEF NoHandlerLeft
  <2>2. Owner(s) /\ Phases
    BY <1>1 DEF SInv
  <2>3. conn[s] \in {"failed", "owned", "surrendered"} => s \notin on_connection
    BY <2>2 DEF Owner
  <2>4. conn[s] = "failed" => s \notin on_read
    BY <2>2 DEF Owner
  <2>5. gpc = "destroyed" /\ conn[s] = "surrendered" => s \notin on_read
    BY <2>2 DEF Owner, Phases
  <2> QED BY <2>3, <2>4, <2>5
<1> QED BY <1>1, ConnectionsAccounted, PTL

=============================================================================
