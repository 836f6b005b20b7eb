---------------------------- MODULE ChannelPool ----------------------------
(***************************************************************************)
(* The pooled channel (Channel::getSubSocketInternal): every thread keeps  *)
(* the index of a sub channel of its own, counted in shared_num, and when  *)
(* that one fails moves to the active sub channel with the fewest sharers. *)
(* getSocketInternal, on the sub channel, is that of module Channel.       *)
(***************************************************************************)
EXTENDS Channel

VARIABLES shared_num,    \* of a sub channel: a size_t
          is_active,     \* of a sub channel: a flag, set apart from its socket
          idx,           \* of a thread: sub_channel->idx
          phase,         \* of a thread: where it is in getSubSocketInternal
          next,          \* of a thread: the loop's i
          most_idle_sub_channel, minus_shared_num

scanning == <<next, most_idle_sub_channel, minus_shared_num>>
pool == <<shared_num, is_active>>
poolVars == <<vars, pool, idx, phase, scanning>>

PoolSize == Cardinality(Channels)

\* numeric_limits<size_t>::max(), any value that no count of threads reaches
SizeMax == Cardinality(Threads) + 1

PoolInit ==
  /\ Init
  /\ shared_num = [c \in Channels |-> 0]
  /\ is_active = [c \in Channels |-> TRUE]
  /\ idx = [t \in Threads |-> -1]
  /\ phase = [t \in Threads |-> "idle"]
  /\ next = [t \in Threads |-> 0]
  /\ most_idle_sub_channel = [t \in Threads |-> 0]
  /\ minus_shared_num = [t \in Threads |-> 0]
-----------------------------------------------------------------------------
enter(t, p) == phase' = [phase EXCEPT ![t] = p]

\* channel.getSocketInternal(socket) on the sub channel i
call(t, i) == at' = [at EXCEPT ![t] = i] /\ goto(t, "tryShared")

returned(t, result) == pc[t] = result /\ goto(t, "idle")

fetch_sub(i) == shared_num' = [shared_num EXCEPT ![i] = (@ - 1) % (SizeMax + 1)]

rescan(t) ==
  /\ next' = [next EXCEPT ![t] = 0]
  /\ most_idle_sub_channel' = [most_idle_sub_channel EXCEPT ![t] = 0]
  /\ minus_shared_num' = [minus_shared_num EXCEPT ![t] = SizeMax]

\* getSubSocketInternal: the thread's own sub channel, if it has one
getSubSocketInternal(t) ==
  /\ connection_type = "pooled"
  /\ phase[t] = "idle" /\ stage = "ready" /\ socket[t] = Null /\ calls[t] < MaxCalls
  /\ calls' = [calls EXCEPT ![t] = @ + 1]
  /\ \/ /\ idx[t] >= 0
        /\ call(t, idx[t]) /\ enter(t, "own")
        /\ UNCHANGED scanning
     \/ /\ idx[t] < 0
        /\ enter(t, "scan") /\ rescan(t)
        /\ UNCHANGED <<at, pc>>
  /\ UNCHANGED <<channel, active, owned, socket, pool, idx>>

own_true(t) ==
  /\ phase[t] = "own" /\ returned(t, "true")
  /\ enter(t, "idle")
  /\ UNCHANGED <<channel, active, owned, at, socket, calls, pool, idx, scanning>>

own_false(t) ==
  /\ phase[t] = "own" /\ returned(t, "false")
  /\ is_active' = [is_active EXCEPT ![idx[t]] = FALSE]
  /\ enter(t, "own_unshare")
  /\ UNCHANGED <<channel, active, owned, at, socket, calls, shared_num, idx, scanning>>

own_unshare(t) ==
  /\ phase[t] = "own_unshare"
  /\ fetch_sub(idx[t])
  /\ enter(t, "scan") /\ rescan(t)
  /\ UNCHANGED <<vars, is_active, idx>>

\* One pass of the for loop: the flag ...
scan(t) ==
  LET i == next[t]
  IN  /\ phase[t] = "scan" /\ i < PoolSize
      /\ \/ /\ i # idx[t] /\ is_active[i]
            /\ enter(t, "load")
            /\ UNCHANGED next
         \/ /\ i = idx[t] \/ ~is_active[i]
            /\ next' = [next EXCEPT ![t] = @ + 1]
            /\ UNCHANGED phase
      /\ UNCHANGED <<vars, pool, idx, most_idle_sub_channel, minus_shared_num>>

\* ... and the count
scan_load(t) ==
  LET i == next[t]
      better == shared_num[i] < minus_shared_num[t]
  IN  /\ phase[t] = "load"
      /\ next' = [next EXCEPT ![t] = @ + 1]
      /\ minus_shared_num' = [minus_shared_num EXCEPT ![t] = IF better THEN shared_num[i] ELSE @]
      /\ most_idle_sub_channel' = [most_idle_sub_channel EXCEPT ![t] = IF better THEN i ELSE @]
      /\ enter(t, "scan")
      /\ UNCHANGED <<vars, pool, idx>>

\* No other sub channel is active: take any.
random(t) ==
  /\ phase[t] = "scan" /\ next[t] = PoolSize /\ minus_shared_num[t] = SizeMax
  /\ \E i \in Channels :
       /\ most_idle_sub_channel' = [most_idle_sub_channel EXCEPT ![t] = i]
       /\ minus_shared_num' = [minus_shared_num EXCEPT ![t] = shared_num[i]]
  /\ UNCHANGED <<vars, pool, idx, phase, next>>

\* Variant: after a failed compare-and-swap, try again with the old count.
compare_exchange_stale(t) ==
  LET i == most_idle_sub_channel[t]
  IN  /\ phase[t] = "scan" /\ next[t] = PoolSize /\ minus_shared_num[t] # SizeMax
      /\ idx' = [idx EXCEPT ![t] = i]
      /\ \/ /\ shared_num[i] = minus_shared_num[t]
            /\ shared_num' = [shared_num EXCEPT ![i] = @ + 1]
            /\ call(t, i) /\ enter(t, "picked")
         \/ /\ shared_num[i] # minus_shared_num[t]
            /\ UNCHANGED <<shared_num, at, pc, phase>>
      /\ UNCHANGED <<channel, active, owned, socket, calls, is_active, scanning>>

\* compare_exchange_strong(minus_shared_num, minus_shared_num + 1)
compare_exchange(t) ==
  LET i == most_idle_sub_channel[t]
  IN  /\ phase[t] = "scan" /\ next[t] = PoolSize /\ minus_shared_num[t] # SizeMax
      /\ idx' = [idx EXCEPT ![t] = i]
      /\ \/ /\ shared_num[i] = minus_shared_num[t]
            /\ shared_num' = [shared_num EXCEPT ![i] = @ + 1]
            /\ call(t, i) /\ enter(t, "picked")
            /\ UNCHANGED scanning
         \/ /\ shared_num[i] # minus_shared_num[t]
            /\ rescan(t)
            /\ UNCHANGED <<shared_num, at, pc, phase>>
      /\ UNCHANGED <<channel, active, owned, socket, calls, is_active>>

picked_true(t) ==
  /\ phase[t] = "picked" /\ returned(t, "true")
  /\ is_active' = [is_active EXCEPT ![idx[t]] = TRUE]
  /\ enter(t, "idle")
  /\ UNCHANGED <<channel, active, owned, at, socket, calls, shared_num, idx, scanning>>

picked_false(t) ==
  /\ phase[t] = "picked" /\ returned(t, "false")
  /\ is_active' = [is_active EXCEPT ![idx[t]] = FALSE]
  /\ enter(t, "picked_unshare")
  /\ UNCHANGED <<channel, active, owned, at, socket, calls, shared_num, idx, scanning>>

\* Variant: the index is kept.
picked_unshare_kept(t) ==
  /\ phase[t] = "picked_unshare"
  /\ fetch_sub(idx[t])
  /\ enter(t, "idle")
  /\ UNCHANGED <<vars, is_active, idx, scanning>>

picked_unshare(t) ==
  /\ phase[t] = "picked_unshare"
  /\ fetch_sub(idx[t])
  /\ idx' = [idx EXCEPT ![t] = -1]
  /\ enter(t, "idle")
  /\ UNCHANGED <<vars, is_active, scanning>>

\* The session is over.
pool_finish(t) ==
  /\ connection_type = "pooled" /\ phase[t] = "idle" /\ socket[t] # Null
  /\ socket' = [socket EXCEPT ![t] = Null]
  /\ UNCHANGED <<channel, active, owned, pc, at, calls, pool, idx, phase, scanning>>

\* deleteThreadLocalSubChannel, when the thread ends; another takes its place.
thread_exit(t) ==
  /\ phase[t] = "idle" /\ stage = "ready" /\ socket[t] = Null /\ idx[t] >= 0
  /\ fetch_sub(idx[t])
  /\ idx' = [idx EXCEPT ![t] = -1]
  /\ UNCHANGED <<vars, is_active, phase, scanning>>

\* ~Channel, and with it that of every sub channel
pool_destroy ==
  /\ \A t \in Threads : phase[t] = "idle" /\ socket[t] = Null
  /\ destroy
  /\ UNCHANGED <<pool, idx, phase, scanning>>

\* The steps of a thread that is in a call.
inCall(t) ==
  \/ own_true(t) \/ own_false(t) \/ own_unshare(t)
  \/ scan(t) \/ scan_load(t) \/ random(t) \/ compare_exchange(t)
  \/ picked_true(t) \/ picked_false(t) \/ picked_unshare(t)
  \/ getSocketInternal(t) /\ UNCHANGED <<pool, idx, phase, scanning>>

PoolNext ==
  \/ \E t \in Threads :
       \/ getSubSocketInternal(t) \/ inCall(t) \/ pool_finish(t) \/ thread_exit(t)
       \/ (getSocket(t) \/ finish(t)) /\ UNCHANGED <<pool, idx, phase, scanning>>
  \/ \E s \in Sockets : setStatus(s) /\ UNCHANGED <<pool, idx, phase, scanning>>
  \/ init /\ UNCHANGED <<pool, idx, phase, scanning>>
  \/ pool_destroy

\* Threads in a call go on; nothing obliges anyone to call, or to let go.
PoolSpec == PoolInit /\ [][PoolNext]_poolVars
FairPoolSpec == PoolSpec /\ \A t \in Threads : WF_poolVars(inCall(t))
-----------------------------------------------------------------------------
PoolTypeOK ==
  /\ TypeOK
  /\ shared_num \in [Channels -> 0..SizeMax] /\ is_active \in [Channels -> BOOLEAN]
  /\ idx \in [Threads -> Channels \cup {-1}]
  /\ phase \in [Threads -> {"idle", "own", "own_unshare", "scan", "load", "picked",
                           "picked_unshare"}]
  /\ next \in [Threads -> 0..PoolSize] /\ most_idle_sub_channel \in [Threads -> Channels]
  /\ minus_shared_num \in [Threads -> 0..SizeMax]

\* The sub channel that counts thread t: none while it looks for another one
CountedAt(t) == IF phase[t] \in {"scan", "load"} THEN -1 ELSE idx[t]

\* shared_num is the number of threads that keep a sub channel: over failures, failed
\* compare-and-swaps and threads that end, no share is lost and none is given
\* back twice (which would wrap the size_t, and nobody would choose it again).
SharesCounted ==
  /\ PoolTypeOK
  /\ \A c \in Channels : shared_num[c] = Cardinality({t \in Threads : CountedAt(t) = c})

\* Every call returns: the thread that waits in exclusive() for the shares of the
\* others gets the channel, and the search of the pool ends although its counts
\* change under it.
PoolCallReturns ==
  \A t \in Threads : phase[t] # "idle" \/ pc[t] = "tryShared"
                     ~> phase[t] = "idle" /\ pc[t] \in {"idle", "true", "false"}
=============================================================================
