--------------------------- MODULE ChannelProofs ---------------------------
(***************************************************************************)
(* What the run on ChannelPool checks for two threads and two channels     *)
(* holds for every finite set of threads and every number of channels.     *)
(*                                                                         *)
(* The inductive invariant IInv has four parts:                            *)
(*   TypeInv    the types, and that the place of a thread in the pool's    *)
(*              call agrees with its place in the sub channel's;           *)
(*   LockInv    the word of each LifeCycleLock says how many threads hold  *)
(*              a share of it, which one waits to be alone and which is;   *)
(*   SocketInv  a channel owns its connection, no two have the same one,   *)
(*              and a connection some thread condemned stays dead;         *)
(*   ShareInv   shared_num counts the threads that keep a sub channel.     *)
(* SocketInv needs LockInv: between the look at a connection and its       *)
(* replacement the lock is all that keeps another thread from making it    *)
(* active again.                                                           *)
(***************************************************************************)
EXTENDS ChannelPool, FiniteSetTheorems, TLAPS

\* Most leaves are first-order: Zenon is the default prover here, and a leaf
\* that needs arithmetic, or the type of a function or a record, cites SMT.
USE Zenon

\* Where a thread is in a call of the pool agrees with where it is in the call
\* on the sub channel, and with the index it keeps.
InStep ==
  \A t \in Threads :
    /\ connection_type # "pooled" => phase[t] = "idle"
    /\ connection_type = "pooled" /\ phase[t] \notin {"own", "picked"} => pc[t] = "idle"
    /\ phase[t] \in {"own", "own_unshare", "picked", "picked_unshare"} => idx[t] \in Channels
    /\ phase[t] = "load" => next[t] \in Channels

\* Before init and after the end nobody is in a call.
StageOK ==
  /\ stage # "ready" => \A t \in Threads : pc[t] = "idle" /\ phase[t] = "idle"
  /\ stage = "made" => \A c \in Channels : _socket[c] = Null

TypeInv == PoolTypeOK /\ InStep /\ StageOK

\* The thread that connects has a socket to connect.
Connecting == \A t \in Threads : pc[t] = "connect" => _socket[at[t]] # Null

\* The sub channels are numbered from 0, as those of a vector.
LEMMA Numbered ==
  /\ 0 \in Channels /\ Channels \subseteq Nat /\ IsFiniteSet(Channels)
  /\ PoolSize \in Nat /\ Channels = 0..(PoolSize - 1)
  /\ Null \notin Sockets /\ SizeMax \in Nat /\ SizeMax > 0
  /\ \A c \in Channels : c + 1 \in Sockets
<1>1. Cardinality(Channels) \in Nat /\ Cardinality(Threads) \in Nat
  BY ChannelsAssumption, ThreadsAssumption, FS_CardinalityType
<1>2. Cardinality(Channels) > 0
  BY SMT, <1>1, ChannelsAssumption
<1>3. QED
  BY SMT, <1>1, <1>2, ChannelsAssumption, BoundsAssumption DEF PoolSize, SizeMax, Null, Sockets

\* The initial state is well typed.
LEMMA InitTypeInv == PoolInit => TypeInv
<1> SUFFICES ASSUME PoolInit PROVE TypeInv
  OBVIOUS
<1>1. (CHOOSE c \in Channels : TRUE) \in Channels
  BY Numbered
<1>2. TypeOK
  BY SMT, <1>1, Numbered, BoundsAssumption DEF PoolInit, Init, TypeOK, NoBits, Bits, Places, Null
<1>3. PoolTypeOK
  BY SMT, <1>2, Numbered DEF PoolInit, PoolTypeOK
<1>4. QED
  BY <1>3 DEF PoolInit, Init, TypeInv, InStep, StageOK

\* What the instructions make of a word is a word.
LEMMA WordsStay ==
  ASSUME NEW b \in Bits
  PROVE  /\ AddShared(b) \in Bits /\ SubShared(b) \in Bits /\ OrUpgraded(b) \in Bits
         /\ ClearExclusive(b) \in Bits /\ OnlyExclusive \in Bits
<1>1. AddShared(b) \in Bits
  BY SMT DEF Bits, AddShared
<1>2. SubShared(b) \in Bits
  BY SMT DEF Bits, SubShared
<1>3. OrUpgraded(b) \in Bits
  BY DEF Bits, OrUpgraded
<1>4. ClearExclusive(b) \in Bits
  BY DEF Bits, ClearExclusive
<1>5. OnlyExclusive \in Bits
  BY SMT DEF Bits, OnlyExclusive
<1>6. QED
  BY <1>1, <1>2, <1>3, <1>4, <1>5

\* The steps of getSocketInternal keep the types of the channel.
LEMMA GetTypeOK ==
  ASSUME TypeOK, Connecting, NEW t \in Threads, getSocketInternal(t)
  PROVE  TypeOK'
<1> USE Numbered DEF TypeOK, Places, channel, goto
<1>a. at[t] \in Channels /\ _lock[at[t]] \in Bits
  OBVIOUS
<1>1. CASE get_tryShared(t)
  BY <1>1, <1>a, WordsStay DEF get_tryShared
<1>2. CASE get_undo(t)
  BY <1>2, <1>a, WordsStay DEF get_undo
<1>3. CASE get_active(t)
  BY <1>3, <1>a DEF get_active
<1>4. CASE get_upgrade(t)
  BY <1>4, <1>a, WordsStay DEF get_upgrade
<1>5. CASE get_releaseShared(t)
  BY <1>5, <1>a, WordsStay DEF get_releaseShared
<1>6. CASE get_exclusive(t)
  BY <1>6, <1>a, WordsStay DEF get_exclusive
<1>7. CASE get_replace(t)
  BY SMT, <1>7, <1>a DEF get_replace
<1>8. CASE get_connect(t)
  <2>1. UNCHANGED <<connection_type, _lock, stage, at, calls>>
    BY <1>8 DEF get_connect
  <2>2. pc' \in [Threads -> Places]
    BY <1>8 DEF get_connect
  <2>3. _socket' \in [Channels -> Sockets \cup {Null}] /\ owned' \subseteq Sockets
    BY <1>8, <1>a DEF get_connect
  <2>4. active' \subseteq Sockets
    BY SMT, <1>8, <1>a DEF get_connect, Connecting
  <2>5. socket' \in [Threads -> Sockets \cup {Null}]
    BY <1>8, <1>a DEF get_connect
  <2>6. QED
    BY <2>1, <2>2, <2>3, <2>4, <2>5
<1>9. CASE get_releaseExclusive(t)
  BY <1>9, <1>a, WordsStay DEF get_releaseExclusive
<1>10. QED
  BY <1>1, <1>2, <1>3, <1>4, <1>5, <1>6, <1>7, <1>8, <1>9 DEF getSocketInternal

\* The other steps keep the types of the channel, too.
LEMMA OtherTypeOK ==
  ASSUME PoolTypeOK, InStep, NEW t \in Threads,
         \/ getSubSocketInternal(t) \/ own_true(t) \/ own_false(t) \/ own_unshare(t)
         \/ scan(t) \/ scan_load(t) \/ random(t) \/ compare_exchange(t)
         \/ picked_true(t) \/ picked_false(t) \/ picked_unshare(t)
         \/ pool_finish(t) \/ thread_exit(t) \/ getSocket(t) \/ finish(t)
  PROVE  TypeOK'
<1>0. TypeOK /\ idx \in [Threads -> Channels \cup {-1}] /\ most_idle_sub_channel \in [Threads -> Channels]
  BY DEF PoolTypeOK
<1> USE Numbered, BoundsAssumption DEF TypeOK, Places, channel, goto, vars, call, returned
<1>1. CASE getSubSocketInternal(t)
  <2>1. calls' \in [Threads -> 0..MaxCalls]
    BY SMT, <1>0, <1>1 DEF getSubSocketInternal
  <2>2. pc' \in [Threads -> Places] /\ at' \in [Threads -> Channels]
    <3>1. CASE idx[t] >= 0 /\ call(t, idx[t])
      BY SMT, <1>0, <3>1
    <3>2. CASE UNCHANGED <<at, pc>>
      BY <1>0, <3>2
    <3>3. QED
      BY <1>1, <3>1, <3>2 DEF getSubSocketInternal
  <2>3. UNCHANGED <<channel, active, owned, socket>>
    BY <1>1 DEF getSubSocketInternal
  <2>4. QED
    BY <1>0, <2>1, <2>2, <2>3
<1>2. CASE own_true(t) \/ own_false(t) \/ picked_true(t) \/ picked_false(t)
  BY <1>0, <1>2 DEF own_true, own_false, picked_true, picked_false
<1>3. CASE own_unshare(t) \/ scan(t) \/ scan_load(t) \/ random(t) \/ picked_unshare(t) \/ thread_exit(t)
  BY <1>0, <1>3 DEF own_unshare, scan, scan_load, random, picked_unshare, thread_exit
<1>4. CASE compare_exchange(t)
  <2>1. UNCHANGED <<channel, active, owned, socket, calls>>
    BY <1>4 DEF compare_exchange
  <2>2. CASE call(t, most_idle_sub_channel[t])
    BY <1>0, <2>1, <2>2
  <2>3. CASE UNCHANGED <<at, pc>>
    BY <1>0, <2>1, <2>3
  <2>4. QED
    BY <1>4, <2>2, <2>3 DEF compare_exchange
<1>5. CASE pool_finish(t)
  BY <1>0, <1>5 DEF pool_finish
<1>6. CASE getSocket(t)
  <2>1. calls' \in [Threads -> 0..MaxCalls] /\ at' \in [Threads -> Channels]
    BY SMT, <1>0, <1>6 DEF getSocket
  <2>2. pc' \in [Threads -> Places]
    BY <1>0, <1>6 DEF getSocket
  <2>6. socket' \in [Threads -> Sockets \cup {Null}]
    <3>1. CASE socket' = socket
      BY <1>0, <3>1
    <3>2. CASE \E s \in Sockets : socket' = [socket EXCEPT ![t] = s]
      BY <1>0, <3>2
    <3>3. QED
      BY <1>6, <3>1, <3>2 DEF getSocket
  <2>3. active' \subseteq Sockets /\ owned' \subseteq Sockets
    BY <1>0, <1>6 DEF getSocket
  <2>4. UNCHANGED channel
    BY <1>6 DEF getSocket
  <2>5. QED
    BY <1>0, <2>1, <2>2, <2>3, <2>4, <2>6
<1>7. CASE finish(t)
  BY <1>0, <1>7 DEF finish
<1>8. QED
  BY <1>1, <1>2, <1>3, <1>4, <1>5, <1>6, <1>7

\* The variables of the pool, and the agreement of the two layers.
LEMMA NextTypeInv ==
  ASSUME TypeInv, Connecting, [PoolNext]_poolVars
  PROVE  TypeInv'
<1> DEFINE Phases == {"idle", "own", "own_unshare", "scan", "load", "picked", "picked_unshare"}
           PoolTypes == /\ shared_num \in [Channels -> 0..SizeMax]
                        /\ is_active \in [Channels -> BOOLEAN]
                        /\ idx \in [Threads -> Channels \cup {-1}]
                        /\ phase \in [Threads -> Phases]
                        /\ next \in [Threads -> 0..PoolSize]
                        /\ most_idle_sub_channel \in [Threads -> Channels]
                        /\ minus_shared_num \in [Threads -> 0..SizeMax]
<1>0. TypeOK /\ PoolTypes /\ InStep /\ StageOK
  BY DEF TypeInv, PoolTypeOK
<1>p. ASSUME TypeOK', PoolTypes', InStep', StageOK' PROVE TypeInv'
  BY <1>p DEF TypeInv, PoolTypeOK
<1>s. ASSUME NEW i \in Channels PROVE (shared_num[i] - 1) % (SizeMax + 1) \in 0..SizeMax
  BY SMT, <1>0, Numbered
<1>r. /\ 0 \in 0..PoolSize /\ SizeMax \in 0..SizeMax
      /\ \A k \in Channels : k + 1 \in 0..PoolSize
  BY SMT, Numbered
<1> USE Numbered DEF pool, scanning, vars, channel, goto, enter, call, returned, rescan, fetch_sub
<1>1. ASSUME NEW t \in Threads, getSubSocketInternal(t) PROVE TypeInv'
  <2>1. TypeOK'
    BY <1>1, OtherTypeOK DEF TypeInv
  <2>2. PoolTypes'
    <3>1. CASE idx[t] >= 0 /\ enter(t, "own") /\ UNCHANGED scanning
      BY <1>0, <1>1, <3>1 DEF getSubSocketInternal
    <3>2. CASE enter(t, "scan") /\ rescan(t)
      BY <1>0, <1>1, <1>r, <3>2 DEF getSubSocketInternal
    <3>3. QED
      BY <1>1, <3>1, <3>2 DEF getSubSocketInternal
  <2>3. InStep' /\ StageOK'
    <3>1. CASE idx[t] >= 0 /\ call(t, idx[t]) /\ enter(t, "own") /\ UNCHANGED scanning
      BY SMT, <1>0, <1>1, <3>1 DEF getSubSocketInternal, InStep, StageOK, TypeOK
    <3>2. CASE enter(t, "scan") /\ rescan(t) /\ UNCHANGED <<at, pc>>
      BY <1>0, <1>1, <3>2 DEF getSubSocketInternal, InStep, StageOK, TypeOK
    <3>3. QED
      BY <1>1, <3>1, <3>2 DEF getSubSocketInternal
  <2>4. QED
    BY <1>p, <2>1, <2>2, <2>3
<1>2. ASSUME NEW t \in Threads, own_true(t) PROVE TypeInv'
  <2>1. TypeOK'
    BY <1>2, OtherTypeOK DEF TypeInv
  <2>2. PoolTypes'
    BY <1>0, <1>2 DEF own_true
  <2>3. InStep' /\ StageOK'
    BY <1>0, <1>2 DEF own_true, InStep, StageOK, TypeOK
  <2>4. QED
    BY <1>p, <2>1, <2>2, <2>3
<1>3. ASSUME NEW t \in Threads, own_false(t) PROVE TypeInv'
  <2>1. TypeOK'
    BY <1>3, OtherTypeOK DEF TypeInv
  <2>2. PoolTypes'
    BY <1>0, <1>3 DEF own_false
  <2>3. InStep' /\ StageOK'
    BY <1>0, <1>3 DEF own_false, InStep, StageOK, TypeOK
  <2>4. QED
    BY <1>p, <2>1, <2>2, <2>3
<1>4. ASSUME NEW t \in Threads, own_unshare(t) PROVE TypeInv'
  <2>1. TypeOK'
    BY <1>4, OtherTypeOK DEF TypeInv
  <2>2. PoolTypes'
    <3>1. idx[t] \in Channels
      BY <1>0, <1>4 DEF own_unshare, InStep
    <3>2. shared_num' \in [Channels -> 0..SizeMax]
      BY <1>0, <1>4, <1>s, <3>1 DEF own_unshare
    <3>3. rescan(t) /\ enter(t, "scan") /\ UNCHANGED <<is_active, idx>>
      BY <1>4 DEF own_unshare
    <3>4. next' \in [Threads -> 0..PoolSize]
      BY SMT, <1>0, <3>3
    <3>5. most_idle_sub_channel' \in [Threads -> Channels] /\ minus_shared_num' \in [Threads -> 0..SizeMax]
      BY SMT, <1>0, <3>3
    <3>6. phase' \in [Threads -> Phases]
      BY <1>0, <3>3
    <3>7. QED
      BY <1>0, <3>2, <3>3, <3>4, <3>5, <3>6
  <2>3. InStep' /\ StageOK'
    BY <1>0, <1>4 DEF own_unshare, InStep, StageOK, TypeOK
  <2>4. QED
    BY <1>p, <2>1, <2>2, <2>3
<1>5. ASSUME NEW t \in Threads, scan(t) PROVE TypeInv'
  <2>1. TypeOK'
    BY <1>5, OtherTypeOK DEF TypeInv
  <2>2. next[t] \in Channels /\ next[t] + 1 \in 0..PoolSize
    BY SMT, <1>0, <1>5 DEF scan
  <2>5. CASE enter(t, "load") /\ UNCHANGED next
    BY <1>0, <1>p, <1>5, <2>1, <2>2, <2>5 DEF scan, InStep, StageOK
  <2>6. CASE next' = [next EXCEPT ![t] = @ + 1] /\ UNCHANGED phase
    <3>1. phase[t] = "scan"
      BY <1>5 DEF scan
    <3>2. PoolTypes'
      BY <1>0, <1>5, <2>2, <2>6 DEF scan
    <3>3. InStep' /\ StageOK'
      BY <1>0, <1>5, <2>2, <2>6 DEF scan, InStep, StageOK
    <3>4. QED
      BY <1>p, <2>1, <3>2, <3>3
  <2>4. QED
    BY <1>5, <2>5, <2>6 DEF scan
<1>6. ASSUME NEW t \in Threads, scan_load(t) PROVE TypeInv'
  <2>1. TypeOK'
    BY <1>6, OtherTypeOK DEF TypeInv
  <2>2. PoolTypes'
    <3>1. next[t] \in Channels
      BY <1>0, <1>6 DEF scan_load, InStep
    <3>2. QED
      BY <1>0, <1>6, <1>r, <3>1 DEF scan_load
  <2>3. InStep' /\ StageOK'
    BY <1>0, <1>6 DEF scan_load, InStep, StageOK, TypeOK
  <2>4. QED
    BY <1>p, <2>1, <2>2, <2>3
<1>7. ASSUME NEW t \in Threads, random(t) PROVE TypeInv'
  <2>1. TypeOK'
    BY <1>7, OtherTypeOK DEF TypeInv
  <2>2. PoolTypes'
    <3>1. PICK i \in Channels :
            /\ most_idle_sub_channel' = [most_idle_sub_channel EXCEPT ![t] = i]
            /\ minus_shared_num' = [minus_shared_num EXCEPT ![t] = shared_num[i]]
      BY <1>7 DEF random
    <3>2. UNCHANGED <<pool, idx, phase, next>>
      BY <1>7 DEF random
    <3>3. QED
      BY <1>0, <3>1, <3>2
  <2>3. InStep' /\ StageOK'
    BY <1>0, <1>7 DEF random, InStep, StageOK, TypeOK
  <2>4. QED
    BY <1>p, <2>1, <2>2, <2>3
<1>8. ASSUME NEW t \in Threads, compare_exchange(t) PROVE TypeInv'
  <2>1. TypeOK'
    BY <1>8, OtherTypeOK DEF TypeInv
  <2> DEFINE i == most_idle_sub_channel[t]
  <2>2. i \in Channels /\ phase[t] = "scan" /\ stage = "ready" /\ connection_type = "pooled"
    BY <1>0, <1>8 DEF compare_exchange, StageOK, InStep, TypeOK
  <2>3. idx' \in [Threads -> Channels \cup {-1}] /\ idx'[t] = i /\ UNCHANGED <<is_active, channel>>
    BY <1>0, <1>8, <2>2 DEF compare_exchange
  <2>5. CASE /\ shared_num[i] = minus_shared_num[t] /\ minus_shared_num[t] # SizeMax
             /\ shared_num' = [shared_num EXCEPT ![i] = @ + 1]
             /\ call(t, i) /\ enter(t, "picked") /\ UNCHANGED scanning
    <3>1. shared_num' \in [Channels -> 0..SizeMax]
      BY SMT, <1>0, <2>2, <2>5
    <3>2. PoolTypes'
      BY <1>0, <2>3, <2>5, <3>1
    <3>3. InStep' /\ StageOK'
      BY SMT, <1>0, <1>8, <2>2, <2>3, <2>5 DEF compare_exchange, InStep, StageOK, TypeOK
    <3>4. QED
      BY <1>p, <2>1, <3>2, <3>3
  <2>6. CASE rescan(t) /\ UNCHANGED <<shared_num, at, pc, phase>>
    <3>1. PoolTypes'
      BY <1>0, <1>r, <2>3, <2>6
    <3>2. InStep' /\ StageOK'
      <4>1. \A u \in Threads : u # t => next'[u] = next[u] /\ idx'[u] = idx[u]
        BY <1>0, <1>8, <2>6 DEF compare_exchange
      <4>2. QED
        BY <1>0, <2>2, <2>3, <2>6, <4>1 DEF InStep, StageOK
    <3>3. QED
      BY <1>p, <2>1, <3>1, <3>2
  <2>4. QED
    BY <1>8, <2>5, <2>6 DEF compare_exchange
<1>9. ASSUME NEW t \in Threads, picked_true(t) PROVE TypeInv'
  <2>1. TypeOK'
    BY <1>9, OtherTypeOK DEF TypeInv
  <2>2. PoolTypes'
    BY <1>0, <1>9 DEF picked_true
  <2>3. InStep' /\ StageOK'
    BY <1>0, <1>9 DEF picked_true, InStep, StageOK, TypeOK
  <2>4. QED
    BY <1>p, <2>1, <2>2, <2>3
<1>10. ASSUME NEW t \in Threads, picked_false(t) PROVE TypeInv'
  <2>1. TypeOK'
    BY <1>10, OtherTypeOK DEF TypeInv
  <2>2. PoolTypes'
    BY <1>0, <1>10 DEF picked_false
  <2>3. InStep' /\ StageOK'
    BY <1>0, <1>10 DEF picked_false, InStep, StageOK, TypeOK
  <2>4. QED
    BY <1>p, <2>1, <2>2, <2>3
<1>11. ASSUME NEW t \in Threads, picked_unshare(t) PROVE TypeInv'
  <2>1. TypeOK'
    BY <1>11, OtherTypeOK DEF TypeInv
  <2>2. PoolTypes'
    BY <1>0, <1>11, <1>s DEF picked_unshare, InStep
  <2>3. InStep' /\ StageOK'
    BY <1>0, <1>11 DEF picked_unshare, InStep, StageOK, TypeOK
  <2>4. QED
    BY <1>p, <2>1, <2>2, <2>3
<1>12. ASSUME NEW t \in Threads, thread_exit(t) PROVE TypeInv'
  <2>1. TypeOK'
    BY <1>12, OtherTypeOK DEF TypeInv
  <2>2. PoolTypes'
    BY <1>0, <1>12, <1>s DEF thread_exit
  <2>3. InStep' /\ StageOK'
    BY <1>0, <1>12 DEF thread_exit, InStep, StageOK, TypeOK
  <2>4. QED
    BY <1>p, <2>1, <2>2, <2>3
<1>13. ASSUME NEW t \in Threads, pool_finish(t) \/ getSocket(t) \/ finish(t),
              UNCHANGED <<pool, idx, phase, scanning>>
       PROVE  TypeInv'
  <2>1. TypeOK'
    BY <1>13, OtherTypeOK DEF TypeInv
  <2>2. PoolTypes'
    BY <1>0, <1>13
  <2>3. InStep' /\ StageOK'
    <3>1. CASE pool_finish(t)
      BY <1>0, <1>13, <3>1 DEF pool_finish, InStep, StageOK
    <3>2. CASE getSocket(t)
      <4>1. stage = "ready" /\ connection_type # "pooled" /\ UNCHANGED channel
        BY <3>2 DEF getSocket
      <4>2. QED
        BY <1>0, <1>13, <4>1 DEF InStep, StageOK
    <3>3. CASE finish(t)
      <4>1. connection_type # "pooled" /\ pc[t] # "idle" /\ UNCHANGED channel
        BY <3>3 DEF finish
      <4>2. QED
        BY <1>0, <1>13, <4>1 DEF InStep, StageOK
    <3>4. QED
      BY <1>13, <3>1, <3>2, <3>3
  <2>4. QED
    BY <1>p, <2>1, <2>2, <2>3
<1>14. ASSUME NEW t \in Threads, getSocketInternal(t), UNCHANGED <<pool, idx, phase, scanning>>
       PROVE  TypeInv'
  <2>1. TypeOK'
    BY <1>0, <1>14, GetTypeOK
  <2>2. PoolTypes'
    BY <1>0, <1>14
  <2>3. /\ connection_type' = connection_type /\ stage' = stage /\ pc[t] # "idle"
        /\ \A u \in Threads \ {t} : pc'[u] = pc[u]
    <3>1. connection_type' = connection_type /\ stage' = stage /\ pc[t] # "idle"
      BY SMT, <1>14 DEF getSocketInternal, get_tryShared, get_undo, get_active, get_upgrade,
         get_releaseShared, get_exclusive, get_replace, get_connect, get_releaseExclusive
    <3>2. \E l : pc' = [pc EXCEPT ![t] = l]
      BY <1>14 DEF getSocketInternal, get_tryShared, get_undo, get_active, get_upgrade,
         get_releaseShared, get_exclusive, get_replace, get_connect, get_releaseExclusive
    <3>3. QED
      BY <1>0, <3>1, <3>2 DEF TypeOK
  <2>4. InStep' /\ StageOK'
    BY <1>0, <1>14, <2>3 DEF InStep, StageOK
  <2>5. QED
    BY <1>p, <2>1, <2>2, <2>4
<1>15. ASSUME NEW s \in Sockets, setStatus(s), UNCHANGED <<pool, idx, phase, scanning>>
       PROVE  TypeInv'
  <2>1. TypeOK'
    BY <1>0, <1>15 DEF setStatus, TypeOK
  <2>2. PoolTypes' /\ InStep' /\ StageOK'
    BY <1>0, <1>15 DEF setStatus, InStep, StageOK
  <2>3. QED
    BY <1>p, <2>1, <2>2
<1>16. ASSUME init, UNCHANGED <<pool, idx, phase, scanning>>
       PROVE  TypeInv'
  <2>1. TypeOK'
    <3>1. PICK up \in SUBSET Channels : connected(up)
      BY <1>16 DEF init
    <3>2. \A c \in Channels : c + 1 \in Sockets
      BY SMT, BoundsAssumption DEF Sockets
    <3>3. \A c \in up : c + 1 \in Sockets
      BY <3>2
    <3>4. /\ _socket' \in [Channels -> Sockets \cup {Null}]
          /\ owned' \subseteq Sockets /\ active' \subseteq Sockets
      BY <3>1, <3>2, <3>3 DEF connected
    <3>5. QED
      BY <1>0, <1>16, <3>4 DEF init, TypeOK
  <2>2. PoolTypes' /\ InStep' /\ StageOK'
    BY <1>0, <1>16 DEF init, InStep, StageOK
  <2>3. QED
    BY <1>p, <2>1, <2>2
<1>17. ASSUME pool_destroy PROVE TypeInv'
  <2>1. TypeOK'
    BY <1>0, <1>17 DEF pool_destroy, destroy, TypeOK
  <2>2. PoolTypes' /\ InStep' /\ StageOK'
    BY <1>0, <1>17 DEF pool_destroy, destroy, InStep, StageOK
  <2>3. QED
    BY <1>p, <2>1, <2>2
<1>18. CASE UNCHANGED poolVars
  <2>1. TypeOK'
    BY <1>0, <1>18 DEF poolVars, TypeOK
  <2>2. PoolTypes' /\ InStep' /\ StageOK'
    BY <1>0, <1>18 DEF poolVars, InStep, StageOK
  <2>3. QED
    BY <1>p, <2>1, <2>2
<1>19. QED
  BY <1>1, <1>2, <1>3, <1>4, <1>5, <1>6, <1>7, <1>8, <1>9, <1>10, <1>11, <1>12, <1>13, <1>14,
     <1>15, <1>16, <1>17, <1>18 DEF PoolNext, inCall, pool_finish
-----------------------------------------------------------------------------
(***************************************************************************)
(* The lock of a channel.  Its word says where the threads are: how many   *)
(* hold a share, whether one is waiting to be alone, and whether one is.   *)
(***************************************************************************)
Looking == {"active", "upgrade", "release_true", "release_false", "release_exclusive"}
Sharing == Looking \cup {"undo"}
Waiting == {"release_exclusive", "exclusive"}
Replacing == {"replace", "connect", "unlock_true", "unlock_false"}
Holding == Sharing \cup Waiting \cup Replacing

SharingAt(c) == {t \in Threads : at[t] = c /\ pc[t] \in Sharing}

LockCounts == \A c \in Channels : _lock[c].shared = Cardinality(SharingAt(c))

LockFlags ==
  \A c \in Channels :
    /\ _lock[c].upgraded = 1 <=> \E t \in Threads : at[t] = c /\ pc[t] \in Waiting
    /\ _lock[c].exclusive = 1 <=> \E t \in Threads : at[t] = c /\ pc[t] \in Replacing

OneUpgraded ==
  \A t, u \in Threads :
    at[t] = at[u] /\ pc[t] \in Waiting \cup Replacing /\ pc[u] \in Waiting \cup Replacing => t = u

ReplacedUnseen ==
  \A t, u \in Threads : at[t] = at[u] /\ pc[t] \in Replacing => pc[u] \notin Looking

LockInv == LockCounts /\ LockFlags /\ OneUpgraded /\ ReplacedUnseen

\* A step outside of getSocketInternal moves no thread that holds the lock in any way.
LEMMA OutsideStep ==
  ASSUME TypeInv, [PoolNext]_poolVars, ~\E t \in Threads : getSocketInternal(t)
  PROVE  /\ _lock' = _lock
         /\ \A u \in Threads : /\ pc[u] \in Holding => pc'[u] = pc[u] /\ at'[u] = at[u]
                               /\ pc[u] \notin Holding => pc'[u] \notin Holding
<1> DEFINE Goal == /\ _lock' = _lock
                   /\ \A u \in Threads : /\ pc[u] \in Holding => pc'[u] = pc[u] /\ at'[u] = at[u]
                                         /\ pc[u] \notin Holding => pc'[u] \notin Holding
<1>0. pc \in [Threads -> Places] /\ at \in [Threads -> Channels] /\ InStep
      /\ phase \in [Threads -> {"idle", "own", "own_unshare", "scan", "load", "picked", "picked_unshare"}]
  BY DEF TypeInv, PoolTypeOK, TypeOK
<1>m. ASSUME NEW t \in Threads, NEW c, NEW l \in {"idle", "tryShared", "true", "false"},
             pc[t] \notin Holding, _lock' = _lock, pc' = [pc EXCEPT ![t] = l],
             at' = at \/ at' = [at EXCEPT ![t] = c]
      PROVE  Goal
  BY <1>0, <1>m DEF Holding, Sharing, Looking, Waiting, Replacing
<1>i. \A t \in Threads : pc[t] \in {"idle", "true", "false"} => pc[t] \notin Holding
  BY DEF Holding, Sharing, Looking, Waiting, Replacing
<1>u. ASSUME UNCHANGED <<_lock, pc, at>> PROVE Goal
  BY <1>u
<1>1. ASSUME NEW t \in Threads, getSubSocketInternal(t) PROVE Goal
  <2>1. pc[t] = "idle" /\ _lock' = _lock
    BY <1>0, <1>1 DEF getSubSocketInternal, InStep, channel
  <2>2. CASE call(t, idx[t])
    BY <1>m, <1>i, <2>1, <2>2 DEF call, goto
  <2>3. CASE UNCHANGED <<at, pc>>
    BY <1>u, <2>1, <2>3
  <2>4. QED
    BY <1>1, <2>2, <2>3 DEF getSubSocketInternal
<1>2. ASSUME NEW t \in Threads, own_true(t) \/ own_false(t) \/ picked_true(t) \/ picked_false(t)
      PROVE  Goal
  <2>1. /\ pc[t] \in {"true", "false"} /\ pc' = [pc EXCEPT ![t] = "idle"]
        /\ at' = at /\ _lock' = _lock
    BY <1>2 DEF own_true, own_false, picked_true, picked_false, returned, goto, channel
  <2>2. QED
    BY <1>m, <1>i, <2>1
<1>3. ASSUME NEW t \in Threads,
             \/ own_unshare(t) \/ scan(t) \/ scan_load(t) \/ random(t) \/ picked_unshare(t)
             \/ thread_exit(t) \/ pool_finish(t)
      PROVE  Goal
  <2>1. UNCHANGED <<_lock, pc, at>>
    BY <1>3 DEF own_unshare, scan, scan_load, random, picked_unshare, thread_exit, pool_finish,
       vars, channel
  <2>2. QED
    BY <1>u, <2>1
<1>4. ASSUME NEW t \in Threads, compare_exchange(t) PROVE Goal
  <2>1. pc[t] = "idle" \/ UNCHANGED <<at, pc>>
    <3>1. phase[t] = "scan"
      BY <1>4 DEF compare_exchange
    <3>2. connection_type = "pooled"
      BY <1>0, <3>1 DEF InStep
    <3>3. QED
      BY <1>0, <3>1, <3>2 DEF InStep
  <2>2. _lock' = _lock
    BY <1>4 DEF compare_exchange, channel
  <2>3. CASE UNCHANGED <<at, pc>>
    BY <1>u, <2>2, <2>3
  <2>4. CASE pc[t] = "idle" /\ call(t, most_idle_sub_channel[t])
    BY <1>m, <1>i, <2>2, <2>4 DEF call, goto
  <2>5. QED
    BY <1>4, <2>1, <2>3, <2>4 DEF compare_exchange
<1>5. ASSUME NEW t \in Threads, getSocket(t) PROVE Goal
  <2>1. pc[t] = "idle" /\ _lock' = _lock
    BY <1>5 DEF getSocket, channel
  <2>2. PICK c \in Channels : at' = [at EXCEPT ![t] = c]
    BY <1>5 DEF getSocket
  <2>3. PICK l \in {"tryShared", "true", "false"} : pc' = [pc EXCEPT ![t] = l]
    BY <1>5 DEF getSocket, goto
  <2>4. QED
    BY <1>m, <1>i, <2>1, <2>2, <2>3
<1>6. ASSUME NEW t \in Threads, finish(t) PROVE Goal
  <2>1. /\ pc[t] \in {"true", "false"} /\ pc' = [pc EXCEPT ![t] = "idle"]
        /\ at' = at /\ _lock' = _lock
    BY <1>6 DEF finish, goto, channel
  <2>2. QED
    BY <1>m, <1>i, <2>1
<1>7. ASSUME \/ init \/ destroy \/ UNCHANGED poolVars \/ \E s \in Sockets : setStatus(s)
      PROVE  Goal
  <2>1. UNCHANGED <<_lock, pc, at>>
    BY <1>7 DEF init, destroy, setStatus, poolVars, vars, channel
  <2>2. QED
    BY <1>u, <2>1
<1>8. QED
  BY <1>1, <1>2, <1>3, <1>4, <1>5, <1>6, <1>7 DEF PoolNext, inCall, pool_destroy

\* How a step of one thread changes the number of those that hold a share.
LEMMA ShareMoves ==
  ASSUME TypeOK, at' = at, NEW t \in Threads, NEW l,
         pc' = [pc EXCEPT ![t] = l]
  PROVE  /\ pc[t] \in Sharing /\ l \notin Sharing =>
              \A c \in Channels : Cardinality(SharingAt(c)') =
                IF c = at[t] THEN Cardinality(SharingAt(c)) - 1 ELSE Cardinality(SharingAt(c))
         /\ pc[t] \notin Sharing /\ l \in Sharing =>
              \A c \in Channels : Cardinality(SharingAt(c)') =
                IF c = at[t] THEN Cardinality(SharingAt(c)) + 1 ELSE Cardinality(SharingAt(c))
         /\ (pc[t] \in Sharing <=> l \in Sharing) =>
              \A c \in Channels : Cardinality(SharingAt(c)') = Cardinality(SharingAt(c))
<1> DEFINE S(c) == SharingAt(c)
<1>0. pc \in [Threads -> Places] /\ at \in [Threads -> Channels]
  BY DEF TypeOK
<1>1. ASSUME NEW c \in Channels \ {at[t]} PROVE S(c)' = S(c)
  BY <1>0, <1>1 DEF SharingAt
<1>2. IsFiniteSet(S(at[t])) /\ Cardinality(S(at[t])) \in Nat
  BY ThreadsAssumption, FS_Subset, FS_CardinalityType DEF SharingAt
<1>3. CASE pc[t] \in Sharing /\ l \notin Sharing
  <2>1. t \in S(at[t]) /\ SharingAt(at[t])' = SharingAt(at[t]) \ {t}
    BY <1>0, <1>3 DEF SharingAt
  <2>2. QED
    BY SMT, <1>1, <1>2, <1>3, <2>1, FS_RemoveElement
<1>4. CASE pc[t] \notin Sharing /\ l \in Sharing
  <2>1. t \notin S(at[t]) /\ SharingAt(at[t])' = SharingAt(at[t]) \cup {t}
    BY <1>0, <1>4 DEF SharingAt
  <2>2. QED
    BY SMT, <1>1, <1>2, <1>4, <2>1, FS_AddElement
<1>5. CASE pc[t] \in Sharing <=> l \in Sharing
  <2>1. SharingAt(at[t])' = SharingAt(at[t])
    BY <1>0, <1>5 DEF SharingAt
  <2>2. QED
    BY <1>1, <1>5, <2>1
<1>6. QED
  BY <1>3, <1>4, <1>5

\* getSocketInternal keeps the lock's invariant.
LEMMA GetLockInv ==
  ASSUME TypeOK, LockInv, NEW t \in Threads, getSocketInternal(t)
  PROVE  LockInv'
<1> DEFINE c == at[t]
           N(d) == Cardinality(SharingAt(d))
           N1(d) == Cardinality(SharingAt(d)')
<1>0. /\ pc \in [Threads -> Places] /\ at \in [Threads -> Channels]
      /\ c \in Channels /\ _lock \in [Channels -> Bits] /\ _lock[c] \in Bits
  BY DEF TypeOK
<1>n. \A d \in Channels : N(d) \in Nat
  BY ThreadsAssumption, FS_Subset, FS_CardinalityType DEF SharingAt
<1>l. LockCounts /\ LockFlags /\ OneUpgraded /\ ReplacedUnseen
  BY DEF LockInv
<1>a. at' = at
  BY DEF getSocketInternal, get_tryShared, get_undo, get_active, get_upgrade, get_releaseShared,
     get_exclusive, get_replace, get_connect, get_releaseExclusive
<1>q. ASSUME LockCounts', LockFlags', OneUpgraded', ReplacedUnseen' PROVE LockInv'
  BY <1>q DEF LockInv
<1> USE DEF Sharing, Looking, Waiting, Replacing
<1>1. CASE get_tryShared(t)
  <2> DEFINE l == IF UpgradedOrExclusive(_lock[c]) THEN "undo" ELSE "active"
  <2>1. pc[t] = "tryShared" /\ pc' = [pc EXCEPT ![t] = l] /\ _lock' = [_lock EXCEPT ![c] = AddShared(@)]
    BY <1>1 DEF get_tryShared, goto
  <2>2. LockCounts'
    <3>1. \A d \in Channels : N1(d) = IF d = c THEN N(d) + 1 ELSE N(d)
      BY <1>a, <2>1, ShareMoves
    <3>2. \A d \in Channels : _lock'[d].shared = IF d = c THEN _lock[d].shared + 1 ELSE _lock[d].shared
      BY <1>0, <2>1 DEF AddShared, Bits
    <3>3. QED
      BY <1>l, <3>1, <3>2 DEF LockCounts
  <2>3. LockFlags'
    BY SMT, <1>0, <1>l, <1>a, <2>1 DEF LockFlags, AddShared, Bits
  <2>4. OneUpgraded'
    BY <1>0, <1>l, <1>a, <2>1 DEF OneUpgraded
  <2>5. ReplacedUnseen'
    BY SMT, <1>0, <1>l, <1>a, <2>1 DEF ReplacedUnseen, LockFlags, UpgradedOrExclusive
  <2>6. QED
    BY <1>q, <2>2, <2>3, <2>4, <2>5
<1>2. CASE get_undo(t)
  <2>1. pc[t] = "undo" /\ pc' = [pc EXCEPT ![t] = "false"] /\ _lock' = [_lock EXCEPT ![c] = SubShared(@)]
    BY <1>2 DEF get_undo, goto
  <2>2. LockCounts'
    <3>1. \A d \in Channels : N1(d) = IF d = c THEN N(d) - 1 ELSE N(d)
      BY <1>a, <2>1, ShareMoves
    <3>2. \A d \in Channels : _lock'[d].shared = IF d = c THEN _lock[d].shared - 1 ELSE _lock[d].shared
      BY <1>0, <2>1 DEF SubShared, Bits
    <3>3. QED
      BY <1>l, <3>1, <3>2 DEF LockCounts
  <2>3. LockFlags'
    BY SMT, <1>0, <1>l, <1>a, <2>1 DEF LockFlags, SubShared, Bits
  <2>4. OneUpgraded' /\ ReplacedUnseen'
    BY <1>0, <1>l, <1>a, <2>1 DEF OneUpgraded, ReplacedUnseen
  <2>5. QED
    BY <1>q, <2>2, <2>3, <2>4
<1>3. CASE get_active(t)
  <2>1. PICK l \in {"release_true", "upgrade"} :
          pc[t] = "active" /\ pc' = [pc EXCEPT ![t] = l] /\ _lock' = _lock
    BY <1>3 DEF get_active, goto, channel
  <2>2. LockCounts'
    <3>1. \A d \in Channels : N1(d) = N(d)
      BY <1>a, <2>1, ShareMoves
    <3>2. \A d \in Channels : _lock'[d].shared = _lock[d].shared
      BY <1>0, <2>1
    <3>3. QED
      BY <1>l, <3>1, <3>2 DEF LockCounts
  <2>3. LockFlags'
    BY SMT, <1>0, <1>l, <1>a, <2>1 DEF LockFlags
  <2>4. OneUpgraded' /\ ReplacedUnseen'
    BY <1>0, <1>l, <1>a, <2>1 DEF OneUpgraded, ReplacedUnseen
  <2>5. QED
    BY <1>q, <2>2, <2>3, <2>4
<1>4. CASE get_upgrade(t)
  <2> DEFINE l == IF UpgradedOrExclusive(_lock[c]) THEN "release_false" ELSE "release_exclusive"
  <2>1. pc[t] = "upgrade" /\ pc' = [pc EXCEPT ![t] = l] /\ _lock' = [_lock EXCEPT ![c] = OrUpgraded(@)]
    BY <1>4 DEF get_upgrade, goto
  <2>2. LockCounts'
    <3>1. \A d \in Channels : N1(d) = N(d)
      BY <1>a, <2>1, ShareMoves
    <3>2. \A d \in Channels : _lock'[d].shared = _lock[d].shared
      BY <1>0, <2>1 DEF OrUpgraded, Bits
    <3>3. QED
      BY <1>l, <3>1, <3>2 DEF LockCounts
  <2>3. _lock[c].exclusive = 0
    BY SMT, <1>0, <1>l, <2>1 DEF LockFlags, ReplacedUnseen, Bits
  <2>4. LockFlags'
    <3>1. \A d \in Channels \ {c} : _lock'[d] = _lock[d]
      BY <1>0, <2>1
    <3>2. _lock'[c].upgraded = 1 /\ _lock'[c].exclusive = 0
      BY <1>0, <2>1, <2>3 DEF OrUpgraded, Bits
    <3>3. \E u \in Threads : at'[u] = c /\ pc'[u] \in Waiting
      <4>1. CASE UpgradedOrExclusive(_lock[c])
        <5>1. PICK u \in Threads : at[u] = c /\ pc[u] \in Waiting
          BY SMT, <1>0, <1>l, <2>3, <4>1 DEF LockFlags, UpgradedOrExclusive
        <5>2. QED
          BY <1>0, <1>a, <2>1, <5>1
      <4>2. CASE ~UpgradedOrExclusive(_lock[c])
        BY <1>0, <1>a, <2>1, <4>2
      <4>3. QED
        BY <4>1, <4>2
    <3>4. \A u \in Threads : at'[u] = c => pc'[u] \notin Replacing
      BY SMT, <1>0, <1>l, <1>a, <2>1, <2>3 DEF LockFlags
    <3>5. ASSUME NEW d \in Channels \ {c}
          PROVE  /\ _lock'[d].upgraded = 1 <=> \E u \in Threads : at'[u] = d /\ pc'[u] \in Waiting
                 /\ _lock'[d].exclusive = 1 <=> \E u \in Threads : at'[u] = d /\ pc'[u] \in Replacing
      BY SMT, <1>0, <1>l, <1>a, <2>1, <3>1 DEF LockFlags
    <3>6. QED
      BY SMT, <3>2, <3>3, <3>4, <3>5 DEF LockFlags
  <2>5. OneUpgraded'
    BY SMT, <1>0, <1>l, <1>a, <2>1 DEF OneUpgraded, LockFlags, UpgradedOrExclusive
  <2>6. ReplacedUnseen'
    BY <1>0, <1>l, <1>a, <2>1 DEF ReplacedUnseen
  <2>7. QED
    BY <1>q, <2>2, <2>4, <2>5, <2>6
<1>5. CASE get_releaseShared(t)
  <2>1. PICK l \in {"true", "false", "exclusive"} :
          /\ pc[t] \in {"release_true", "release_false", "release_exclusive"}
          /\ pc[t] = "release_exclusive" <=> l = "exclusive"
          /\ pc' = [pc EXCEPT ![t] = l] /\ _lock' = [_lock EXCEPT ![c] = SubShared(@)]
    BY <1>5 DEF get_releaseShared, goto
  <2>2. LockCounts'
    <3>1. \A d \in Channels : N1(d) = IF d = c THEN N(d) - 1 ELSE N(d)
      BY <1>a, <2>1, ShareMoves
    <3>2. \A d \in Channels : _lock'[d].shared = IF d = c THEN _lock[d].shared - 1 ELSE _lock[d].shared
      BY <1>0, <2>1 DEF SubShared, Bits
    <3>3. QED
      BY <1>l, <3>1, <3>2 DEF LockCounts
  <2>3. LockFlags'
    <3>1. \A d \in Channels : _lock'[d].upgraded = _lock[d].upgraded /\ _lock'[d].exclusive = _lock[d].exclusive
      BY <1>0, <2>1 DEF SubShared, Bits
    <3>2. \A u \in Threads : /\ pc'[u] \in Waiting <=> pc[u] \in Waiting
                             /\ pc'[u] \in Replacing <=> pc[u] \in Replacing
      BY <1>0, <2>1
    <3>3. QED
      BY SMT, <1>l, <1>a, <3>1, <3>2 DEF LockFlags
  <2>4. OneUpgraded' /\ ReplacedUnseen'
    BY SMT, <1>0, <1>l, <1>a, <2>1 DEF OneUpgraded, ReplacedUnseen
  <2>5. QED
    BY <1>q, <2>2, <2>3, <2>4
<1>6. CASE get_exclusive(t)
  <2>1. /\ pc[t] = "exclusive" /\ OnlyUpgraded(_lock[c])
        /\ pc' = [pc EXCEPT ![t] = "replace"] /\ _lock' = [_lock EXCEPT ![c] = OnlyExclusive]
    BY <1>6 DEF get_exclusive, goto
  <2>2. LockCounts'
    <3>0. pc[t] \notin Sharing /\ "replace" \notin Sharing /\ pc' = [pc EXCEPT ![t] = "replace"]
      BY <2>1
    <3>1. \A d \in Channels : N1(d) = N(d)
      BY <1>a, <3>0, ShareMoves
    <3>2. \A d \in Channels : _lock'[d].shared = _lock[d].shared
      BY <1>0, <2>1 DEF OnlyUpgraded, OnlyExclusive, Bits
    <3>3. QED
      BY <1>l, <3>1, <3>2 DEF LockCounts
  <2>3. SharingAt(c) = {}
    BY <1>0, <1>l, <2>1, ThreadsAssumption, FS_Subset, FS_EmptySet DEF LockCounts, OnlyUpgraded, SharingAt
  <2>4. LockFlags'
    <3>1. _lock'[c].upgraded = 0 /\ _lock'[c].exclusive = 1 /\ \A d \in Channels \ {c} : _lock'[d] = _lock[d]
      BY <1>0, <2>1 DEF OnlyExclusive
    <3>2. \A u \in Threads : at'[u] = c => pc'[u] \notin Waiting
      BY <1>0, <1>l, <1>a, <2>1 DEF OneUpgraded
    <3>3. at'[t] = c /\ pc'[t] \in Replacing
      BY <1>0, <1>a, <2>1
    <3>4. ASSUME NEW d \in Channels \ {c}
          PROVE  /\ _lock'[d].upgraded = 1 <=> \E u \in Threads : at'[u] = d /\ pc'[u] \in Waiting
                 /\ _lock'[d].exclusive = 1 <=> \E u \in Threads : at'[u] = d /\ pc'[u] \in Replacing
      BY SMT, <1>0, <1>l, <1>a, <2>1, <3>1 DEF LockFlags
    <3>5. QED
      BY SMT, <3>1, <3>2, <3>3, <3>4 DEF LockFlags
  <2>5. OneUpgraded'
    BY SMT, <1>0, <1>l, <1>a, <2>1 DEF OneUpgraded
  <2>6. ReplacedUnseen'
    BY <1>0, <1>l, <1>a, <2>1, <2>3 DEF ReplacedUnseen, SharingAt
  <2>7. QED
    BY <1>q, <2>2, <2>4, <2>5, <2>6
<1>7. CASE get_replace(t) \/ get_connect(t)
  <2>1. PICK l \in {"connect", "unlock_true", "unlock_false"} :
          pc[t] \in {"replace", "connect"} /\ pc' = [pc EXCEPT ![t] = l] /\ _lock' = _lock
    BY <1>7 DEF get_replace, get_connect, goto
  <2>2. LockCounts'
    <3>1. \A d \in Channels : N1(d) = N(d)
      BY <1>a, <2>1, ShareMoves
    <3>2. \A d \in Channels : _lock'[d].shared = _lock[d].shared
      BY <1>0, <2>1
    <3>3. QED
      BY <1>l, <3>1, <3>2 DEF LockCounts
  <2>3. LockFlags'
    <3>1. \A u \in Threads : /\ pc'[u] \in Waiting <=> pc[u] \in Waiting
                             /\ pc'[u] \in Replacing <=> pc[u] \in Replacing
      BY <1>0, <2>1
    <3>2. QED
      BY <1>l, <1>a, <2>1, <3>1 DEF LockFlags
  <2>4. OneUpgraded' /\ ReplacedUnseen'
    BY SMT, <1>0, <1>l, <1>a, <2>1 DEF OneUpgraded, ReplacedUnseen
  <2>5. QED
    BY <1>q, <2>2, <2>3, <2>4
<1>8. CASE get_releaseExclusive(t)
  <2>1. PICK l \in {"true", "false"} :
          /\ pc[t] \in {"unlock_true", "unlock_false"} /\ pc' = [pc EXCEPT ![t] = l]
          /\ _lock' = [_lock EXCEPT ![c] = ClearExclusive(@)]
    BY <1>8 DEF get_releaseExclusive, goto
  <2>2. LockCounts'
    <3>1. \A d \in Channels : N1(d) = N(d)
      BY <1>a, <2>1, ShareMoves
    <3>2. \A d \in Channels : _lock'[d].shared = _lock[d].shared
      BY <1>0, <2>1 DEF ClearExclusive, Bits
    <3>3. QED
      BY <1>l, <3>1, <3>2 DEF LockCounts
  <2>3. LockFlags'
    <3>1. _lock'[c].upgraded = 0 /\ _lock'[c].exclusive = 0 /\ \A d \in Channels \ {c} : _lock'[d] = _lock[d]
      BY <1>0, <2>1 DEF ClearExclusive, Bits
    <3>2. \A u \in Threads : at'[u] = c => pc'[u] \notin Waiting \cup Replacing
      BY <1>0, <1>l, <1>a, <2>1 DEF OneUpgraded
    <3>3. ASSUME NEW d \in Channels \ {c}
          PROVE  /\ _lock'[d].upgraded = 1 <=> \E u \in Threads : at'[u] = d /\ pc'[u] \in Waiting
                 /\ _lock'[d].exclusive = 1 <=> \E u \in Threads : at'[u] = d /\ pc'[u] \in Replacing
      BY SMT, <1>0, <1>l, <1>a, <2>1, <3>1 DEF LockFlags
    <3>4. QED
      BY SMT, <3>1, <3>2, <3>3 DEF LockFlags
  <2>4. OneUpgraded' /\ ReplacedUnseen'
    BY <1>0, <1>l, <1>a, <2>1 DEF OneUpgraded, ReplacedUnseen
  <2>5. QED
    BY <1>q, <2>2, <2>3, <2>4
<1>9. QED
  BY <1>1, <1>2, <1>3, <1>4, <1>5, <1>6, <1>7, <1>8 DEF getSocketInternal

\* Initially, and over every step, the word of each lock agrees with the threads.
LEMMA NextLockInv ==
  ASSUME TypeInv, LockInv, [PoolNext]_poolVars
  PROVE  LockInv'
<1>0. TypeOK /\ pc \in [Threads -> Places]
  BY DEF TypeInv, PoolTypeOK, TypeOK
<1>1. CASE \E t \in Threads : getSocketInternal(t)
  BY <1>0, <1>1, GetLockInv
<1>2. CASE ~\E t \in Threads : getSocketInternal(t)
  <2>1. /\ _lock' = _lock
        /\ \A u \in Threads : /\ pc[u] \in Holding => pc'[u] = pc[u] /\ at'[u] = at[u]
                              /\ pc[u] \notin Holding => pc'[u] \notin Holding
    BY <1>2, OutsideStep
  <2>2. \A c \in Channels : SharingAt(c)' = SharingAt(c)
    BY <2>1 DEF SharingAt, Holding
  <2>3. LockCounts'
    BY <2>1, <2>2 DEF LockInv, LockCounts
  <2>4. LockFlags'
    BY SMT, <2>1 DEF LockInv, LockFlags, Holding
  <2>5. OneUpgraded' /\ ReplacedUnseen'
    BY <2>1 DEF LockInv, OneUpgraded, ReplacedUnseen, Holding, Sharing
  <2>6. QED
    BY <2>3, <2>4, <2>5 DEF LockInv
<1>3. QED
  BY <1>1, <1>2

\* The initial state satisfies the lock's invariant.
LEMMA InitLockInv == PoolInit => LockInv
<1> SUFFICES ASSUME PoolInit PROVE LockInv
  OBVIOUS
<1>1. \A c \in Channels : _lock[c] = NoBits
  BY DEF PoolInit, Init
<1>2. \A t \in Threads : pc[t] \notin Holding
  BY DEF PoolInit, Init, Holding, Sharing, Looking, Waiting, Replacing
<1>3. \A c \in Channels : SharingAt(c) = {}
  BY <1>2 DEF SharingAt, Holding
<1>4. LockCounts
  BY SMT, <1>1, <1>3, FS_EmptySet DEF LockCounts, NoBits
<1>5. LockFlags
  BY SMT, <1>1, <1>2 DEF LockFlags, NoBits, Holding
<1>6. OneUpgraded /\ ReplacedUnseen
  BY <1>2 DEF OneUpgraded, ReplacedUnseen, Holding
<1>7. QED
  BY <1>4, <1>5, <1>6 DEF LockInv
-----------------------------------------------------------------------------
(***************************************************************************)
(* The connections.  Every channel owns the one it has, no two have the    *)
(* same, and the one a thread is about to replace is dead and stays so.    *)
(***************************************************************************)
Distinct == \A c, d \in Channels : _socket[c] = _socket[d] /\ _socket[c] # Null => c = d

OwnsCurrent == \A c \in Channels : _socket[c] # Null => _socket[c] \in owned

ActiveOwned == stage # "gone" => active \subseteq owned

Condemning == {"upgrade", "release_exclusive", "exclusive", "replace", "connect"}

Condemned == \A t \in Threads : pc[t] \in Condemning => _socket[at[t]] \notin active

OwnsNoOther ==
  connection_type # "short" => \A s \in owned : \E c \in Channels : _socket[c] = s

SocketInv == Distinct /\ OwnsCurrent /\ ActiveOwned /\ Condemned /\ Connecting /\ OwnsNoOther

\* The initial state satisfies the sockets' invariant.
LEMMA InitSocketInv == PoolInit => SocketInv
<1> SUFFICES ASSUME PoolInit PROVE SocketInv
  OBVIOUS
<1>1. /\ \A c \in Channels : _socket[c] = Null
      /\ owned = {} /\ active = {} /\ \A t \in Threads : pc[t] = "idle"
  BY DEF PoolInit, Init
<1>2. QED
  BY <1>1 DEF SocketInv, Distinct, OwnsCurrent, ActiveOwned, Condemned, Condemning, Connecting,
     OwnsNoOther

\* A step that leaves the connections alone, and brings no thread to condemn one
\* that is active.
LEMMA SameSockets ==
  ASSUME SocketInv, UNCHANGED <<_socket, owned, stage, connection_type>>, active' \subseteq active,
         \A u \in Threads :
           /\ pc'[u] \in Condemning =>
                at'[u] = at[u] /\ (pc[u] \in Condemning \/ _socket[at[u]] \notin active)
           /\ pc'[u] = "connect" => pc[u] = "connect"
  PROVE  SocketInv'
<1>0. Distinct /\ OwnsCurrent /\ ActiveOwned /\ Condemned /\ Connecting /\ OwnsNoOther
  BY DEF SocketInv
<1>1. Distinct' /\ OwnsCurrent' /\ OwnsNoOther'
  BY <1>0 DEF Distinct, OwnsCurrent, OwnsNoOther
<1>2. ActiveOwned'
  BY <1>0 DEF ActiveOwned
<1>3. Condemned'
  BY <1>0 DEF Condemned
<1>4. Connecting'
  BY <1>0 DEF Connecting, Condemning
<1>5. QED
  BY <1>1, <1>2, <1>3, <1>4 DEF SocketInv

\* The steps of getSocketInternal that change _socket or make it active.
LEMMA ReplaceSocketInv ==
  ASSUME TypeOK, LockInv, SocketInv, stage = "ready", NEW t \in Threads, get_replace(t)
  PROVE  SocketInv'
<1> DEFINE c == at[t]
<1>0. Distinct /\ OwnsCurrent /\ ActiveOwned /\ Condemned /\ Connecting /\ OwnsNoOther
  BY DEF SocketInv
<1>t. /\ pc \in [Threads -> Places] /\ at \in [Threads -> Channels] /\ c \in Channels
      /\ _socket \in [Channels -> Sockets \cup {Null}] /\ Null \notin Sockets
      /\ active \subseteq Sockets /\ owned \subseteq Sockets
  BY Numbered DEF TypeOK
<1>1. PICK s \in Sockets :
        /\ IsNew(s) /\ _socket' = [_socket EXCEPT ![c] = s] /\ owned' = (owned \ {_socket[c]}) \cup {s}
  BY DEF get_replace
<1>2. /\ pc[t] = "replace" /\ pc' = [pc EXCEPT ![t] = "connect"]
      /\ UNCHANGED <<connection_type, stage, active, at>>
  BY DEF get_replace, goto
<1>3. s \notin owned /\ \A d \in Channels : _socket[d] # s
  BY <1>1 DEF IsNew, InUse
<1>4. _socket[c] \notin active /\ s \notin active
  BY <1>0, <1>2, <1>3 DEF Condemned, Condemning, ActiveOwned
<1>5. Distinct'
  BY <1>0, <1>t, <1>1, <1>3 DEF Distinct
<1>6. OwnsCurrent'
  <2>1. SUFFICES ASSUME NEW d \in Channels, _socket'[d] # Null PROVE _socket'[d] \in owned'
    BY DEF OwnsCurrent
  <2>2. CASE d = c
    BY <1>t, <1>1, <2>2
  <2>3. CASE d # c
    BY <1>0, <1>t, <1>1, <2>1, <2>3 DEF OwnsCurrent, Distinct
  <2>4. QED
    BY <2>2, <2>3
<1>7. ActiveOwned'
  BY <1>0, <1>1, <1>2, <1>4 DEF ActiveOwned
<1>8. Condemned'
  BY <1>0, <1>t, <1>1, <1>2, <1>4 DEF Condemned, Condemning
<1>9. Connecting'
  BY <1>0, <1>t, <1>1, <1>2 DEF Connecting
<1>10. OwnsNoOther'
  <2>1. SUFFICES ASSUME connection_type # "short", NEW r \in owned' PROVE \E d \in Channels : _socket'[d] = r
    BY <1>2 DEF OwnsNoOther
  <2>2. CASE r = s
    BY <1>t, <1>1, <2>2
  <2>3. CASE r \in owned /\ r # _socket[c]
    <3>1. PICK d \in Channels : _socket[d] = r
      BY <1>0, <2>1, <2>3 DEF OwnsNoOther
    <3>2. QED
      BY <1>t, <1>1, <2>3, <3>1
  <2>4. QED
    BY <1>1, <2>1, <2>2, <2>3
<1>11. QED
  BY <1>5, <1>6, <1>7, <1>8, <1>9, <1>10 DEF SocketInv

\* A connect inside getSocketInternal keeps the sockets' invariant.
LEMMA ConnectSocketInv ==
  ASSUME TypeOK, LockInv, SocketInv, stage = "ready", NEW t \in Threads, get_connect(t)
  PROVE  SocketInv'
<1> DEFINE c == at[t]
           s == _socket[c]
<1>0. Distinct /\ OwnsCurrent /\ ActiveOwned /\ Condemned /\ Connecting /\ OwnsNoOther
  BY DEF SocketInv
<1>t. /\ pc \in [Threads -> Places] /\ at \in [Threads -> Channels] /\ c \in Channels
      /\ _socket \in [Channels -> Sockets \cup {Null}] /\ Null \notin Sockets
      /\ active \subseteq Sockets /\ owned \subseteq Sockets
  BY Numbered DEF TypeOK
<1>1. pc[t] = "connect" /\ UNCHANGED <<connection_type, stage, at>>
  BY DEF get_connect
<1>2. s # Null /\ s \notin active /\ s \in owned
  BY <1>0, <1>1, <1>t DEF Connecting, Condemned, Condemning, OwnsCurrent
<1>3. \A u \in Threads : u # t /\ at[u] = c => pc[u] \notin Condemning
  BY <1>t, <1>1 DEF LockInv, OneUpgraded, ReplacedUnseen, Waiting, Replacing, Looking, Condemning
<1>4. CASE /\ active' = active \cup {s} /\ pc' = [pc EXCEPT ![t] = "unlock_true"]
           /\ UNCHANGED <<_socket, owned>>
  <2>1. Distinct' /\ OwnsCurrent' /\ OwnsNoOther'
    BY <1>0, <1>1, <1>4 DEF Distinct, OwnsCurrent, OwnsNoOther
  <2>2. ActiveOwned'
    BY <1>0, <1>1, <1>2, <1>4 DEF ActiveOwned
  <2>3. Condemned'
    <3>1. SUFFICES ASSUME NEW u \in Threads, pc'[u] \in Condemning PROVE _socket'[at'[u]] \notin active'
      BY DEF Condemned
    <3>2. u # t
      BY <1>t, <1>4, <3>1 DEF Condemning
    <3>3. pc[u] \in Condemning /\ at[u] # c
      BY <1>t, <1>3, <1>4, <3>1, <3>2
    <3>4. _socket[at[u]] \notin active /\ _socket[at[u]] # s
      BY <1>0, <1>t, <1>2, <3>3 DEF Condemned, Distinct
    <3>5. QED
      BY <1>1, <1>4, <3>4
  <2>4. Connecting'
    BY <1>0, <1>t, <1>1, <1>4 DEF Connecting
  <2>5. QED
    BY <2>1, <2>2, <2>3, <2>4 DEF SocketInv
<1>5. CASE /\ owned' = owned \ {s} /\ _socket' = [_socket EXCEPT ![c] = Null]
           /\ pc' = [pc EXCEPT ![t] = "unlock_false"] /\ active' = active
  <2>1. \A d \in Channels : _socket'[d] = IF d = c THEN Null ELSE _socket[d]
    BY <1>t, <1>5
  <2>2. Distinct'
    BY <1>0, <2>1 DEF Distinct
  <2>3. OwnsCurrent'
    BY SMT, <1>0, <1>t, <1>2, <1>5, <2>1 DEF OwnsCurrent, Distinct
  <2>4. OwnsNoOther'
    BY <1>0, <1>1, <1>5, <2>1 DEF OwnsNoOther
  <2>5. ActiveOwned'
    BY <1>0, <1>1, <1>2, <1>5 DEF ActiveOwned
  <2>6. Condemned'
    <3>1. SUFFICES ASSUME NEW u \in Threads, pc'[u] \in Condemning PROVE _socket'[at'[u]] \notin active'
      BY DEF Condemned
    <3>2. u # t
      BY <1>t, <1>5, <3>1 DEF Condemning
    <3>3. pc[u] \in Condemning /\ at[u] # c /\ at[u] \in Channels
      BY <1>t, <1>3, <1>5, <3>1, <3>2
    <3>4. QED
      BY SMT, <1>0, <1>1, <1>5, <2>1, <3>3 DEF Condemned
  <2>7. Connecting'
    <3>1. SUFFICES ASSUME NEW u \in Threads, pc'[u] = "connect" PROVE _socket'[at'[u]] # Null
      BY DEF Connecting
    <3>2. u # t
      BY <1>t, <1>5, <3>1
    <3>3. pc[u] = "connect" /\ at[u] # c /\ at[u] \in Channels
      BY <1>t, <1>3, <1>5, <3>1, <3>2 DEF Condemning
    <3>4. QED
      BY <1>0, <1>1, <2>1, <3>3 DEF Connecting
  <2>8. QED
    BY <2>2, <2>3, <2>4, <2>5, <2>6, <2>7 DEF SocketInv
<1>6. QED
  BY <1>4, <1>5 DEF get_connect, goto

\* getSocketInternal keeps the sockets' invariant.
LEMMA GetSocketInv ==
  ASSUME TypeInv, LockInv, SocketInv, NEW t \in Threads, getSocketInternal(t)
  PROVE  SocketInv'
<1>0. TypeOK /\ StageOK /\ pc \in [Threads -> Places] /\ at \in [Threads -> Channels]
  BY DEF TypeInv, PoolTypeOK, TypeOK
<1>1. stage = "ready"
  BY <1>0 DEF StageOK, getSocketInternal, get_tryShared, get_undo, get_active, get_upgrade,
     get_releaseShared, get_exclusive, get_replace, get_connect, get_releaseExclusive
<1>2. CASE get_replace(t)
  BY <1>0, <1>1, <1>2, ReplaceSocketInv
<1>3. CASE get_connect(t)
  BY <1>0, <1>1, <1>3, ConnectSocketInv
<1>4. ASSUME NEW l, pc' = [pc EXCEPT ![t] = l], at' = at, l # "connect",
             l \in Condemning => pc[t] \in Condemning \/ _socket[at[t]] \notin active,
             UNCHANGED <<_socket, owned, stage, connection_type, active>>
      PROVE  SocketInv'
  <2>1. \A u \in Threads :
          /\ pc'[u] \in Condemning =>
               at'[u] = at[u] /\ (pc[u] \in Condemning \/ _socket[at[u]] \notin active)
          /\ pc'[u] = "connect" => pc[u] = "connect"
    BY <1>0, <1>4
  <2>2. QED
    BY <1>4, <2>1, SameSockets
<1>5. CASE get_tryShared(t) \/ get_undo(t) \/ get_releaseExclusive(t)
  <2>1. PICK l \in {"undo", "active", "false", "true"} : pc' = [pc EXCEPT ![t] = l]
    BY <1>5 DEF get_tryShared, get_undo, get_releaseExclusive, goto
  <2>2. UNCHANGED <<_socket, owned, stage, connection_type, active, at>>
    BY <1>5 DEF get_tryShared, get_undo, get_releaseExclusive
  <2>3. QED
    BY <1>4, <2>1, <2>2 DEF Condemning
<1>6. CASE get_active(t)
  <2>1. PICK l \in {"release_true", "upgrade"} :
          pc' = [pc EXCEPT ![t] = l] /\ (l = "upgrade" => _socket[at[t]] \notin active)
    BY <1>6 DEF get_active, goto
  <2>2. UNCHANGED <<_socket, owned, stage, connection_type, active, at>>
    BY <1>6 DEF get_active, channel
  <2>3. QED
    BY <1>4, <2>1, <2>2 DEF Condemning
<1>7. CASE get_upgrade(t) \/ get_releaseShared(t) \/ get_exclusive(t)
  <2>1. PICK l \in {"release_false", "release_exclusive", "true", "false", "exclusive", "replace"} :
          /\ pc' = [pc EXCEPT ![t] = l]
          /\ l \in {"release_exclusive", "exclusive", "replace"} =>
               pc[t] \in {"upgrade", "release_exclusive", "exclusive"}
    BY <1>7 DEF get_upgrade, get_releaseShared, get_exclusive, goto
  <2>2. UNCHANGED <<_socket, owned, stage, connection_type, active, at>>
    BY <1>7 DEF get_upgrade, get_releaseShared, get_exclusive
  <2>3. QED
    BY <1>4, <2>1, <2>2 DEF Condemning
<1>8. QED
  BY <1>2, <1>3, <1>5, <1>6, <1>7 DEF getSocketInternal

\* Every step keeps the sockets' invariant.
LEMMA NextSocketInv ==
  ASSUME TypeInv, LockInv, SocketInv, [PoolNext]_poolVars
  PROVE  SocketInv'
<1>0. /\ TypeOK /\ StageOK /\ _socket \in [Channels -> Sockets \cup {Null}] /\ Null \notin Sockets
      /\ active \subseteq Sockets /\ owned \subseteq Sockets /\ at \in [Threads -> Channels]
  BY Numbered DEF TypeInv, PoolTypeOK, TypeOK
<1>i. Distinct /\ OwnsCurrent /\ ActiveOwned /\ Condemned /\ Connecting /\ OwnsNoOther
  BY DEF SocketInv
<1>1. CASE \E t \in Threads : getSocketInternal(t)
  BY <1>1, GetSocketInv
<1>2. CASE ~\E t \in Threads : getSocketInternal(t)
  <2>0. \A u \in Threads : pc'[u] \in Condemning => pc[u] = pc'[u] /\ at'[u] = at[u]
    <3>1. Condemning \subseteq Holding
      BY DEF Condemning, Holding, Sharing, Looking, Waiting, Replacing
    <3>2. QED
      BY <1>2, <3>1, OutsideStep
  <2>c. "connect" \in Condemning
    BY DEF Condemning
  <2>u. ASSUME UNCHANGED <<_socket, owned, stage, connection_type>>, active' \subseteq active
        PROVE  SocketInv'
    BY <2>0, <2>c, <2>u, SameSockets
  <2>1. ASSUME NEW t \in Threads,
               \/ getSubSocketInternal(t) \/ own_true(t) \/ own_false(t) \/ own_unshare(t)
               \/ scan(t) \/ scan_load(t) \/ random(t) \/ compare_exchange(t)
               \/ picked_true(t) \/ picked_false(t) \/ picked_unshare(t)
               \/ pool_finish(t) \/ thread_exit(t) \/ finish(t)
        PROVE  SocketInv'
    <3>1. UNCHANGED <<_socket, owned, stage, connection_type, active>>
      BY <2>1 DEF getSubSocketInternal, own_true, own_false, own_unshare, scan, scan_load, random,
         compare_exchange, picked_true, picked_false, picked_unshare, pool_finish, thread_exit,
         finish, vars, channel
    <3>2. QED
      BY <2>u, <3>1
  <2>2. ASSUME NEW r \in Sockets, setStatus(r) PROVE SocketInv'
    <3>1. UNCHANGED <<_socket, owned, stage, connection_type>> /\ active' \subseteq active
      BY <2>2 DEF setStatus, channel
    <3>2. QED
      BY <2>u, <3>1
  <2>3. CASE UNCHANGED poolVars
    <3>1. UNCHANGED <<_socket, owned, stage, connection_type, active>>
      BY <2>3 DEF poolVars, vars, channel
    <3>2. QED
      BY <2>u, <3>1
  <2>4. ASSUME NEW t \in Threads, getSocket(t) PROVE SocketInv'
    <3>1. UNCHANGED <<_socket, stage, connection_type>>
      BY <2>4 DEF getSocket, channel
    <3>2. CASE UNCHANGED <<socket, owned, active>>
      BY <2>u, <3>1, <3>2
    <3>3. CASE connection_type = "short" /\ \E s \in Sockets :
                 IsNew(s) /\ owned' = owned \cup {s} /\ active' = active \cup {s}
      <4>1. PICK s \in Sockets : IsNew(s) /\ owned' = owned \cup {s} /\ active' = active \cup {s}
        BY <3>3
      <4>2. \A c \in Channels : _socket[c] # s
        BY <4>1 DEF IsNew, InUse
      <4>3. Distinct' /\ OwnsCurrent'
        BY <1>i, <3>1, <4>1 DEF Distinct, OwnsCurrent
      <4>4. OwnsNoOther'
        BY <3>1, <3>3 DEF OwnsNoOther
      <4>5. ActiveOwned'
        BY <1>i, <3>1, <4>1 DEF ActiveOwned
      <4>6. Condemned'
        BY <1>0, <1>i, <2>0, <3>1, <4>1, <4>2 DEF Condemned
      <4>7. Connecting'
        BY <1>0, <1>i, <2>0, <2>c, <3>1 DEF Connecting
      <4>8. QED
        BY <4>3, <4>4, <4>5, <4>6, <4>7 DEF SocketInv
    <3>4. QED
      BY <2>4, <3>2, <3>3 DEF getSocket
  <2>5. CASE init
    <3>1. PICK up \in SUBSET Channels : connected(up)
      BY <2>5 DEF init
    <3>2. \A t \in Threads : pc'[t] = "idle"
      BY <1>0, <2>5 DEF init, StageOK
    <3>3. /\ \A c \in Channels : _socket'[c] = IF c \in up THEN c + 1 ELSE Null
          /\ owned' = {c + 1 : c \in up} /\ active' = owned'
      BY <3>1 DEF connected
    <3>4. Distinct'
      BY SMT, <3>3, Numbered DEF Distinct, Null
    <3>5. OwnsCurrent' /\ ActiveOwned'
      BY <3>3, Numbered DEF OwnsCurrent, ActiveOwned
    <3>6. OwnsNoOther'
      BY <3>3 DEF OwnsNoOther
    <3>7. Condemned' /\ Connecting'
      BY <3>2 DEF Condemned, Condemning, Connecting
    <3>8. QED
      BY <3>4, <3>5, <3>6, <3>7 DEF SocketInv
  <2>6. CASE destroy
    <3>1. /\ \A t \in Threads : pc'[t] = "idle"
          /\ \A c \in Channels : _socket'[c] = Null
          /\ stage' = "gone" /\ connection_type' = connection_type
          /\ owned' = owned \ {_socket[c] : c \in Channels}
      BY <2>6 DEF destroy
    <3>2. Distinct' /\ OwnsCurrent' /\ ActiveOwned' /\ Condemned' /\ Connecting'
      BY <3>1 DEF Distinct, OwnsCurrent, ActiveOwned, Condemned, Condemning, Connecting
    <3>3. OwnsNoOther'
      BY <1>i, <3>1 DEF OwnsNoOther
    <3>4. QED
      BY <3>2, <3>3 DEF SocketInv
  <2>7. QED
    BY <1>2, <2>1, <2>2, <2>3, <2>4, <2>5, <2>6 DEF PoolNext, inCall, pool_destroy
<1>3. QED
  BY <1>1, <1>2
-----------------------------------------------------------------------------
(***************************************************************************)
(* The shares of the pool.                                                 *)
(***************************************************************************)
CountedIn(c) == {t \in Threads : CountedAt(t) = c}

ShareInv == \A c \in Channels : shared_num[c] = Cardinality(CountedIn(c))

\* How a step of one thread changes who is counted where.
LEMMA CountMoves ==
  ASSUME NEW t \in Threads, \A u \in Threads \ {t} : CountedAt(u)' = CountedAt(u)
  PROVE  /\ \A c \in Channels : IsFiniteSet(CountedIn(c)) /\ Cardinality(CountedIn(c)) \in 0..(SizeMax - 1)
         /\ CountedAt(t)' = CountedAt(t) => \A c \in Channels : CountedIn(c)' = CountedIn(c)
         /\ \A i \in Channels : CountedAt(t) = i /\ CountedAt(t)' = -1 =>
              \A c \in Channels : Cardinality(CountedIn(c)') =
                IF c = i THEN Cardinality(CountedIn(c)) - 1 ELSE Cardinality(CountedIn(c))
         /\ \A i \in Channels : CountedAt(t) = -1 /\ CountedAt(t)' = i =>
              \A c \in Channels : Cardinality(CountedIn(c)') =
                IF c = i THEN Cardinality(CountedIn(c)) + 1 ELSE Cardinality(CountedIn(c))
<1>0. Channels \subseteq Nat /\ -1 \notin Channels
  BY SMT, Numbered
<1>1. \A c \in Channels : IsFiniteSet(CountedIn(c)) /\ Cardinality(CountedIn(c)) \in 0..(SizeMax - 1)
  <2>1. \A c \in Channels : CountedIn(c) \subseteq Threads
    BY DEF CountedIn
  <2>2. \A c \in Channels : /\ IsFiniteSet(CountedIn(c)) /\ Cardinality(CountedIn(c)) \in Nat
                            /\ Cardinality(CountedIn(c)) <= Cardinality(Threads)
    BY <2>1, ThreadsAssumption, FS_Subset, FS_CardinalityType
  <2>3. Cardinality(Threads) \in Nat
    BY ThreadsAssumption, FS_CardinalityType
  <2>4. QED
    BY SMT, <2>2, <2>3 DEF SizeMax
<1>2. ASSUME CountedAt(t)' = CountedAt(t), NEW c \in Channels PROVE CountedIn(c)' = CountedIn(c)
  BY <1>2 DEF CountedIn
<1>3. ASSUME NEW i \in Channels, CountedAt(t) = i, CountedAt(t)' = -1, NEW c \in Channels
      PROVE  Cardinality(CountedIn(c)') =
               IF c = i THEN Cardinality(CountedIn(c)) - 1 ELSE Cardinality(CountedIn(c))
  <2>1. CASE c = i
    <3>1. t \in CountedIn(c) /\ CountedIn(c)' = CountedIn(c) \ {t}
      BY <1>0, <1>3, <2>1 DEF CountedIn
    <3>2. QED
      BY <1>1, <2>1, <3>1, FS_RemoveElement
  <2>2. CASE c # i
    <3>1. CountedIn(c)' = CountedIn(c)
      BY <1>0, <1>3, <2>2 DEF CountedIn
    <3>2. QED
      BY <2>2, <3>1
  <2>3. QED
    BY <2>1, <2>2
<1>4. ASSUME NEW i \in Channels, CountedAt(t) = -1, CountedAt(t)' = i, NEW c \in Channels
      PROVE  Cardinality(CountedIn(c)') =
               IF c = i THEN Cardinality(CountedIn(c)) + 1 ELSE Cardinality(CountedIn(c))
  <2>1. CASE c = i
    <3>1. t \notin CountedIn(c) /\ CountedIn(c)' = CountedIn(c) \cup {t}
      BY SMT, <1>0, <1>4, <2>1 DEF CountedIn
    <3>2. QED
      BY <1>1, <2>1, <3>1, FS_AddElement
  <2>2. CASE c # i
    <3>1. CountedIn(c)' = CountedIn(c)
      BY <1>0, <1>4, <2>2 DEF CountedIn
    <3>2. QED
      BY <2>2, <3>1
  <2>3. QED
    BY <2>1, <2>2
<1>5. QED
  BY <1>1, <1>2, <1>3, <1>4

\* Every step keeps the invariant of the shared counts.
LEMMA NextShareInv ==
  ASSUME TypeInv, ShareInv, [PoolNext]_poolVars
  PROVE  ShareInv'
<1> DEFINE N(c) == Cardinality(CountedIn(c))
           N1(c) == Cardinality(CountedIn(c)')
           Phases == {"idle", "own", "own_unshare", "scan", "load", "picked", "picked_unshare"}
<1>0. /\ idx \in [Threads -> Channels \cup {-1}] /\ phase \in [Threads -> Phases]
      /\ shared_num \in [Channels -> 0..SizeMax] /\ most_idle_sub_channel \in [Threads -> Channels]
      /\ InStep /\ Channels \subseteq Nat /\ SizeMax \in Nat
  BY Numbered DEF TypeInv, PoolTypeOK
<1>s. \A c \in Channels : shared_num[c] = N(c)
  BY DEF ShareInv
<1>u. ASSUME UNCHANGED <<idx, phase, shared_num>> PROVE ShareInv'
  BY <1>u DEF ShareInv, CountedIn, CountedAt
<1>same. ASSUME NEW t \in Threads, shared_num' = shared_num,
                \A u \in Threads \ {t} : CountedAt(u)' = CountedAt(u), CountedAt(t)' = CountedAt(t)
         PROVE  ShareInv'
  BY <1>s, <1>same, CountMoves DEF ShareInv
<1>sub. ASSUME NEW t \in Threads, NEW i \in Channels, fetch_sub(i),
               \A u \in Threads \ {t} : CountedAt(u)' = CountedAt(u),
               CountedAt(t) = i, CountedAt(t)' = -1
        PROVE  ShareInv'
  <2>1. \A c \in Channels : N1(c) = IF c = i THEN N(c) - 1 ELSE N(c)
    BY <1>sub, CountMoves
  <2>2. IsFiniteSet(CountedIn(i)) /\ N(i) \in 0..(SizeMax - 1)
    BY <1>sub, CountMoves
  <2>3. N(i) # 0
    BY <1>sub, <2>2, FS_EmptySet DEF CountedIn
  <2>4. (N(i) - 1) % (SizeMax + 1) = N(i) - 1
    BY SMT, <1>0, <2>2, <2>3
  <2>5. \A c \in Channels : shared_num'[c] = IF c = i THEN N(c) - 1 ELSE N(c)
    BY <1>0, <1>s, <1>sub, <2>4 DEF fetch_sub
  <2>6. QED
    BY <2>1, <2>5 DEF ShareInv
<1>1. ASSUME NEW t \in Threads, getSubSocketInternal(t) PROVE ShareInv'
  <2>1. shared_num' = shared_num /\ idx' = idx /\ phase[t] = "idle"
    BY <1>1 DEF getSubSocketInternal, pool
  <2>2. CASE enter(t, "own")
    BY <1>0, <1>same, <2>1, <2>2 DEF enter, CountedAt
  <2>3. CASE idx[t] < 0 /\ enter(t, "scan")
    <3>0. idx[t] < 0
      BY <2>3
    <3>1. ASSUME idx[t] # -1 PROVE FALSE
      <4>1. idx[t] \in Nat
        BY <1>0, <3>1
      <4>2. QED
        BY SMT, <3>0, <4>1
    <3>2. QED
      BY <1>0, <1>same, <2>1, <2>3, <3>1 DEF enter, CountedAt
  <2>4. QED
    BY <1>1, <2>2, <2>3 DEF getSubSocketInternal
<1>2. ASSUME NEW t \in Threads,
             own_true(t) \/ own_false(t) \/ picked_true(t) \/ picked_false(t)
      PROVE  ShareInv'
  <2>1. PICK p \in {"idle", "own_unshare", "picked_unshare"} :
          /\ phase' = [phase EXCEPT ![t] = p] /\ shared_num' = shared_num /\ idx' = idx
          /\ phase[t] \in {"own", "picked"}
    BY <1>2 DEF own_true, own_false, picked_true, picked_false, enter, pool
  <2>2. QED
    BY <1>0, <1>same, <2>1 DEF CountedAt
<1>3. ASSUME NEW t \in Threads, scan(t) \/ scan_load(t) PROVE ShareInv'
  <2>1. PICK p \in {"scan", "load"} :
          /\ phase' = [phase EXCEPT ![t] = p] /\ shared_num' = shared_num /\ idx' = idx
          /\ phase[t] \in {"scan", "load"}
    <3>1. CASE enter(t, "load") \/ enter(t, "scan")
      BY <1>3, <3>1 DEF scan, scan_load, enter, pool
    <3>2. CASE phase' = phase /\ scan(t)
      BY <1>0, <3>2 DEF scan, pool
    <3>3. QED
      BY <1>3, <3>1, <3>2 DEF scan, scan_load
  <2>2. QED
    BY <1>0, <1>same, <2>1 DEF CountedAt
<1>4. ASSUME NEW t \in Threads, own_unshare(t) PROVE ShareInv'
  <2>1. /\ phase[t] = "own_unshare" /\ phase' = [phase EXCEPT ![t] = "scan"] /\ idx' = idx
        /\ fetch_sub(idx[t]) /\ idx[t] \in Channels
    BY <1>0, <1>4 DEF own_unshare, enter, InStep
  <2>2. CountedAt(t) = idx[t] /\ CountedAt(t)' = -1 /\ \A u \in Threads \ {t} : CountedAt(u)' = CountedAt(u)
    BY <1>0, <2>1 DEF CountedAt
  <2>3. QED
    BY <1>sub, <2>1, <2>2
<1>5. ASSUME NEW t \in Threads, picked_unshare(t) PROVE ShareInv'
  <2>1. /\ phase[t] = "picked_unshare" /\ phase' = [phase EXCEPT ![t] = "idle"]
        /\ idx' = [idx EXCEPT ![t] = -1] /\ fetch_sub(idx[t]) /\ idx[t] \in Channels
    BY <1>0, <1>5 DEF picked_unshare, enter, InStep
  <2>2. CountedAt(t) = idx[t] /\ CountedAt(t)' = -1 /\ \A u \in Threads \ {t} : CountedAt(u)' = CountedAt(u)
    BY <1>0, <2>1 DEF CountedAt
  <2>3. QED
    BY <1>sub, <2>1, <2>2
<1>6. ASSUME NEW t \in Threads, thread_exit(t) PROVE ShareInv'
  <2>1. /\ phase[t] = "idle" /\ phase' = phase
        /\ idx' = [idx EXCEPT ![t] = -1] /\ fetch_sub(idx[t]) /\ idx[t] \in Channels
    BY SMT, <1>0, <1>6 DEF thread_exit
  <2>2. CountedAt(t) = idx[t] /\ CountedAt(t)' = -1 /\ \A u \in Threads \ {t} : CountedAt(u)' = CountedAt(u)
    BY <1>0, <2>1 DEF CountedAt
  <2>3. QED
    BY <1>sub, <2>1, <2>2
<1>7. ASSUME NEW t \in Threads, compare_exchange(t) PROVE ShareInv'
  <2> DEFINE i == most_idle_sub_channel[t]
  <2>1. i \in Channels /\ phase[t] = "scan" /\ idx' = [idx EXCEPT ![t] = i]
    BY <1>0, <1>7 DEF compare_exchange
  <2>2. CASE shared_num' = [shared_num EXCEPT ![i] = @ + 1] /\ enter(t, "picked")
    <3>1. CountedAt(t) = -1 /\ CountedAt(t)' = i /\ \A u \in Threads \ {t} : CountedAt(u)' = CountedAt(u)
      BY <1>0, <2>1, <2>2 DEF CountedAt, enter
    <3>2. \A c \in Channels : N1(c) = IF c = i THEN N(c) + 1 ELSE N(c)
      BY <2>1, <3>1, CountMoves
    <3>3. \A c \in Channels : shared_num'[c] = IF c = i THEN shared_num[c] + 1 ELSE shared_num[c]
      BY <1>0, <2>1, <2>2
    <3>4. QED
      BY <1>s, <3>2, <3>3 DEF ShareInv
  <2>3. CASE UNCHANGED <<shared_num, phase>>
    BY <1>0, <1>same, <2>1, <2>3 DEF CountedAt
  <2>4. QED
    BY <1>7, <2>2, <2>3 DEF compare_exchange
<1>8. ASSUME \/ \E t \in Threads : random(t) \/ pool_finish(t)
             \/ UNCHANGED <<pool, idx, phase, scanning>>
             \/ UNCHANGED poolVars \/ pool_destroy
      PROVE  ShareInv'
  <2>1. UNCHANGED <<idx, phase, shared_num>>
    BY <1>8 DEF random, pool_finish, pool_destroy, poolVars, pool
  <2>2. QED
    BY <1>u, <2>1
<1>9. QED
  BY <1>1, <1>2, <1>3, <1>4, <1>5, <1>6, <1>7, <1>8 DEF PoolNext, inCall

\* The initial state satisfies the invariant of the shared counts.
LEMMA InitShareInv == PoolInit => ShareInv
<1> SUFFICES ASSUME PoolInit PROVE ShareInv
  OBVIOUS
<1>1. \A t \in Threads : CountedAt(t) = -1
  BY DEF PoolInit, CountedAt
<1>2. \A c \in Channels : CountedIn(c) = {} /\ shared_num[c] = 0
  BY SMT, <1>1, Numbered DEF CountedIn, PoolInit
<1>3. QED
  BY <1>2, FS_EmptySet DEF ShareInv
-----------------------------------------------------------------------------
(***************************************************************************)
(* The inductive invariant and what follows from it.                       *)
(***************************************************************************)
IInv == TypeInv /\ LockInv /\ SocketInv /\ ShareInv

\* Every step keeps the inductive invariant.
LEMMA NextIInv == IInv /\ [PoolNext]_poolVars => IInv'
<1> SUFFICES ASSUME TypeInv, LockInv, SocketInv, ShareInv, [PoolNext]_poolVars PROVE IInv'
  BY DEF IInv
<1>1. TypeInv'
  BY NextTypeInv DEF SocketInv
<1>2. LockInv'
  BY NextLockInv
<1>3. SocketInv'
  BY NextSocketInv
<1>4. ShareInv'
  BY NextShareInv
<1>5. QED
  BY <1>1, <1>2, <1>3, <1>4 DEF IInv

\* Over every interleaving of calls of getSocket, connections that break, threads
\* that end and the channels' end, the inductive invariant holds.
THEOREM PoolInvariant == PoolSpec => []IInv
<1>1. PoolInit => IInv
  BY InitTypeInv, InitLockInv, InitSocketInv, InitShareInv DEF IInv
<1>2. QED
  BY <1>1, NextIInv, PTL DEF PoolSpec

\* ReplacedAlone, for any number of threads and channels: while a thread replaces
\* a channel's _socket, no other thread looks at it, and the bits that keep
\* the others out belong to a thread that will clear them (getSocketInternal).
THEOREM PoolReplacedAlone == PoolSpec => []ReplacedAlone
<1>1. IInv => ReplacedAlone
  <2> SUFFICES ASSUME LockInv, TypeOK PROVE ReplacedAlone
    BY DEF IInv, TypeInv, PoolTypeOK
  <2> USE DEF Waiting, Replacing, Looking
  <2>1. UpgradeHasOwner
    BY SMT DEF LockInv, LockFlags, UpgradeHasOwner, UpgradedOrExclusive
  <2>2. \A t, u \in Threads :
          /\ pc[t] \in {"replace", "connect", "unlock_true", "unlock_false"}
          /\ u # t /\ at[u] = at[t]
          => pc[u] \notin {"active", "upgrade", "replace", "connect", "unlock_true", "unlock_false"}
    BY DEF LockInv, OneUpgraded, ReplacedUnseen
  <2>3. QED
    BY <2>1, <2>2 DEF ReplacedAlone
<1>2. QED
  BY <1>1, PoolInvariant, PTL

\* OnlyDeadReplaced, for any number of threads and channels: getSocketInternal
\* never replaces a connection that is active, whoever made it.
THEOREM PoolOnlyDeadReplaced == PoolSpec => OnlyDeadReplaced
<1>1. IInv /\ [PoolNext]_poolVars =>
        [stage' = "ready" => \A c \in Channels : _socket'[c] # _socket[c] => _socket[c] \notin active]_vars
  <2> SUFFICES ASSUME IInv, [PoolNext]_poolVars, stage' = "ready",
                      NEW c \in Channels, _socket'[c] # _socket[c]
               PROVE  _socket[c] \notin active
    OBVIOUS
  <2>0. /\ StageOK /\ SocketInv /\ Null \notin active /\ _socket \in [Channels -> Sockets \cup {Null}]
        /\ at \in [Threads -> Channels]
    BY Numbered DEF IInv, TypeInv, PoolTypeOK, TypeOK
  <2>1. ASSUME NEW t \in Threads, getSocketInternal(t) PROVE _socket[c] \notin active
    <3>1. at[t] = c /\ pc[t] \in {"replace", "connect"}
      BY <2>0, <2>1 DEF getSocketInternal, get_tryShared, get_undo, get_active, get_upgrade,
         get_releaseShared, get_exclusive, get_replace, get_connect, get_releaseExclusive, channel
    <3>2. QED
      BY <2>0, <3>1 DEF SocketInv, Condemned, Condemning
  <2>2. CASE init
    BY <2>0, <2>2 DEF init, StageOK
  <2>3. ASSUME NEW t \in Threads,
               \/ getSubSocketInternal(t) \/ own_true(t) \/ own_false(t) \/ own_unshare(t)
               \/ scan(t) \/ scan_load(t) \/ random(t) \/ compare_exchange(t)
               \/ picked_true(t) \/ picked_false(t) \/ picked_unshare(t)
               \/ pool_finish(t) \/ thread_exit(t) \/ getSocket(t) \/ finish(t)
        PROVE  FALSE
    BY <2>3 DEF getSubSocketInternal, own_true, own_false, own_unshare, scan, scan_load, random,
       compare_exchange, picked_true, picked_false, picked_unshare, pool_finish, thread_exit,
       getSocket, finish, vars, channel
  <2>4. ~destroy /\ ~UNCHANGED poolVars /\ ~\E s \in Sockets : setStatus(s)
    BY DEF destroy, setStatus, poolVars, vars, channel
  <2>5. QED
    BY <2>1, <2>2, <2>3, <2>4 DEF PoolNext, inCall, pool_destroy
<1>2. QED
  BY <1>1, PoolInvariant, PTL DEF PoolSpec, OnlyDeadReplaced

\* SingleOwnsWhatIsInUse, for any number of threads and channels: a channel that is
\* not short owns the connection it hands out and nothing else, over replacements,
\* connections that fail and the channel's end.
THEOREM PoolOwnsWhatIsInUse == PoolSpec => []SingleOwnsWhatIsInUse
<1>1. IInv => SingleOwnsWhatIsInUse
  BY DEF IInv, SocketInv, OwnsCurrent, OwnsNoOther, SingleOwnsWhatIsInUse, OwnsWhatIsInUse
<1>2. QED
  BY <1>1, PoolInvariant, PTL

\* SharesCounted, for any number of threads and sub channels: shared_num counts the
\* threads that keep the sub channel, and never wraps.
THEOREM PoolSharesCounted == PoolSpec => []SharesCounted
<1>1. IInv => SharesCounted
  BY DEF IInv, TypeInv, ShareInv, CountedIn, SharesCounted
<1>2. QED
  BY <1>1, PoolInvariant, PTL
=============================================================================
