------------------------------ MODULE Channel ------------------------------
(***************************************************************************)
(* Channel (src/channel/channel.cpp): how the threads that share a channel *)
(* get a connection from it, and how one of them replaces a connection     *)
(* that is dead while the others are looking at it.                        *)
(*                                                                         *)
(* _lock is a LifeCycleLock, one step per instruction on its word.         *)
(* getSocketInternal is written for a set of channels, so that the pool    *)
(* (module ChannelPool) can call it on its sub channels.                   *)
(*                                                                         *)
(* A socket is a number, and is used again when neither a channel nor a    *)
(* session refers to it and its ownership was surrendered; what the        *)
(* manager does with it before that is in module SocketManager.            *)
(***************************************************************************)
EXTENDS LifeCycleBits, FiniteSets

CONSTANTS Threads,          \* threads that run sessions
          Channels,         \* channels whose _socket they ask for
          MaxSockets,       \* bound: sockets that exist at a time
          MaxCalls          \* bound: calls of getSocket by one thread

ASSUME ThreadsAssumption == IsFiniteSet(Threads)
ASSUME ChannelsAssumption ==
  IsFiniteSet(Channels) /\ Channels # {} /\ Channels = 0..(Cardinality(Channels) - 1)
ASSUME BoundsAssumption ==
  /\ MaxSockets \in Nat /\ MaxCalls \in Nat
  /\ \A c \in Channels : c < MaxSockets

Sockets == 1..MaxSockets
Null == 0

VARIABLES connection_type,    \* _options.connection_type: "single", "short" or "pooled"
          _lock,       \* of a channel: the word of its LifeCycleLock
          _socket,     \* of a channel: its socket or Null
          active,      \* sockets whose _status is RPC_STATUS_OK
          owned,       \* sockets whose EXCLUSIVE bit a channel has set
          stage,       \* of the channels: "made", "ready" after init, "gone"
          pc, at,      \* of a thread: where it is, and in which channel
          socket,      \* of a thread: the out parameter, the session's _socket
          calls

channel == <<connection_type, _lock, _socket, stage>>
vars == <<channel, active, owned, pc, at, socket, calls>>

Init ==
  /\ connection_type \in {"single", "short", "pooled"}
  /\ _lock = [c \in Channels |-> NoBits]
  /\ _socket = [c \in Channels |-> Null]
  /\ owned = {} /\ active = {}
  /\ stage = "made"
  /\ pc = [t \in Threads |-> "idle"]
  /\ at = [t \in Threads |-> CHOOSE c \in Channels : TRUE]
  /\ socket = [t \in Threads |-> Null]
  /\ calls = [t \in Threads |-> 0]
-----------------------------------------------------------------------------
goto(t, l) == pc' = [pc EXCEPT ![t] = l]

\* new Socket: the least number that is not in use
InUse == owned \cup {_socket[c] : c \in Channels} \cup {socket[t] : t \in Threads}
IsNew(s) == s \notin InUse /\ \A r \in Sockets \ InUse : s <= r

\* The other side closes the connection, or a heartbeat on it fails.
setStatus(s) ==
  /\ s \in active
  /\ active' = active \ {s}
  /\ UNCHANGED <<channel, owned, pc, at, socket, calls>>

\* The channels of up have connected; the others are left without a socket.
connected(up) ==
  /\ _socket' = [c \in Channels |-> IF c \in up THEN c + 1 ELSE Null]
  /\ owned' = {c + 1 : c \in up} /\ active' = owned'

\* init: a single channel that fails to connect can still be used, and connects
\* when it is.  A pool gives up at the first sub channel that fails: it destroys
\* those it has, which surrenders their sockets, and without any it is of no use.
init ==
  /\ stage = "made"
  /\ \/ /\ connection_type = "single"
        /\ \E up \in SUBSET Channels : connected(up)
        /\ stage' = "ready"
     \/ /\ connection_type = "short"
        /\ connected({})
        /\ stage' = "ready"
     \/ /\ connection_type = "pooled"
        /\ \/ connected(Channels) /\ stage' = "ready"
           \/ connected({}) /\ stage' = "gone"
  /\ UNCHANGED <<connection_type, _lock, pc, at, socket, calls>>

\* guard(*_lock)
get_tryShared(t) ==
  LET word == _lock[at[t]]
  IN  /\ pc[t] = "tryShared"
      /\ _lock' = [_lock EXCEPT ![at[t]] = AddShared(@)]
      /\ goto(t, IF UpgradedOrExclusive(word) THEN "undo" ELSE "active")
      /\ UNCHANGED <<connection_type, _socket, stage, active, owned, at, socket, calls>>

get_undo(t) ==
  /\ pc[t] = "undo"
  /\ _lock' = [_lock EXCEPT ![at[t]] = SubShared(@)]
  /\ goto(t, "false")
  /\ UNCHANGED <<connection_type, _socket, stage, active, owned, at, socket, calls>>

\* if (_socket && _socket->active()) socket = _socket
get_active(t) ==
  LET s == _socket[at[t]]
  IN  /\ pc[t] = "active"
      /\ \/ /\ s \in active
            /\ socket' = [socket EXCEPT ![t] = s]
            /\ goto(t, "release_true")
         \/ /\ s \notin active
            /\ goto(t, "upgrade")
            /\ UNCHANGED socket
      /\ UNCHANGED <<channel, active, owned, at, calls>>

\* Variant: the share is given back before the upgrade.
get_upgrade_late(t) ==
  LET word == _lock[at[t]]
  IN  /\ \/ /\ pc[t] = "upgrade"
            /\ _lock' = [_lock EXCEPT ![at[t]] = SubShared(@)]
            /\ goto(t, "late")
         \/ /\ pc[t] = "late"
            /\ _lock' = [_lock EXCEPT ![at[t]] = OrUpgraded(@)]
            /\ goto(t, IF UpgradedOrExclusive(word) THEN "false" ELSE "exclusive")
      /\ UNCHANGED <<connection_type, _socket, stage, active, owned, at, socket, calls>>

\* tryUpgradeNonReEntrant
get_upgrade(t) ==
  LET word == _lock[at[t]]
  IN  /\ pc[t] = "upgrade"
      /\ _lock' = [_lock EXCEPT ![at[t]] = OrUpgraded(@)]
      /\ goto(t, IF UpgradedOrExclusive(word) THEN "release_false" ELSE "release_exclusive")
      /\ UNCHANGED <<connection_type, _socket, stage, active, owned, at, socket, calls>>

\* ~LifeCycleShareGuard, on each of the three ways out of its scope
get_releaseShared(t) ==
  /\ \/ pc[t] = "release_true" /\ goto(t, "true")
     \/ pc[t] = "release_false" /\ goto(t, "false")
     \/ pc[t] = "release_exclusive" /\ goto(t, "exclusive")
  /\ _lock' = [_lock EXCEPT ![at[t]] = SubShared(@)]
  /\ UNCHANGED <<connection_type, _socket, stage, active, owned, at, socket, calls>>

\* Variant: the shares of the others are not waited for.
get_exclusive_eager(t) ==
  /\ pc[t] = "exclusive"
  /\ _lock' = [_lock EXCEPT ![at[t]].exclusive = 1]
  /\ goto(t, "replace")
  /\ UNCHANGED <<connection_type, _socket, stage, active, owned, at, socket, calls>>

\* exclusive(), which tries until the word is UPGRADED and nothing else
get_exclusive(t) ==
  /\ pc[t] = "exclusive" /\ OnlyUpgraded(_lock[at[t]])
  /\ _lock' = [_lock EXCEPT ![at[t]] = OnlyExclusive]
  /\ goto(t, "replace")
  /\ UNCHANGED <<connection_type, _socket, stage, active, owned, at, socket, calls>>

\* Variant: the old socket is not surrendered.
get_replace_kept(t) ==
  /\ pc[t] = "replace"
  /\ \E s \in Sockets :
       /\ IsNew(s)
       /\ _socket' = [_socket EXCEPT ![at[t]] = s]
       /\ owned' = owned \cup {s}
  /\ goto(t, "connect")
  /\ UNCHANGED <<connection_type, _lock, stage, active, at, socket, calls>>

\* Surrender the old socket; tryConnect makes a new one and holds it exclusively.
get_replace(t) ==
  /\ pc[t] = "replace"
  /\ \E s \in Sockets :
       /\ IsNew(s)
       /\ _socket' = [_socket EXCEPT ![at[t]] = s]
       /\ owned' = (owned \ {_socket[at[t]]}) \cup {s}
  /\ goto(t, "connect")
  /\ UNCHANGED <<connection_type, _lock, stage, active, at, socket, calls>>

\* connect, the rest of tryConnect, and socket = _socket
get_connect(t) ==
  LET s == _socket[at[t]]
  IN  /\ pc[t] = "connect"
      /\ \/ /\ active' = active \cup {s}
            /\ socket' = [socket EXCEPT ![t] = s]
            /\ goto(t, "unlock_true")
            /\ UNCHANGED <<_socket, owned>>
         \/ /\ owned' = owned \ {s}
            /\ _socket' = [_socket EXCEPT ![at[t]] = Null]
            /\ goto(t, "unlock_false")
            /\ UNCHANGED <<active, socket>>
      /\ UNCHANGED <<connection_type, _lock, stage, at, calls>>

get_releaseExclusive(t) ==
  /\ \/ pc[t] = "unlock_true" /\ goto(t, "true")
     \/ pc[t] = "unlock_false" /\ goto(t, "false")
  /\ _lock' = [_lock EXCEPT ![at[t]] = ClearExclusive(@)]
  /\ UNCHANGED <<connection_type, _socket, stage, active, owned, at, socket, calls>>

getSocketInternal(t) ==
  \/ get_tryShared(t) \/ get_undo(t) \/ get_active(t) \/ get_upgrade(t)
  \/ get_releaseShared(t) \/ get_exclusive(t) \/ get_replace(t) \/ get_connect(t)
  \/ get_releaseExclusive(t)
-----------------------------------------------------------------------------
\* A session on a channel that is not pooled.

\* getSocket: getSocketInternal, or tryConnect for a connection of its own
getSocket(t) ==
  /\ pc[t] = "idle" /\ stage = "ready" /\ calls[t] < MaxCalls
  /\ calls' = [calls EXCEPT ![t] = @ + 1]
  /\ \E c \in Channels : at' = [at EXCEPT ![t] = c]
  /\ \/ /\ connection_type = "single"
        /\ goto(t, "tryShared")
        /\ UNCHANGED <<socket, owned, active>>
     \/ /\ connection_type = "short"
        /\ \E s \in Sockets :
             /\ IsNew(s)
             /\ socket' = [socket EXCEPT ![t] = s]
             /\ owned' = owned \cup {s}
             /\ active' = active \cup {s}
        /\ goto(t, "true")
     \/ /\ connection_type = "short"
        /\ goto(t, "false")
        /\ UNCHANGED <<socket, owned, active>>
  /\ UNCHANGED channel

\* The session is over: its _socket is reset.
finish(t) ==
  /\ pc[t] \in {"true", "false"} /\ connection_type # "pooled"
  /\ socket' = [socket EXCEPT ![t] = Null]
  /\ goto(t, "idle")
  /\ UNCHANGED <<channel, active, owned, at, calls>>

\* ~Channel, when no session uses the channel any more
destroy ==
  /\ stage = "ready" /\ \A t \in Threads : pc[t] = "idle"
  /\ stage' = "gone"
  /\ owned' = owned \ {_socket[c] : c \in Channels}
  /\ _socket' = [c \in Channels |-> Null]
  /\ UNCHANGED <<connection_type, _lock, active, pc, at, socket, calls>>

Next ==
  \/ \E t \in Threads : getSocket(t) \/ getSocketInternal(t) \/ finish(t)
  \/ \E s \in Sockets : setStatus(s)
  \/ init \/ destroy

Spec == Init /\ [][Next]_vars
-----------------------------------------------------------------------------
Places == {"idle", "tryShared", "undo", "active", "upgrade", "release_true", "release_false",
           "release_exclusive", "exclusive", "replace", "connect", "unlock_true",
           "unlock_false", "true", "false"}

TypeOK ==
  /\ connection_type \in {"single", "short", "pooled"}
  /\ _lock \in [Channels -> Bits]
  /\ _socket \in [Channels -> Sockets \cup {Null}]
  /\ active \subseteq Sockets /\ owned \subseteq Sockets /\ stage \in {"made", "ready", "gone"}
  /\ pc \in [Threads -> Places] /\ at \in [Threads -> Channels]
  /\ socket \in [Threads -> Sockets \cup {Null}]
  /\ calls \in [Threads -> 0..MaxCalls]

\* The UPGRADED and EXCLUSIVE bits always belong to one thread that is going to clear
\* them: nobody leaves the channel refusing every later call.
UpgradeHasOwner ==
  \A c \in Channels :
    UpgradedOrExclusive(_lock[c]) =>
      \E t \in Threads :
        /\ at[t] = c
        /\ pc[t] \in {"release_exclusive", "exclusive", "replace", "connect",
                      "unlock_true", "unlock_false"}

\* _socket is a plain shared_ptr.  While one thread surrenders it and assigns a new
\* connection to it, no other thread is looking at it; and the lock that sees to
\* this is given back.
ReplacedAlone ==
  /\ UpgradeHasOwner
  /\ \A t, u \in Threads :
       /\ pc[t] \in {"replace", "connect", "unlock_true", "unlock_false"}
       /\ u # t /\ at[u] = at[t]
       => pc[u] \notin {"active", "upgrade", "replace", "connect", "unlock_true", "unlock_false"}

\* A thread that found the connection dead never replaces the new connection
\* that another thread has made in the meantime.
OnlyDeadReplaced ==
  [][stage' = "ready" => \A c \in Channels : _socket'[c] # _socket[c] => _socket[c] \notin active]_vars

\* A channel owns the sockets it hands out and no others: the manager never reclaims
\* a current one, and can reclaim every one that was replaced or whose session
\* is over.
OwnsWhatIsInUse ==
  /\ \A c \in Channels : _socket[c] # Null => _socket[c] \in owned
  /\ \A s \in owned : (\E c \in Channels : _socket[c] = s) \/ (\E t \in Threads : socket[t] = s)

\* ... which holds of the connections that getSocketInternal makes.
SingleOwnsWhatIsInUse == connection_type # "short" => OwnsWhatIsInUse
=============================================================================
