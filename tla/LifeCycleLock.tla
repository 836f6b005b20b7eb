--------------------------- MODULE LifeCycleLock ---------------------------
(***************************************************************************)
(* LifeCycleLock (include/common/life_cycle_lock.h): a spin lock with      *)
(* shared, upgraded and exclusive modes that guards the life of sockets,   *)
(* of pending requests, of a channel's connection and of hash buckets.     *)
(*                                                                         *)
(* A client is one use of the lock: a thread, or one of the roles that a   *)
(* thread plays (a thread that holds two shares is two clients).  Every    *)
(* step is one atomic instruction, so a tryShared that fails is two steps  *)
(* and its share is visible to the other clients in between.               *)
(***************************************************************************)
EXTENDS LifeCycleBits, FiniteSets

CONSTANTS Clients,      \* the uses of the lock
          MaxTries      \* bound: calls of tryShared by one client

ASSUME ClientsAssumption == IsFiniteSet(Clients)
ASSUME MaxTriesAssumption == MaxTries \in Nat

VARIABLES bits,         \* _bits
          pc,           \* what a client is doing
          sharers,      \* clients that hold a share: tryShared returned true
          tries,        \* calls of tryShared so far
          won           \* clients whose tryUpgradeNonReEntrant returned true
                        \* since the lock was last exclusive (history)

vars == <<bits, pc, sharers, tries, won>>

\* "undo" is between the two instructions of a failing tryShared, "upgraded"
\* after an upgrade that returned true, "spin" inside exclusive().
PC == {"idle", "undo", "upgraded", "spin", "exclusive"}

Init ==
  /\ bits = NoBits
  /\ pc = [c \in Clients |-> "idle"]
  /\ sharers = {}
  /\ tries = [c \in Clients |-> 0]
  /\ won = {}

\* tryShared(), first instruction.  share() repeats the call until it is true.
tryShared(c) ==
  /\ pc[c] = "idle" /\ c \notin sharers
  /\ tries[c] < MaxTries
  /\ tries' = [tries EXCEPT ![c] = @ + 1]
  /\ bits' = AddShared(bits)
  /\ \/ /\ UpgradedOrExclusive(bits)
        /\ pc' = [pc EXCEPT ![c] = "undo"]
        /\ UNCHANGED sharers
     \/ /\ ~UpgradedOrExclusive(bits)
        /\ sharers' = sharers \cup {c}
        /\ UNCHANGED pc
  /\ UNCHANGED won

\* Variant: the share of a failing tryShared is left in the word.
tryShared_undo_missing(c) ==
  /\ pc[c] = "undo"
  /\ pc' = [pc EXCEPT ![c] = "idle"]
  /\ UNCHANGED <<bits, sharers, tries, won>>

\* tryShared(), second instruction: take the share back and return false.
tryShared_undo(c) ==
  /\ pc[c] = "undo"
  /\ bits' = SubShared(bits)
  /\ pc' = [pc EXCEPT ![c] = "idle"]
  /\ UNCHANGED <<sharers, tries, won>>

releaseShared(c) ==
  /\ c \in sharers
  /\ bits' = SubShared(bits)
  /\ sharers' = sharers \ {c}
  /\ UNCHANGED <<pc, tries, won>>

\* tryUpgrade(): sets the flag whatever happens, and is re-entrant.  upgrade()
\* repeats the call until it is true.
tryUpgrade(c) ==
  /\ pc[c] = "idle"
  /\ bits' = OrUpgraded(bits)
  /\ pc' = [pc EXCEPT ![c] = IF IsExclusive(bits) THEN "idle" ELSE "upgraded"]
  /\ UNCHANGED <<sharers, tries, won>>

tryUpgradeNonReEntrant(c) ==
  /\ pc[c] = "idle"
  /\ bits' = OrUpgraded(bits)
  /\ \/ /\ UpgradedOrExclusive(bits)
        /\ UNCHANGED <<pc, won>>
     \/ /\ ~UpgradedOrExclusive(bits)
        /\ pc' = [pc EXCEPT ![c] = "upgraded"]
        /\ won' = won \cup {c}
  /\ UNCHANGED <<sharers, tries>>

\* tryExclusive(): one compare-and-swap.  A caller that fails goes away and
\* leaves the UPGRADED flag behind.
tryExclusive(c) ==
  /\ pc[c] = "upgraded"
  /\ \/ /\ OnlyUpgraded(bits)
        /\ bits' = OnlyExclusive
        /\ pc' = [pc EXCEPT ![c] = "exclusive"]
     \/ /\ ~OnlyUpgraded(bits)
        /\ pc' = [pc EXCEPT ![c] = "idle"]
        /\ UNCHANGED bits
  /\ UNCHANGED <<sharers, tries, won>>

\* exclusive() is called by a client that holds no share of its own...
exclusive_call(c) ==
  /\ pc[c] = "upgraded" /\ c \notin sharers
  /\ pc' = [pc EXCEPT ![c] = "spin"]
  /\ UNCHANGED <<bits, sharers, tries, won>>

\* ... and spins until the compare-and-swap succeeds.
exclusive(c) ==
  /\ pc[c] = "spin"
  /\ OnlyUpgraded(bits)
  /\ bits' = OnlyExclusive
  /\ pc' = [pc EXCEPT ![c] = "exclusive"]
  /\ UNCHANGED <<sharers, tries, won>>

releaseExclusive(c) ==
  /\ pc[c] = "exclusive"
  /\ bits' = ClearExclusive(bits)
  /\ pc' = [pc EXCEPT ![c] = "idle"]
  /\ won' = {}
  /\ UNCHANGED <<sharers, tries>>

Next ==
  \E c \in Clients :
    \/ tryShared(c) \/ tryShared_undo(c) \/ releaseShared(c)
    \/ tryUpgrade(c) \/ tryUpgradeNonReEntrant(c)
    \/ tryExclusive(c) \/ exclusive_call(c) \/ exclusive(c)
    \/ releaseExclusive(c)

\* A thread inside a call finishes it, and a holder releases what it holds.
\* Nothing obliges a client to call.
Fairness ==
  \A c \in Clients : /\ WF_vars(tryShared_undo(c))
                     /\ WF_vars(releaseShared(c))
                     /\ WF_vars(exclusive(c))
                     /\ WF_vars(releaseExclusive(c))

Spec == Init /\ [][Next]_vars
FairSpec == Spec /\ Fairness
-----------------------------------------------------------------------------
\* Clients whose share is in the word, granted or about to be taken back.
Counted == sharers \cup {c \in Clients : pc[c] = "undo"}

TypeOK ==
  /\ bits \in Bits
  /\ pc \in [Clients -> PC]
  /\ sharers \subseteq Clients
  /\ tries \in [Clients -> 0..MaxTries]
  /\ won \subseteq Clients

\* A client that owns the lock exclusively is alone: no second owner, and no
\* client that was told by tryShared that it may look at the guarded object.
MutualExclusion ==
  \A c \in Clients :
    pc[c] = "exclusive" => /\ sharers = {}
                           /\ \A d \in Clients : pc[d] = "exclusive" => d = c

\* The count in the word is exact, the shares of failing tryShared calls
\* included: neither a lost nor a doubled release ever stays behind.
ShareCountExact == bits.shared = Cardinality(Counted)

\* Between two exclusive periods tryUpgradeNonReEntrant returns true to one
\* caller only, even when re-entrant tryUpgrade calls are mixed in: this makes
\* SocketReadSession::notify deliver once and Channel reconnect once.
SingleUpgradeWinner ==
  /\ \A c, d \in won : c = d
  /\ won # {} => UpgradedOrExclusive(bits)

\* While the UPGRADED flag is up and a client spins in exclusive(), the shares
\* drain and the lock becomes exclusive for one of the clients.
UpgradeDrains ==
  \A c \in Clients :
    (pc[c] = "spin" /\ bits.upgraded = 1) ~> (\E d \in Clients : pc[d] = "exclusive")

Owners == {c \in Clients : pc[c] = "exclusive"}

Abstract == INSTANCE ReadersWriter WITH readers <- sharers, writers <- Owners

\* The lock implements a readers-writer lock: every instruction on the word is
\* one grant, one release, or invisible to the users of the guarded object.
ImplementsReadersWriter == Abstract!Spec
=============================================================================
