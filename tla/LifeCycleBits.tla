--------------------------- MODULE LifeCycleBits ---------------------------
(***************************************************************************)
(* The atomic word of LifeCycleLock (include/common/life_cycle_lock.h) and *)
(* the read-modify-write instructions the lock performs on it.             *)
(*                                                                         *)
(* The word is an int32_t whose two low bits are flags and whose other     *)
(* bits count the shares, four being one share.  The three fields never    *)
(* overlap, so the word is kept as a record of its fields:                 *)
(*     _bits = SHARED * shared + UPGRADED * upgraded + EXCLUSIVE * exclusive *)
(* The count is an integer: releasing once too often makes it negative, in *)
(* the word as in the record, and leaves both flags readable.  (2^29       *)
(* simultaneous shares, where the word would overflow, are out of reach.)  *)
(***************************************************************************)
EXTENDS Integers

SHARED == 4
UPGRADED == 2
EXCLUSIVE == 1

Bits == [shared : Int, upgraded : {0, 1}, exclusive : {0, 1}]

\* LifeCycleLock() : _bits(0)
NoBits == [shared |-> 0, upgraded |-> 0, exclusive |-> 0]

\* record(): the value of the word.
record(b) == SHARED * b.shared + UPGRADED * b.upgraded + EXCLUSIVE * b.exclusive

\* value & (UPGRADED | EXCLUSIVE), and value & EXCLUSIVE
UpgradedOrExclusive(b) == b.upgraded = 1 \/ b.exclusive = 1
IsExclusive(b) == b.exclusive = 1

\* fetch_add(SHARED) and fetch_add(-SHARED)
AddShared(b) == [b EXCEPT !.shared = @ + 1]
SubShared(b) == [b EXCEPT !.shared = @ - 1]

\* fetch_or(UPGRADED)
OrUpgraded(b) == [b EXCEPT !.upgraded = 1]

\* compare_exchange_strong(UPGRADED, EXCLUSIVE): the word it expects and the
\* word it stores.
OnlyUpgraded(b) == b.shared = 0 /\ b.upgraded = 1 /\ b.exclusive = 0
OnlyExclusive == [shared |-> 0, upgraded |-> 0, exclusive |-> 1]

\* Variant: store(0).
ClearExclusive_store(b) == NoBits

\* fetch_and(~(EXCLUSIVE | UPGRADED))
ClearExclusive(b) == [b EXCEPT !.upgraded = 0, !.exclusive = 0]
=============================================================================
