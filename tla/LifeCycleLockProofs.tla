------------------------ MODULE LifeCycleLockProofs ------------------------
(***************************************************************************)
(* The safety properties of LifeCycleLock for every finite set of clients. *)
(*                                                                         *)
(* MutualExclusion is not inductive alone.  That no share survives into an *)
(* exclusive period rests on the count in the word being exact: the        *)
(* compare-and-swap of tryExclusive sees a zero count, and an exact zero   *)
(* means that no client holds a share or is about to give one back.        *)
(***************************************************************************)
EXTENDS LifeCycleLock, FiniteSetTheorems, TLAPS

\* The EXCLUSIVE bit is up exactly when a client owns the lock.
ExclusiveBitExact == bits.exclusive = 1 <=> \E c \in Clients : pc[c] = "exclusive"

\* A client that is taking its share back does not hold one as well.
UndoHoldsNone == \A c \in sharers : pc[c] # "undo"

IInv ==
  /\ TypeOK
  /\ ShareCountExact
  /\ ExclusiveBitExact
  /\ UndoHoldsNone
  /\ MutualExclusion
  /\ SingleUpgradeWinner

\* Adding a client to the counted set, or removing one, moves the count by one.
LEMMA CountMoves ==
  ASSUME NEW S, S \subseteq Clients, NEW c \in Clients
  PROVE  /\ IsFiniteSet(S) /\ Cardinality(S) \in Nat
         /\ c \notin S => Cardinality(S \cup {c}) = Cardinality(S) + 1
         /\ c \in S => Cardinality(S \ {c}) = Cardinality(S) - 1
         /\ Cardinality(S) = 0 => S = {}
<1>1. IsFiniteSet(S)
  BY ClientsAssumption, FS_Subset
<1>2. QED
  BY <1>1, FS_CardinalityType, FS_AddElement, FS_RemoveElement, FS_EmptySet

\* Initially nobody holds anything and the word is zero.
LEMMA InitIInv == Init => IInv
<1> SUFFICES ASSUME Init PROVE IInv
  OBVIOUS
<1>1. Counted = {}
  BY DEF Init, Counted
<1>2. ShareCountExact
  BY <1>1, FS_EmptySet DEF Init, ShareCountExact, NoBits
<1>3. TypeOK
  BY MaxTriesAssumption DEF Init, TypeOK, NoBits, Bits, PC
<1>4. QED
  BY <1>2, <1>3 DEF Init, IInv, ExclusiveBitExact, UndoHoldsNone, MutualExclusion,
     SingleUpgradeWinner, NoBits, UpgradedOrExclusive

\* Every step keeps the types.
LEMMA NextTypeOK == TypeOK /\ [Next]_vars => TypeOK'
<1> SUFFICES ASSUME TypeOK, [Next]_vars PROVE TypeOK'
  OBVIOUS
<1> USE MaxTriesAssumption DEF TypeOK, PC, Bits
<1>1. ASSUME NEW c \in Clients, tryShared(c) PROVE TypeOK'
  BY <1>1 DEF tryShared, AddShared
<1>2. ASSUME NEW c \in Clients, tryShared_undo(c) PROVE TypeOK'
  BY <1>2 DEF tryShared_undo, SubShared
<1>3. ASSUME NEW c \in Clients, releaseShared(c) PROVE TypeOK'
  BY <1>3 DEF releaseShared, SubShared
<1>4. ASSUME NEW c \in Clients, tryUpgrade(c) PROVE TypeOK'
  BY <1>4 DEF tryUpgrade, OrUpgraded
<1>5. ASSUME NEW c \in Clients, tryUpgradeNonReEntrant(c) PROVE TypeOK'
  BY <1>5 DEF tryUpgradeNonReEntrant, OrUpgraded
<1>6. ASSUME NEW c \in Clients, tryExclusive(c) PROVE TypeOK'
  BY <1>6 DEF tryExclusive, OnlyExclusive
<1>7. ASSUME NEW c \in Clients, exclusive_call(c) PROVE TypeOK'
  BY <1>7 DEF exclusive_call
<1>8. ASSUME NEW c \in Clients, exclusive(c) PROVE TypeOK'
  BY <1>8 DEF exclusive, OnlyExclusive
<1>9. ASSUME NEW c \in Clients, releaseExclusive(c) PROVE TypeOK'
  BY <1>9 DEF releaseExclusive, ClearExclusive
<1>10. CASE UNCHANGED vars
  BY <1>10 DEF vars
<1>11. QED
  BY <1>1, <1>2, <1>3, <1>4, <1>5, <1>6, <1>7, <1>8, <1>9, <1>10 DEF Next

\* The count stays exact: each instruction that moves it moves the counted set.
LEMMA NextShareCountExact ==
  TypeOK /\ ShareCountExact /\ UndoHoldsNone /\ [Next]_vars => ShareCountExact'
<1> SUFFICES ASSUME TypeOK, ShareCountExact, UndoHoldsNone, [Next]_vars
             PROVE  ShareCountExact'
  OBVIOUS
<1>0. Counted \subseteq Clients
  BY DEF TypeOK, Counted
<1>1. ASSUME NEW c \in Clients, tryShared(c) PROVE ShareCountExact'
  <2>1. c \notin Counted /\ Counted' = Counted \cup {c}
    BY <1>1 DEF tryShared, Counted, TypeOK
  <2>2. bits'.shared = bits.shared + 1
    BY <1>1 DEF tryShared, AddShared, TypeOK, Bits
  <2>3. QED
    BY <1>0, <2>1, <2>2, CountMoves DEF ShareCountExact
<1>2. ASSUME NEW c \in Clients, tryShared_undo(c) PROVE ShareCountExact'
  <2>1. c \in Counted /\ Counted' = Counted \ {c}
    BY <1>2 DEF tryShared_undo, Counted, TypeOK, UndoHoldsNone
  <2>2. bits'.shared = bits.shared - 1
    BY <1>2 DEF tryShared_undo, SubShared, TypeOK, Bits
  <2>3. QED
    BY <1>0, <2>1, <2>2, CountMoves DEF ShareCountExact
<1>3. ASSUME NEW c \in Clients, releaseShared(c) PROVE ShareCountExact'
  <2>1. c \in Counted /\ Counted' = Counted \ {c}
    BY <1>3 DEF releaseShared, Counted, TypeOK, UndoHoldsNone
  <2>2. bits'.shared = bits.shared - 1
    BY <1>3 DEF releaseShared, SubShared, TypeOK, Bits
  <2>3. QED
    BY <1>0, <2>1, <2>2, CountMoves DEF ShareCountExact
<1>4. ASSUME NEW c \in Clients,
             \/ tryUpgrade(c) \/ tryUpgradeNonReEntrant(c) \/ tryExclusive(c)
             \/ exclusive_call(c) \/ exclusive(c) \/ releaseExclusive(c)
      PROVE  ShareCountExact'
  <2>1. Counted' = Counted
    BY <1>4 DEF tryUpgrade, tryUpgradeNonReEntrant, tryExclusive, exclusive_call,
       exclusive, releaseExclusive, Counted, TypeOK
  <2>2. bits'.shared = bits.shared
    <3>1. CASE tryUpgrade(c) \/ tryUpgradeNonReEntrant(c)
      BY <3>1 DEF tryUpgrade, tryUpgradeNonReEntrant, OrUpgraded, TypeOK, Bits
    <3>2. CASE tryExclusive(c) \/ exclusive(c)
      BY <3>2 DEF tryExclusive, exclusive, OnlyUpgraded, OnlyExclusive
    <3>3. CASE exclusive_call(c)
      BY <3>3 DEF exclusive_call
    <3>4. CASE releaseExclusive(c)
      BY <3>4 DEF releaseExclusive, ClearExclusive, TypeOK, Bits
    <3>5. QED
      BY <1>4, <3>1, <3>2, <3>3, <3>4
  <2>3. QED
    BY <2>1, <2>2 DEF ShareCountExact
<1>5. CASE UNCHANGED vars
  BY <1>5 DEF vars, ShareCountExact, Counted
<1>6. QED
  BY <1>1, <1>2, <1>3, <1>4, <1>5 DEF Next

\* The facts about the two flags and their owners that the count supports.
FlagInv ==
  /\ ExclusiveBitExact
  /\ UndoHoldsNone
  /\ MutualExclusion
  /\ SingleUpgradeWinner

\* Every step keeps them, given an exact count.
LEMMA NextFlagInv ==
  TypeOK /\ ShareCountExact /\ FlagInv /\ [Next]_vars => FlagInv'
<1> SUFFICES ASSUME TypeOK, ShareCountExact, FlagInv, [Next]_vars
             PROVE  FlagInv'
  OBVIOUS
<1> USE DEF FlagInv, ExclusiveBitExact, UndoHoldsNone, MutualExclusion,
        SingleUpgradeWinner, UpgradedOrExclusive, TypeOK, Bits
<1>0. bits.shared = 0 => sharers = {}
  <2>1. Counted \subseteq Clients
    BY DEF Counted
  <2>2. CASE Clients = {}
    BY <2>2
  <2>3. CASE Clients # {}
    BY <2>1, <2>3, CountMoves DEF Counted, ShareCountExact
  <2>4. QED
    BY <2>2, <2>3
<1>1. ASSUME NEW c \in Clients, tryShared(c) PROVE FlagInv'
  BY <1>1 DEF tryShared, AddShared
<1>2. ASSUME NEW c \in Clients, tryShared_undo(c) PROVE FlagInv'
  BY <1>2 DEF tryShared_undo, SubShared
<1>3. ASSUME NEW c \in Clients, releaseShared(c) PROVE FlagInv'
  BY <1>3 DEF releaseShared, SubShared
<1>4. ASSUME NEW c \in Clients, tryUpgrade(c) PROVE FlagInv'
  BY <1>4 DEF tryUpgrade, OrUpgraded, IsExclusive
<1>5. ASSUME NEW c \in Clients, tryUpgradeNonReEntrant(c) PROVE FlagInv'
  BY <1>5 DEF tryUpgradeNonReEntrant, OrUpgraded
<1>6. ASSUME NEW c \in Clients, tryExclusive(c) PROVE FlagInv'
  BY <1>0, <1>6 DEF tryExclusive, OnlyUpgraded, OnlyExclusive
<1>7. ASSUME NEW c \in Clients, exclusive_call(c) PROVE FlagInv'
  BY <1>7 DEF exclusive_call
<1>8. ASSUME NEW c \in Clients, exclusive(c) PROVE FlagInv'
  BY <1>0, <1>8 DEF exclusive, OnlyUpgraded, OnlyExclusive
<1>9. ASSUME NEW c \in Clients, releaseExclusive(c) PROVE FlagInv'
  BY <1>9 DEF releaseExclusive, ClearExclusive
<1>10. CASE UNCHANGED vars
  BY <1>10 DEF vars
<1>11. QED
  BY <1>1, <1>2, <1>3, <1>4, <1>5, <1>6, <1>7, <1>8, <1>9, <1>10 DEF Next

\* IInv is an inductive invariant of the lock.
THEOREM LockInvariant == Spec => []IInv
<1>1. IInv /\ [Next]_vars => IInv'
  BY NextTypeOK, NextShareCountExact, NextFlagInv DEF IInv, FlagInv
<1>2. QED
  BY InitIInv, <1>1, PTL DEF Spec

\* The variables of the lock keep their types.
THEOREM LockTypeOK == Spec => []TypeOK
<1>1. IInv => TypeOK
  BY DEF IInv
<1>2. QED
  BY LockInvariant, <1>1, PTL

\* For any number of clients, an exclusive owner of the lock is alone.
THEOREM LockMutualExclusion == Spec => []MutualExclusion
<1>1. IInv => MutualExclusion
  BY DEF IInv
<1>2. QED
  BY LockInvariant, <1>1, PTL

\* For any number of clients, the share count in the word is exact.
THEOREM LockShareCountExact == Spec => []ShareCountExact
<1>1. IInv => ShareCountExact
  BY DEF IInv
<1>2. QED
  BY LockInvariant, <1>1, PTL

\* For any number of clients, tryUpgradeNonReEntrant has one winner between
\* two exclusive periods.
THEOREM LockSingleUpgradeWinner == Spec => []SingleUpgradeWinner
<1>1. IInv => SingleUpgradeWinner
  BY DEF IInv
<1>2. QED
  BY LockInvariant, <1>1, PTL

\* A compare-and-swap that succeeds finds no share and no owner.
LEMMA FreeWhenOnlyUpgraded == IInv /\ OnlyUpgraded(bits) => sharers = {} /\ Owners = {}
<1> SUFFICES ASSUME IInv, OnlyUpgraded(bits) PROVE sharers = {} /\ Owners = {}
  OBVIOUS
<1>1. Counted \subseteq Clients /\ Cardinality(Counted) = 0
  BY DEF IInv, TypeOK, Counted, ShareCountExact, OnlyUpgraded
<1>2. sharers = {}
  BY <1>1, ClientsAssumption, FS_Subset, FS_EmptySet DEF Counted
<1>3. Owners = {}
  BY DEF IInv, ExclusiveBitExact, OnlyUpgraded, Owners
<1>4. QED
  BY <1>2, <1>3

\* One step of the lock is one step of the readers-writer lock, or none.
LEMMA StepSimulation ==
  IInv /\ [Next]_vars => [Abstract!Next]_<<sharers, Owners>>
<1> SUFFICES ASSUME IInv, [Next]_vars PROVE [Abstract!Next]_<<sharers, Owners>>
  OBVIOUS
<1> USE DEF Abstract!Next, Abstract!Share, Abstract!Unshare, Abstract!Own,
        Abstract!Disown, Owners
<1>0. TypeOK
  BY DEF IInv
<1>1. ASSUME NEW c \in Clients, tryShared(c) PROVE [Abstract!Next]_<<sharers, Owners>>
  <2>1. CASE UpgradedOrExclusive(bits)
    BY <1>0, <1>1, <2>1 DEF tryShared, TypeOK
  <2>2. CASE ~UpgradedOrExclusive(bits)
    <3>1. Owners = {}
      BY <2>2 DEF IInv, ExclusiveBitExact, UpgradedOrExclusive
    <3>2. Owners' = Owners
      BY <1>1, <2>2 DEF tryShared
    <3>3. Abstract!Share(c)
      BY <1>1, <2>2, <3>1, <3>2 DEF tryShared
    <3>4. QED
      BY <3>3
  <2>3. QED
    BY <2>1, <2>2
<1>2. ASSUME NEW c \in Clients, tryShared_undo(c) PROVE UNCHANGED <<sharers, Owners>>
  BY <1>0, <1>2 DEF tryShared_undo, TypeOK
<1>3. ASSUME NEW c \in Clients, releaseShared(c) PROVE Abstract!Unshare(c)
  BY <1>3 DEF releaseShared
<1>4. ASSUME NEW c \in Clients,
             tryUpgrade(c) \/ tryUpgradeNonReEntrant(c) \/ exclusive_call(c)
      PROVE  UNCHANGED <<sharers, Owners>>
  BY <1>0, <1>4 DEF tryUpgrade, tryUpgradeNonReEntrant, exclusive_call, TypeOK
<1>5. ASSUME NEW c \in Clients, tryExclusive(c) \/ exclusive(c)
      PROVE  [Abstract!Next]_<<sharers, Owners>>
  <2>1. CASE OnlyUpgraded(bits)
    <3>1. sharers = {} /\ Owners = {}
      BY <2>1, FreeWhenOnlyUpgraded
    <3>2. pc' = [pc EXCEPT ![c] = "exclusive"] /\ sharers' = sharers
      BY <1>5, <2>1 DEF tryExclusive, exclusive
    <3>3. Owners' = {c}
      BY <1>0, <3>1, <3>2 DEF TypeOK
    <3>4. QED
      BY <3>1, <3>2, <3>3
  <2>2. CASE ~OnlyUpgraded(bits)
    BY <1>0, <1>5, <2>2 DEF tryExclusive, exclusive, TypeOK
  <2>3. QED
    BY <2>1, <2>2
<1>6. ASSUME NEW c \in Clients, releaseExclusive(c) PROVE Abstract!Disown(c)
  <2>1. Owners = {c}
    BY <1>6 DEF releaseExclusive, IInv, MutualExclusion
  <2>2. Owners' = {}
    BY <1>0, <1>6, <2>1 DEF releaseExclusive, TypeOK
  <2>3. QED
    BY <1>6, <2>1, <2>2 DEF releaseExclusive
<1>7. CASE UNCHANGED vars
  BY <1>7 DEF vars
<1>8. QED
  BY <1>1, <1>2, <1>3, <1>4, <1>5, <1>6, <1>7 DEF Next

\* For any number of clients the lock implements the readers-writer lock.
THEOREM LockImplementsReadersWriter == Spec => ImplementsReadersWriter
<1>1. Init => Abstract!Init
  BY DEF Init, Abstract!Init, Owners
<1>2. QED
  BY <1>1, StepSimulation, LockInvariant, PTL
     DEF Spec, ImplementsReadersWriter, Abstract!Spec
=============================================================================
