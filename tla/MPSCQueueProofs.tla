-------------------------- MODULE MPSCQueueProofs --------------------------
(***************************************************************************)
(* The safety properties of MPSCQueue for every finite set of producers,   *)
(* every capacity and any number of pushes.                                *)
(*                                                                         *)
(* ClaimsExclusive is not inductive alone: a claim succeeds on the index   *)
(* the producer compared with the consumer's, and the consumer advances    *)
(* from the index it compared with the producers'.                         *)
(***************************************************************************)
EXTENDS MPSCQueue, FiniteSetTheorems, SequenceTheorems, TLAPS

\* Most leaves are first-order: Zenon is the default prover here, and a leaf
\* that needs arithmetic, or the type of a function or a record, cites SMT.
USE Zenon

\* A claim is only tried below the end of the ring, which only moves up.
ClaimsInRing == \A p \in Producers : pc[p] = "claim" => write[p] < read_idx + Capacity

\* The consumer reads an index that was published.
ReadsPublished == cpc # "idle" => read = read_idx /\ read_idx < write_idx

\* A producer inside push is in a call that is counted.
PushCounted == \A p \in Producers : pc[p] # "idle" => pushes[p] \in 1..MaxPush

IInv ==
  /\ ClaimsExclusive
  /\ Len(claimed) = write_prepare_idx
  /\ ClaimsInRing
  /\ ReadsPublished
  /\ PushCounted

\* A producer that enters the flight, or leaves it, moves its size by one.
LEMMA FlightMoves ==
  ASSUME NEW S, S \subseteq Producers, NEW p \in Producers
  PROVE  /\ IsFiniteSet(S) /\ Cardinality(S) \in Nat
         /\ p \notin S => Cardinality(S \cup {p}) = Cardinality(S) + 1
         /\ p \in S => Cardinality(S \ {p}) = Cardinality(S) - 1 /\ Cardinality(S) > 0
<1>1. IsFiniteSet(S)
  BY ProducersAssumption, FS_Subset
<1>2. Cardinality(S) \in Nat
  BY <1>1, FS_CardinalityType
<1>3. p \in S => Cardinality(S) # 0
  BY <1>1, FS_EmptySet
<1>4. p \notin S => Cardinality(S \cup {p}) = Cardinality(S) + 1
  BY <1>1, FS_AddElement
<1>5. p \in S => Cardinality(S \ {p}) = Cardinality(S) - 1
  BY <1>1, FS_RemoveElement
<1>6. QED
  BY SMT, <1>1, <1>2, <1>3, <1>4, <1>5

\* An empty ring, and nobody inside.
LEMMA InitIInv == Init => IInv
<1> SUFFICES ASSUME Init PROVE IInv
  OBVIOUS
<1>1. InFlight = {}
  BY DEF Init, InFlight
<1>2. TypeOK
  <2>1. spoiled \subseteq Nat
    BY DEF Init
  <2>2. /\ buffer \in [0..(Capacity - 1) -> Values \cup {Uninit}]
        /\ pc \in [Producers -> {"idle", "full?", "claim", "store", "commit"}]
        /\ cpc \in {"idle", "read", "advance"} /\ val \in Values \cup {Uninit}
        /\ overlap \in BOOLEAN
    BY DEF Init
  <2>3. /\ read_idx \in Nat /\ write_prepare_idx \in Nat /\ write_idx \in Nat /\ read \in Nat
        /\ write \in [Producers -> Nat] /\ write_commit \in [Producers -> Nat]
        /\ pushes \in [Producers -> 0..MaxPush]
    BY SMT, MaxPushAssumption DEF Init
  <2>4. claimed \in Seq(Values) /\ popped \in Seq(Values \cup {Uninit})
    BY SMT DEF Init
  <2>5. QED
    BY <2>1, <2>2, <2>3, <2>4 DEF TypeOK
<1>3. Cardinality(InFlight) = 0
  BY <1>1, FS_EmptySet
<1>4. IndicesOrdered
  BY SMT, <1>3, CapacityAssumption DEF Init, IndicesOrdered
<1>5. QED
  BY <1>1, <1>2, <1>4 DEF Init, IInv, ClaimsExclusive, ClaimsInRing, ReadsPublished, PushCounted

\* Every step keeps the types.
LEMMA NextTypeOK == TypeOK /\ PushCounted /\ [Next]_vars => TypeOK'
<1> SUFFICES ASSUME TypeOK, PushCounted, [Next]_vars PROVE TypeOK'
  OBVIOUS
<1> USE CapacityAssumption, MaxPushAssumption DEF TypeOK, ring, producer, consumer, history
<1>1. ASSUME NEW p \in Producers, push_load(p) PROVE TypeOK'
  BY SMT, <1>1 DEF push_load
<1>2. ASSUME NEW p \in Producers, push_full(p) PROVE TypeOK'
  BY <1>2 DEF push_full
<1>3. ASSUME NEW p \in Producers, push_claim(p) PROVE TypeOK'
  <2>1. Value(p, pushes[p]) \in Values
    BY <1>3 DEF push_claim, PushCounted, Value, Values
  <2>2. CASE write_prepare_idx = write[p]
    <3>1. claimed' \in Seq(Values)
      <4>1. claimed' = Append(claimed, Value(p, pushes[p])) /\ claimed \in Seq(Values)
        BY <1>3, <2>2 DEF push_claim
      <4>2. QED
        BY <2>1, <4>1, AppendProperties
    <3>2. overlap' \in BOOLEAN
      BY <1>3, <2>2, Zenon DEF push_claim
    <3>3. write_prepare_idx' \in Nat /\ write' \in [Producers -> Nat]
      BY SMT, <1>3, <2>2 DEF push_claim
    <3>4. pc' \in [Producers -> {"idle", "full?", "claim", "store", "commit"}]
      BY <1>3, <2>2 DEF push_claim
    <3>5. UNCHANGED <<buffer, read_idx, write_idx, write_commit, pushes, consumer, popped,
                      spoiled>>
      BY <1>3 DEF push_claim
    <3>6. QED
      BY <3>1, <3>2, <3>3, <3>4, <3>5
  <2>3. CASE write_prepare_idx # write[p]
    <3>1. /\ write' = [write EXCEPT ![p] = write_prepare_idx]
          /\ pc' = [pc EXCEPT ![p] = "full?"]
          /\ UNCHANGED <<ring, write_commit, pushes, consumer, history>>
      BY <1>3, <2>3 DEF push_claim
    <3>2. QED
      BY <3>1
  <2>4. QED
    BY <2>2, <2>3
<1>4. ASSUME NEW p \in Producers, push_store(p) PROVE TypeOK'
  <2>1. Value(p, pushes[p]) \in Values
    BY <1>4 DEF push_store, PushCounted, Value, Values
  <2>2. spoiled' \subseteq Nat
    <3>1. write[p] \in Nat /\ ReadSoFar \in Nat
      BY SMT DEF ReadSoFar
    <3>2. Spoils(p) \subseteq Nat
      BY SMT, <3>1 DEF Spoils
    <3>3. QED
      BY <1>4, <3>2 DEF push_store
  <2>3. QED
    BY <1>4, <2>1, <2>2 DEF push_store
<1>5. ASSUME NEW p \in Producers, push_commit(p) PROVE TypeOK'
  <2>1. CASE write_idx = write_commit[p]
    <3>1. write_idx' \in Nat
      BY SMT, <1>5, <2>1 DEF push_commit
    <3>2. pc' \in [Producers -> {"idle", "full?", "claim", "store", "commit"}]
      BY <1>5, <2>1 DEF push_commit
    <3>3. /\ UNCHANGED <<buffer, read_idx, write_prepare_idx, write, write_commit, pushes>>
          /\ UNCHANGED <<consumer, history>>
      BY <1>5, <2>1 DEF push_commit
    <3>4. QED
      BY <3>1, <3>2, <3>3
  <2>2. CASE write_idx # write_commit[p]
    <3>1. write_commit' \in [Producers -> Nat]
      BY <1>5, <2>2 DEF push_commit
    <3>2. UNCHANGED <<ring, pc, write, pushes, consumer, history>>
      BY <1>5, <2>2 DEF push_commit
    <3>3. QED
      BY <3>1, <3>2
  <2>3. QED
    BY <2>1, <2>2
<1>6. CASE pop_check
  BY <1>6 DEF pop_check
<1>7. CASE pop_read
  <2>1. Slot(read) \in 0..(Capacity - 1)
    BY SMT DEF Slot
  <2>2. QED
    BY <1>7, <2>1 DEF pop_read
<1>8. CASE pop_advance
  BY SMT, <1>8 DEF pop_advance
<1>9. CASE UNCHANGED vars
  BY <1>9 DEF vars
<1>10. QED
  BY <1>1, <1>2, <1>3, <1>4, <1>5, <1>6, <1>7, <1>8, <1>9 DEF Next, push, pop

\* Every step keeps the indices in order and the claims apart.
LEMMA NextIInv == IInv /\ [Next]_vars => IInv'
<1> SUFFICES ASSUME IInv, [Next]_vars PROVE IInv'
  OBVIOUS
<1> USE CapacityAssumption, MaxPushAssumption DEF ring, producer, consumer, history
<1>0. TypeOK /\ TypeOK'
  BY NextTypeOK DEF IInv, ClaimsExclusive
<1>a. ASSUME NEW p \in Producers
      PROVE  /\ Cardinality(InFlight) \in Nat
             /\ p \notin InFlight => Cardinality(InFlight \cup {p}) = Cardinality(InFlight) + 1
             /\ p \in InFlight => /\ Cardinality(InFlight \ {p}) = Cardinality(InFlight) - 1
                                  /\ Cardinality(InFlight) > 0
  BY FlightMoves DEF InFlight
<1> DEFINE Owned == \A p \in InFlight :
                       /\ write[p] < write_prepare_idx
                       /\ claimed[write[p] + 1] = Value(p, pushes[p])
                       /\ \A q \in InFlight : write[q] = write[p] => q = p
           Local == /\ Len(claimed) = write_prepare_idx
                    /\ ClaimsInRing /\ ReadsPublished /\ PushCounted
           Rest == IndicesOrdered /\ Owned /\ Local
<1>b. Rest
  BY DEF IInv, ClaimsExclusive
<1> SUFFICES Rest'
  BY <1>0 DEF IInv, ClaimsExclusive
<1>1. ASSUME NEW p \in Producers, push_load(p) PROVE Rest'
  <2>1. InFlight' = InFlight
    BY <1>0, <1>1 DEF push_load, InFlight, TypeOK
  <2>2. IndicesOrdered'
    BY <1>1, <1>b, <2>1 DEF push_load, IndicesOrdered
  <2>3. Owned'
    BY SMT, <1>0, <1>1, <1>b, <2>1 DEF push_load, InFlight, TypeOK, Value
  <2>4. Local'
    BY SMT, <1>0, <1>1, <1>b DEF push_load, TypeOK, IndicesOrdered, ClaimsInRing, ReadsPublished,
       PushCounted
  <2>5. QED
    BY <2>2, <2>3, <2>4
<1>2. ASSUME NEW p \in Producers, push_full(p) PROVE Rest'
  <2>1. InFlight' = InFlight
    BY <1>0, <1>2 DEF push_full, InFlight, TypeOK
  <2>2. IndicesOrdered'
    BY <1>2, <1>b, <2>1 DEF push_full, IndicesOrdered
  <2>3. Owned'
    BY <1>0, <1>2, <1>b, <2>1 DEF push_full, InFlight, TypeOK, Value
  <2>4. Local'
    BY SMT, <1>0, <1>2, <1>b DEF push_full, TypeOK, IndicesOrdered, ClaimsInRing, ReadsPublished,
       PushCounted
  <2>5. QED
    BY <2>2, <2>3, <2>4
<1>3. ASSUME NEW p \in Producers, push_claim(p) PROVE Rest'
  <2>1. CASE write_prepare_idx = write[p]
    <3>1. InFlight' = InFlight \cup {p} /\ p \notin InFlight
      BY SMT, <1>0, <1>3, <2>1 DEF push_claim, InFlight, TypeOK
    <3>2. IndicesOrdered'
      <4>1. write_idx' = write_idx /\ read_idx' = read_idx /\ write_prepare_idx' = write[p] + 1
        BY <1>3, <2>1 DEF push_claim
      <4>2. Cardinality(InFlight') = Cardinality(InFlight) + 1
        BY <1>a, <3>1
      <4>3. write[p] < read_idx + Capacity
        BY <1>3, <1>b DEF ClaimsInRing, push_claim
      <4>4. /\ read_idx <= write_idx
            /\ write_idx + Cardinality(InFlight) = write[p]
        BY <1>b, <2>1 DEF IndicesOrdered
      <4>5. /\ Cardinality(InFlight) \in Nat
            /\ read_idx \in Nat /\ write_idx \in Nat /\ write[p] \in Nat
        BY <1>0, <1>a DEF TypeOK
      <4>6. QED
        BY SMT, <4>1, <4>2, <4>3, <4>4, <4>5 DEF IndicesOrdered
    <3>3. /\ claimed' = Append(claimed, Value(p, pushes[p]))
          /\ write' = write /\ pushes' = pushes /\ write_prepare_idx' = write[p] + 1
      BY <1>3, <2>1 DEF push_claim
    <3>4. /\ Len(claimed') = write[p] + 1
          /\ claimed'[write[p] + 1] = Value(p, pushes[p])
          /\ \A i \in 1..write[p] : claimed'[i] = claimed[i]
      <4>1. claimed \in Seq(Values) /\ Len(claimed) = write[p]
        BY <1>0, <1>b, <2>1 DEF TypeOK
      <4>2. QED
        BY SMT, <3>3, <4>1
    <3>5. ASSUME NEW q \in InFlight
          PROVE  write[q] < write[p] /\ claimed'[write[q] + 1] = Value(q, pushes[q])
      <4>1. q \in Producers /\ write[q] \in Nat /\ write[p] \in Nat
        BY <1>0 DEF TypeOK, InFlight
      <4>2. write[q] < write[p] /\ claimed[write[q] + 1] = Value(q, pushes[q])
        BY <1>b, <2>1
      <4>3. write[q] + 1 \in 1..write[p]
        BY SMT, <4>1, <4>2
      <4>4. QED
        BY <3>4, <4>2, <4>3
    <3>6. \A r \in InFlight' :
             /\ write'[r] < write_prepare_idx'
             /\ claimed'[write'[r] + 1] = Value(r, pushes'[r])
             /\ \A q \in InFlight' : write'[q] = write'[r] => q = r
      <4>1. \A r \in Producers : write[r] \in Nat
        BY <1>0 DEF TypeOK
      <4>2. InFlight \subseteq Producers
        BY DEF InFlight
      <4>3. QED
        BY SMT, <1>b, <3>1, <3>3, <3>4, <3>5, <4>1, <4>2
    <3>7. Len(claimed') = write_prepare_idx'
      BY <3>3, <3>4
    <3>8. (ClaimsInRing /\ ReadsPublished /\ PushCounted)'
      BY <1>0, <1>3, <1>b, <2>1 DEF push_claim, TypeOK, ClaimsInRing, ReadsPublished, PushCounted
    <3>9. QED
      BY <3>2, <3>6, <3>7, <3>8 DEF Value
  <2>2. CASE write_prepare_idx # write[p]
    <3>1. InFlight' = InFlight
      BY <1>0, <1>3, <2>2 DEF push_claim, InFlight, TypeOK
    <3>2. IndicesOrdered'
      BY <1>3, <2>2, <1>b, <3>1 DEF push_claim, IndicesOrdered
    <3>3. Owned'
      <4>1. \A q \in InFlight : write'[q] = write[q]
        BY <1>0, <1>3, <2>2 DEF push_claim, InFlight, TypeOK
      <4>2. UNCHANGED <<write_prepare_idx, claimed, pushes>>
        BY <1>3, <2>2 DEF push_claim
      <4>3. QED
        BY SMT, <1>b, <3>1, <4>1, <4>2 DEF Value
    <3>4. Local'
      BY <1>0, <1>3, <2>2, <1>b DEF push_claim, TypeOK, IndicesOrdered, ClaimsInRing, ReadsPublished,
         PushCounted
    <3>5. QED
      BY <3>2, <3>3, <3>4
  <2>3. QED
    BY <2>1, <2>2
<1>4. ASSUME NEW p \in Producers, push_store(p) PROVE Rest'
  <2>1. InFlight' = InFlight
    BY <1>0, <1>4 DEF push_store, InFlight, TypeOK
  <2>2. IndicesOrdered'
    BY <1>4, <1>b, <2>1 DEF push_store, IndicesOrdered
  <2>3. Owned'
    BY <1>0, <1>4, <1>b, <2>1 DEF push_store, InFlight, TypeOK, Value
  <2>4. Local'
    BY <1>0, <1>4, <1>b DEF push_store, TypeOK, IndicesOrdered, ClaimsInRing, ReadsPublished,
       PushCounted
  <2>5. QED
    BY <2>2, <2>3, <2>4
<1>5. ASSUME NEW p \in Producers, push_commit(p) PROVE Rest'
  <2>1. CASE write_idx = write_commit[p]
    <3>1. InFlight' = InFlight \ {p} /\ p \in InFlight
      BY <1>0, <1>5, <2>1 DEF push_commit, InFlight, TypeOK
    <3>2. write_idx' = write_idx + 1
      BY <1>5, <2>1 DEF push_commit
    <3>3. IndicesOrdered'
      <4>1. read_idx' = read_idx /\ write_prepare_idx' = write_prepare_idx
        BY <1>5 DEF push_commit
      <4>2. /\ Cardinality(InFlight') = Cardinality(InFlight) - 1
            /\ Cardinality(InFlight) \in Nat
        BY <1>a, <3>1
      <4>3. read_idx \in Nat /\ write_idx \in Nat /\ write_prepare_idx \in Nat
        BY <1>0 DEF TypeOK
      <4>4. QED
        BY SMT, <1>b, <3>2, <4>1, <4>2, <4>3 DEF IndicesOrdered
    <3>4. Owned'
      BY <1>5, <1>b, <3>1 DEF push_commit, Value
    <3>5. Local'
      BY SMT, <1>0, <1>5, <1>b, <2>1, <3>2 DEF push_commit, TypeOK, ClaimsInRing, ReadsPublished,
         PushCounted
    <3>6. QED
      BY <3>3, <3>4, <3>5
  <2>2. CASE write_idx # write_commit[p]
    <3>1. InFlight' = InFlight
      BY <1>0, <1>5, <2>2 DEF push_commit, InFlight, TypeOK
    <3>2. IndicesOrdered'
      BY <1>5, <2>2, <1>b, <3>1 DEF push_commit, IndicesOrdered
    <3>3. Owned'
      BY <1>0, <1>5, <2>2, <1>b, <3>1 DEF push_commit, InFlight, TypeOK, Value
    <3>4. Local'
      BY <1>0, <1>5, <2>2, <1>b DEF push_commit, TypeOK, IndicesOrdered, ClaimsInRing, ReadsPublished,
         PushCounted
    <3>5. QED
      BY <3>2, <3>3, <3>4
  <2>3. QED
    BY <2>1, <2>2
<1>6. CASE pop_check
  <2>1. InFlight' = InFlight
    BY <1>6 DEF pop_check, InFlight
  <2>2. IndicesOrdered'
    BY <1>6, <1>b, <2>1 DEF pop_check, IndicesOrdered
  <2>3. Owned'
    BY <1>0, <1>6, <1>b, <2>1 DEF pop_check, InFlight, TypeOK, Value
  <2>4. Local'
    BY SMT, <1>0, <1>6, <1>a, <1>b DEF pop_check, TypeOK, IndicesOrdered, ClaimsInRing, ReadsPublished,
       PushCounted
  <2>5. QED
    BY <2>2, <2>3, <2>4
<1>7. CASE pop_read
  <2>1. InFlight' = InFlight
    BY <1>7 DEF pop_read, InFlight
  <2>2. IndicesOrdered'
    BY <1>7, <1>b, <2>1 DEF pop_read, IndicesOrdered
  <2>3. Owned'
    BY <1>0, <1>7, <1>b, <2>1 DEF pop_read, InFlight, TypeOK, Value
  <2>4. Local'
    BY <1>0, <1>7, <1>b DEF pop_read, TypeOK, IndicesOrdered, ClaimsInRing, ReadsPublished,
       PushCounted
  <2>5. QED
    BY <2>2, <2>3, <2>4
<1>8. CASE pop_advance
  <2>1. InFlight' = InFlight /\ read_idx' = read_idx + 1 /\ read_idx < write_idx
    BY <1>8, <1>b DEF pop_advance, InFlight, ReadsPublished
  <2>2. IndicesOrdered'
    BY SMT, <1>0, <1>8, <1>b, <2>1 DEF pop_advance, TypeOK, IndicesOrdered
  <2>3. Owned'
    BY <1>8, <1>b, <2>1 DEF pop_advance, Value
  <2>4. Local'
    BY SMT, <1>0, <1>8, <1>b, <2>1 DEF pop_advance, TypeOK, ClaimsInRing, ReadsPublished, PushCounted
  <2>5. QED
    BY <2>2, <2>3, <2>4
<1>9. CASE UNCHANGED vars
  BY <1>9, <1>b DEF vars, IndicesOrdered, ClaimsInRing, ReadsPublished, PushCounted, InFlight, Value
<1>10. QED
  BY <1>1, <1>2, <1>3, <1>4, <1>5, <1>6, <1>7, <1>8, <1>9 DEF Next, push, pop

\* The inductive invariant of the queue holds.
THEOREM QueueInvariant == Spec => []IInv
<1>1. QED
  BY InitIInv, NextIInv, PTL DEF Spec

\* An index is claimed by one producer only, an unread slot is never claimed,
\* and between the two write indices lie exactly the pushes in flight: for any
\* producers, any capacity and any number of pushes (MPSCQueue::push and pop).
THEOREM QueueClaimsExclusive == Spec => []ClaimsExclusive
<1>1. IInv => ClaimsExclusive
  BY DEF IInv
<1>2. QED
  BY <1>1, QueueInvariant, PTL
-----------------------------------------------------------------------------
(***************************************************************************)
(* While no two pushes overlap the ring holds what was claimed: every      *)
(* published slot is filled, the one push in flight works on the slot after *)
(* them, and it never comes round to a slot that is not read yet.          *)
(***************************************************************************)
PoppedInOrder == \A i \in 1..read_idx : popped[i] = claimed[i]
FlightAtEnd == \A p \in InFlight : write[p] = write_idx
PublishedFilled == \A i \in read_idx..(write_idx - 1) : buffer[Slot(i)] = claimed[i + 1]
CommitFilled == \A p \in Producers :
  pc[p] = "commit" => buffer[Slot(write[p])] = Value(p, pushes[p])
ReadRight == cpc = "advance" => val = claimed[read + 1]

Filled == PoppedInOrder /\ FlightAtEnd /\ PublishedFilled /\ CommitFilled /\ ReadRight
FInv == Len(popped) = read_idx /\ (~overlap => Filled)

\* Indices less than Capacity apart have different slots.
LEMMA SlotsApart ==
  ASSUME NEW i \in Nat, NEW j \in Nat, i < j, j < i + Capacity
  PROVE  Slot(i) # Slot(j)
<1> SUFFICES ASSUME i % Capacity = j % Capacity PROVE FALSE
  BY DEF Slot
<1> DEFINE q == i \div Capacity
           r == j \div Capacity
<1>1. /\ q \in Int /\ r \in Int /\ i % Capacity \in Int
      /\ i = Capacity * q + (i % Capacity) /\ j = Capacity * r + (j % Capacity)
  BY CapacityAssumption, SMT
<1>2. j - i = Capacity * (r - q)
  BY <1>1, CapacityAssumption, SMT
<1>3. CASE r - q <= 0
  <2>1. Capacity * (r - q) <= 0
    BY <1>1, <1>3, CapacityAssumption, SMT
  <2>2. QED
    BY SMT, <1>2, <2>1
<1>4. CASE r - q >= 1
  <2>1. Capacity * (r - q) >= Capacity
    BY <1>1, <1>4, CapacityAssumption, SMT
  <2>2. QED
    BY SMT, <1>2, <2>1, CapacityAssumption
<1>5. QED
  BY SMT, <1>1, <1>3, <1>4

\* Nothing is popped from an empty ring.
LEMMA InitFInv == Init => FInv
<1> SUFFICES ASSUME Init PROVE FInv
  OBVIOUS
<1>1. InFlight = {}
  BY DEF Init, InFlight
<1>2. QED
  BY SMT, <1>1 DEF Init, FInv, Filled, PoppedInOrder, FlightAtEnd, PublishedFilled, CommitFilled,
     ReadRight

\* Every step keeps the published slots filled while no two pushes overlap.
LEMMA NextFInv == IInv /\ FInv /\ [Next]_vars => FInv'
<1> SUFFICES ASSUME IInv, FInv, [Next]_vars PROVE FInv'
  OBVIOUS
<1> USE CapacityAssumption DEF ring, producer, consumer, history
<1>0. TypeOK /\ TypeOK'
  BY NextIInv DEF IInv, ClaimsExclusive
<1>a. /\ read_idx \in Nat /\ write_idx \in Nat /\ write_prepare_idx \in Nat
      /\ read_idx <= write_idx /\ write_idx <= write_prepare_idx
      /\ write_prepare_idx <= read_idx + Capacity
      /\ Len(claimed) = write_prepare_idx
      /\ InFlight # {} => write_idx < write_prepare_idx
      /\ InFlight = {} => write_idx = write_prepare_idx
  <2>1. IsFiniteSet(InFlight)
    BY ProducersAssumption, FS_Subset DEF InFlight
  <2>2. Cardinality(InFlight) \in Nat /\ (Cardinality(InFlight) = 0 <=> InFlight = {})
    BY <2>1, FS_CardinalityType, FS_EmptySet
  <2>3. IndicesOrdered /\ Len(claimed) = write_prepare_idx
    BY DEF IInv, ClaimsExclusive
  <2>4. QED
    BY SMT, <1>0, <2>2, <2>3 DEF IndicesOrdered, TypeOK
<1>b. \A p \in Producers : write[p] \in Nat
  BY <1>0 DEF TypeOK
<1>c. InFlight \subseteq Producers
  BY DEF InFlight
<1>d. Len(popped) = read_idx /\ (~overlap => Filled)
  BY DEF FInv
<1>1. ASSUME NEW p \in Producers, push_load(p) PROVE FInv'
  <2>1. InFlight' = InFlight /\ \A q \in InFlight : write'[q] = write[q]
    BY <1>0, <1>1 DEF push_load, InFlight, TypeOK
  <2>2. ASSUME ~overlap, CommitFilled PROVE CommitFilled'
    BY <1>0, <1>1, <2>2 DEF push_load, CommitFilled, TypeOK, Value, Slot
  <2>3. QED
    BY <1>1, <1>d, <2>1, <2>2 DEF push_load, FInv, Filled, PoppedInOrder, FlightAtEnd,
       PublishedFilled, ReadRight, Slot
<1>2. ASSUME NEW p \in Producers, push_full(p) PROVE FInv'
  <2>1. InFlight' = InFlight
    BY <1>0, <1>2 DEF push_full, InFlight, TypeOK
  <2>2. ASSUME ~overlap, CommitFilled PROVE CommitFilled'
    BY <1>0, <1>2, <2>2 DEF push_full, CommitFilled, TypeOK, Value, Slot
  <2>3. QED
    BY <1>2, <1>d, <2>1, <2>2 DEF push_full, FInv, Filled, PoppedInOrder, FlightAtEnd,
       PublishedFilled, ReadRight, Slot
<1>3. ASSUME NEW p \in Producers, push_claim(p) PROVE FInv'
  <2>1. CASE write_prepare_idx = write[p]
    <3>1. /\ UNCHANGED <<buffer, read_idx, write_idx, write, pushes, cpc, read, val, popped>>
          /\ claimed' = Append(claimed, Value(p, pushes[p]))
          /\ overlap' = (overlap \/ InFlight # {})
          /\ pc' = [pc EXCEPT ![p] = "store"]
      BY <1>3, <2>1 DEF push_claim
    <3>2. \A i \in 1..write_prepare_idx : claimed'[i] = claimed[i]
      BY SMT, <1>0, <1>a, <3>1 DEF TypeOK
    <3>3. SUFFICES ASSUME ~overlap' PROVE Filled'
      BY <1>d, <3>1 DEF FInv
    <3>4. ~overlap /\ InFlight = {} /\ write_idx = write[p] /\ Filled
      BY <1>a, <1>d, <2>1, <3>1, <3>3
    <3>5. InFlight' = {p}
      BY SMT, <1>0, <3>1, <3>4 DEF InFlight, TypeOK
    <3>6. PoppedInOrder'
      BY SMT, <1>a, <3>1, <3>2, <3>4 DEF Filled, PoppedInOrder
    <3>7. FlightAtEnd'
      BY <3>1, <3>4, <3>5 DEF FlightAtEnd
    <3>8. PublishedFilled'
      <4>1. SUFFICES ASSUME NEW i \in read_idx..(write_idx - 1)
                     PROVE  buffer[Slot(i)] = claimed'[i + 1]
        BY <3>1 DEF PublishedFilled, Slot
      <4>2. i + 1 \in 1..write_prepare_idx
        BY SMT, <1>a
      <4>3. QED
        BY <3>2, <3>4, <4>2 DEF Filled, PublishedFilled
    <3>9. CommitFilled'
      BY <1>0, <3>1, <3>4 DEF Filled, CommitFilled, TypeOK, Value, Slot
    <3>10. ReadRight'
      <4>1. cpc = "advance" => read + 1 \in 1..write_prepare_idx
        BY SMT, <1>0, <1>a DEF IInv, ReadsPublished, TypeOK
      <4>2. QED
        BY <3>1, <3>2, <3>4, <4>1 DEF Filled, ReadRight
    <3>11. QED
      BY <3>6, <3>7, <3>8, <3>9, <3>10 DEF Filled
  <2>2. CASE write_prepare_idx # write[p]
    <3>1. InFlight' = InFlight /\ \A q \in InFlight : write'[q] = write[q]
      BY <1>0, <1>3, <2>2 DEF push_claim, InFlight, TypeOK
    <3>2. ASSUME ~overlap, CommitFilled PROVE CommitFilled'
      BY <1>0, <1>3, <2>2, <3>2 DEF push_claim, CommitFilled, TypeOK, Value, Slot
    <3>3. QED
      BY SMT, <1>3, <1>d, <2>2, <3>1, <3>2 DEF push_claim, FInv, Filled, PoppedInOrder, FlightAtEnd,
         PublishedFilled, ReadRight, Slot
  <2>3. QED
    BY <2>1, <2>2
<1>4. ASSUME NEW p \in Producers, push_store(p) PROVE FInv'
  <2>1. /\ UNCHANGED <<read_idx, write_prepare_idx, write_idx, write, pushes, consumer>>
        /\ UNCHANGED <<claimed, popped, overlap>>
        /\ buffer' = [buffer EXCEPT ![Slot(write[p])] = Value(p, pushes[p])]
        /\ pc' = [pc EXCEPT ![p] = "commit"] /\ p \in InFlight
    BY <1>4 DEF push_store, InFlight
  <2>2. InFlight' = InFlight
    BY <1>0, <1>4 DEF push_store, InFlight, TypeOK
  <2>3. SUFFICES ASSUME ~overlap PROVE Filled'
    BY <1>d, <2>1 DEF FInv
  <2>4. Filled /\ write[p] = write_idx
    BY <1>d, <2>1, <2>3 DEF Filled, FlightAtEnd
  <2>5. \A i \in Nat : Slot(i) \in 0..(Capacity - 1)
    BY SMT DEF Slot
  <2>6. PublishedFilled'
    <3>1. SUFFICES ASSUME NEW i \in read_idx..(write_idx - 1)
                   PROVE  buffer'[Slot(i)] = claimed[i + 1]
      BY <2>1 DEF PublishedFilled, Slot
    <3>2. i \in Nat /\ i < write_idx /\ write_idx < i + Capacity
      BY SMT, <1>a, <2>1
    <3>3. Slot(i) # Slot(write_idx)
      BY <1>a, <3>2, SlotsApart
    <3>4. QED
      BY <1>0, <2>1, <2>4, <2>5, <3>2, <3>3 DEF Filled, PublishedFilled, TypeOK
  <2>7. CommitFilled'
    <3>1. SUFFICES ASSUME NEW q \in Producers, pc'[q] = "commit"
                   PROVE  buffer'[Slot(write[q])] = Value(q, pushes[q])
      BY <2>1 DEF CommitFilled, Slot, Value
    <3>2. q = p
      <4>1. q \in InFlight
        BY <2>2, <3>1 DEF InFlight
      <4>2. write[q] = write[p]
        BY <2>1, <2>4, <4>1 DEF Filled, FlightAtEnd
      <4>3. QED
        BY <2>1, <4>1, <4>2 DEF IInv, ClaimsExclusive
    <3>3. QED
      BY <1>0, <1>b, <2>1, <2>5, <3>2 DEF TypeOK
  <2>8. PoppedInOrder' /\ FlightAtEnd' /\ ReadRight'
    BY <2>1, <2>2, <2>4 DEF Filled, PoppedInOrder, FlightAtEnd, ReadRight
  <2>9. QED
    BY <2>6, <2>7, <2>8 DEF Filled
<1>5. ASSUME NEW p \in Producers, push_commit(p) PROVE FInv'
  <2>1. CASE write_idx = write_commit[p]
    <3>1. /\ UNCHANGED <<buffer, read_idx, write_prepare_idx, write, pushes, consumer, history>>
          /\ write_idx' = write_idx + 1
          /\ pc[p] = "commit" /\ pc' = [pc EXCEPT ![p] = "idle"]
          /\ p \in InFlight
      BY <1>5, <2>1 DEF push_commit, InFlight
    <3>2. InFlight' = InFlight \ {p}
      BY <1>0, <3>1 DEF InFlight, TypeOK
    <3>3. SUFFICES ASSUME ~overlap PROVE Filled'
      BY <1>d, <3>1 DEF FInv
    <3>4. Filled /\ write[p] = write_idx
      BY <1>d, <3>1, <3>3 DEF Filled, FlightAtEnd
    <3>5. FlightAtEnd'
      <4>1. \A q \in InFlight : q = p
        BY <3>1, <3>4 DEF Filled, FlightAtEnd, IInv, ClaimsExclusive
      <4>2. QED
        BY <3>2, <4>1 DEF FlightAtEnd
    <3>6. PublishedFilled'
      <4>1. buffer[Slot(write_idx)] = claimed[write_idx + 1]
        BY <3>1, <3>4 DEF Filled, CommitFilled, IInv, ClaimsExclusive
      <4>2. SUFFICES ASSUME NEW i \in read_idx..write_idx
                     PROVE  buffer[Slot(i)] = claimed[i + 1]
        <5>1. (write_idx + 1) - 1 = write_idx
          BY SMT, <1>a
        <5>2. QED
          BY <3>1, <5>1 DEF PublishedFilled, Slot
      <4>3. i = write_idx \/ i \in read_idx..(write_idx - 1)
        BY SMT, <1>a
      <4>4. QED
        BY <3>4, <4>1, <4>3 DEF Filled, PublishedFilled
    <3>7. CommitFilled'
      BY <1>0, <3>1, <3>4 DEF Filled, CommitFilled, TypeOK, Value, Slot
    <3>8. PoppedInOrder' /\ ReadRight'
      BY <3>1, <3>4 DEF Filled, PoppedInOrder, ReadRight
    <3>9. QED
      BY <3>5, <3>6, <3>7, <3>8 DEF Filled
  <2>2. CASE write_idx # write_commit[p]
    <3>1. UNCHANGED <<ring, pc, write, pushes, consumer, history>>
      BY <1>5, <2>2 DEF push_commit
    <3>2. QED
      BY <1>d, <3>1 DEF FInv, Filled, PoppedInOrder, FlightAtEnd, PublishedFilled, CommitFilled,
         ReadRight, InFlight, Slot, Value
  <2>3. QED
    BY <2>1, <2>2
<1>6. CASE pop_check
  BY <1>6, <1>d DEF pop_check, FInv, Filled, PoppedInOrder, FlightAtEnd, PublishedFilled,
     CommitFilled, ReadRight, InFlight, Slot, Value
<1>7. CASE pop_read
  <2>1. /\ UNCHANGED <<ring, producer, read, history>>
        /\ val' = buffer[Slot(read)]
        /\ read = read_idx /\ read_idx < write_idx
    BY <1>7 DEF pop_read, IInv, ReadsPublished
  <2>2. ASSUME PublishedFilled PROVE val' = claimed[read + 1]
    BY SMT, <1>a, <2>1, <2>2 DEF PublishedFilled
  <2>3. QED
    BY <1>d, <2>1, <2>2 DEF FInv, Filled, PoppedInOrder, FlightAtEnd, PublishedFilled,
       CommitFilled, ReadRight, InFlight, Slot, Value
<1>8. CASE pop_advance
  <2>1. /\ UNCHANGED <<buffer, write_idx, pc, write, pushes, claimed, overlap>>
        /\ popped' = Append(popped, val) /\ cpc' = "idle" /\ cpc = "advance"
        /\ read = read_idx /\ read_idx' = read_idx + 1
    BY <1>8 DEF pop_advance, IInv, ReadsPublished
  <2>2. /\ Len(popped') = read_idx + 1 /\ popped'[read_idx + 1] = val
        /\ \A i \in 1..read_idx : popped'[i] = popped[i]
    <3>1. popped \in Seq(Values \cup {Uninit}) /\ val \in Values \cup {Uninit} /\ Len(popped) = read_idx
      BY <1>0, <1>d DEF TypeOK
    <3>2. QED
      BY SMT, <2>1, <3>1, AppendProperties
  <2>3. ASSUME Filled PROVE PoppedInOrder'
    <3>1. SUFFICES ASSUME NEW i \in 1..(read_idx + 1) PROVE popped'[i] = claimed[i]
      BY <2>1 DEF PoppedInOrder
    <3>2. i = read_idx + 1 \/ i \in 1..read_idx
      BY SMT, <1>a
    <3>3. QED
      BY <2>1, <2>2, <2>3, <3>2 DEF Filled, PoppedInOrder, ReadRight
  <2>4. ASSUME Filled PROVE PublishedFilled'
    <3>1. SUFFICES ASSUME NEW i \in (read_idx + 1)..(write_idx - 1)
                   PROVE  buffer[Slot(i)] = claimed[i + 1]
      BY <2>1 DEF PublishedFilled, Slot
    <3>2. i \in read_idx..(write_idx - 1)
      BY SMT, <1>a
    <3>3. QED
      BY <2>4, <3>2 DEF Filled, PublishedFilled
  <2>5. QED
    BY <1>d, <2>1, <2>2, <2>3, <2>4 DEF FInv, Filled, FlightAtEnd, CommitFilled, ReadRight,
       InFlight, Slot, Value
<1>9. CASE UNCHANGED vars
  BY <1>9, <1>d DEF vars, FInv, Filled, PoppedInOrder, FlightAtEnd, PublishedFilled,
     CommitFilled, ReadRight, InFlight, Slot, Value
<1>10. QED
  BY <1>1, <1>2, <1>3, <1>4, <1>5, <1>6, <1>7, <1>8, <1>9 DEF Next, push, pop

\* In an order that agrees with the claims means as their prefix.
LEMMA FilledIsFIFO == IInv /\ FInv => FIFOWithoutOverlap
<1> SUFFICES ASSUME IInv, FInv, ~overlap PROVE FIFO
  BY DEF FIFOWithoutOverlap
<1> DEFINE V == Values \cup {Uninit}
           n == Len(popped)
<1>1. /\ popped \in Seq(V) /\ claimed \in Seq(Values) /\ read_idx \in Nat
      /\ n = read_idx /\ PoppedInOrder
  BY DEF IInv, ClaimsExclusive, TypeOK, FInv, Filled
<1>2. IsFiniteSet(InFlight) /\ Cardinality(InFlight) \in Nat
  BY ProducersAssumption, FS_Subset, FS_CardinalityType DEF InFlight
<1>3. n <= Len(claimed)
  BY SMT, <1>1, <1>2 DEF IInv, ClaimsExclusive, IndicesOrdered, TypeOK
<1>4. \A i \in 1..n : claimed[i] \in V
  BY SMT, <1>1, <1>3
<1>5. /\ SubSeq(claimed, 1, n) \in Seq(V)
      /\ Len(SubSeq(claimed, 1, n)) = n
      /\ \A i \in 1..n : SubSeq(claimed, 1, n)[i] = claimed[i]
  BY SMT, <1>1, <1>3, <1>4
<1>6. QED
  BY <1>1, <1>5, SeqEqual DEF FIFO, PoppedInOrder

\* As long as no two pushes overlap, in particular with one producer, values
\* come out complete and in order: for any capacity and any number of pushes.
\* (With overlapping pushes the loop at lockfree_queue.h:58 can publish a slot
\* that is not filled.)
THEOREM QueueFIFOWithoutOverlap == Spec => []FIFOWithoutOverlap
<1>1. QED
  BY QueueInvariant, InitFInv, NextFInv, FilledIsFIFO, PTL DEF Spec
=============================================================================
