----------------------------- MODULE MPSCQueue -----------------------------
(***************************************************************************)
(* MPSCQueue (include/common/lockfree_queue.h): the fixed-size ring that   *)
(* carries pending requests from the calling threads to a socket's reader. *)
(* Any number of producers push, one consumer pops.                        *)
(*                                                                         *)
(* Every load, store and compare-and-swap is a step of its own.  The queue *)
(* is documented for x86, where the stores of one thread become visible in *)
(* order, so the interleaving of these steps is all there is.  The indices *)
(* only grow (size_t does not wrap in a run of the program).               *)
(***************************************************************************)
EXTENDS Integers, Sequences, FiniteSets

CONSTANTS Producers,
          Capacity,     \* slots of the ring
          MaxPush,      \* bound: calls of push by one producer
          Uninit        \* what a slot of the malloc'ed ring holds at first

ASSUME CapacityAssumption == Capacity \in Nat \ {0}
ASSUME MaxPushAssumption == MaxPush \in Nat
ASSUME ProducersAssumption == IsFiniteSet(Producers)

VARIABLES buffer,               \* _buffer
          read_idx,             \* _read_idx
          write_prepare_idx,    \* _write_prepare_idx
          write_idx,            \* _write_idx
          pc, write, write_commit,      \* of each producer
          cpc, read, val,               \* of the consumer
          pushes,       \* calls of push so far
          claimed,      \* values in the order their slots were claimed (history)
          popped,       \* values in the order they were popped (history)
          overlap,      \* two pushes were once past their claim together (history)
          spoiled       \* indices whose value cannot come out any more (history)

ring == <<buffer, read_idx, write_prepare_idx, write_idx>>
producer == <<pc, write, write_commit, pushes>>
consumer == <<cpc, read, val>>
history == <<claimed, popped, overlap, spoiled>>
vars == <<ring, producer, consumer, history>>

\* The value of the n-th push of p.
Value(p, n) == <<p, n>>
Values == Producers \X (1..MaxPush)
Slot(i) == i % Capacity

\* Producers that own a slot and have not returned from push.
InFlight == {p \in Producers : pc[p] \in {"store", "commit"}}

Init ==
  /\ buffer = [s \in 0..(Capacity - 1) |-> Uninit]
  /\ read_idx = 0 /\ write_prepare_idx = 0 /\ write_idx = 0
  /\ pc = [p \in Producers |-> "idle"]
  /\ write = [p \in Producers |-> 0]
  /\ write_commit = [p \in Producers |-> 0]
  /\ pushes = [p \in Producers |-> 0]
  /\ cpc = "idle" /\ read = 0 /\ val = Uninit
  /\ claimed = << >> /\ popped = << >> /\ overlap = FALSE
  /\ spoiled = {}

\* push(): auto write = _write_prepare_idx.load()
push_load(p) ==
  /\ pc[p] = "idle" /\ pushes[p] < MaxPush
  /\ pushes' = [pushes EXCEPT ![p] = @ + 1]
  /\ write' = [write EXCEPT ![p] = write_prepare_idx]
  /\ pc' = [pc EXCEPT ![p] = "full?"]
  /\ UNCHANGED <<ring, write_commit, consumer, history>>

\* push(): load _read_idx, and return false when the ring is full
push_full(p) ==
  /\ pc[p] = "full?"
  /\ pc' = [pc EXCEPT ![p] = IF write[p] >= read_idx + Capacity THEN "idle" ELSE "claim"]
  /\ UNCHANGED <<ring, write, write_commit, pushes, consumer, history>>

\* Variant: claim by a plain store in place of the compare-and-swap.
push_claim_store(p) ==
  /\ pc[p] = "claim"
  /\ write_prepare_idx' = write[p] + 1
  /\ claimed' = Append(claimed, Value(p, pushes[p]))
  /\ overlap' = (overlap \/ InFlight # {})
  /\ pc' = [pc EXCEPT ![p] = "store"]
  /\ UNCHANGED <<buffer, read_idx, write_idx, write, write_commit, pushes, consumer,
                 popped, spoiled>>

\* push(): compare-and-swap on _write_prepare_idx; a failure reloads write and
\* looks at the consumer's index again
push_claim(p) ==
  /\ pc[p] = "claim"
  /\ \/ /\ write_prepare_idx = write[p]
        /\ write_prepare_idx' = write[p] + 1
        /\ claimed' = Append(claimed, Value(p, pushes[p]))
        /\ overlap' = (overlap \/ InFlight # {})
        /\ pc' = [pc EXCEPT ![p] = "store"]
        /\ UNCHANGED write
     \/ /\ write_prepare_idx # write[p]
        /\ write' = [write EXCEPT ![p] = write_prepare_idx]
        /\ pc' = [pc EXCEPT ![p] = "full?"]
        /\ UNCHANGED <<write_prepare_idx, claimed, overlap>>
  /\ UNCHANGED <<buffer, read_idx, write_idx, write_commit, pushes, consumer,
                 popped, spoiled>>

\* Variant: the index is published before the slot is filled.
push_store_late(p) ==
  /\ pc[p] = "store"
  /\ write_commit' = [write_commit EXCEPT ![p] = write[p]]
  /\ pc' = [pc EXCEPT ![p] = "commit"]
  /\ UNCHANGED <<ring, write, pushes, consumer, history>>

\* The indices below this one were read by the consumer.
ReadSoFar == IF cpc = "advance" THEN read + 1 ELSE read_idx

\* A store into a slot that was read already: its value comes too late, and takes
\* the place of one that was claimed for the slot since.
Spoils(p) ==
  IF write[p] < ReadSoFar
  THEN {write[p]} \cup {i \in ReadSoFar..(write_prepare_idx - 1) : Slot(i) = Slot(write[p])}
  ELSE {}

\* push(): _buffer[write & _mask] = val; auto write_commit = write
push_store(p) ==
  /\ pc[p] = "store"
  /\ buffer' = [buffer EXCEPT ![Slot(write[p])] = Value(p, pushes[p])]
  /\ write_commit' = [write_commit EXCEPT ![p] = write[p]]
  /\ spoiled' = spoiled \cup Spoils(p)
  /\ pc' = [pc EXCEPT ![p] = "commit"]
  /\ UNCHANGED <<read_idx, write_prepare_idx, write_idx, write, pushes, consumer,
                 claimed, popped, overlap>>

\* Variant: one round only, no loop.
push_commit_once(p) ==
  /\ pc[p] = "commit"
  /\ write_idx' = IF write_idx = write_commit[p] THEN write_idx + 1 ELSE write_idx
  /\ pc' = [pc EXCEPT ![p] = "idle"]
  /\ UNCHANGED <<buffer, read_idx, write_prepare_idx, write, write_commit, pushes, consumer, history>>

\* push(): one round of the loop around the compare-and-swap on _write_idx.  A
\* failure stores the current index into write_commit, so the next round tries
\* to move the index from wherever it is, not from this producer's slot.
push_commit(p) ==
  /\ pc[p] = "commit"
  /\ \/ /\ write_idx = write_commit[p]
        /\ write_idx' = write_commit[p] + 1
        /\ pc' = [pc EXCEPT ![p] = "idle"]
        /\ UNCHANGED write_commit
     \/ /\ write_idx # write_commit[p]
        /\ write_commit' = [write_commit EXCEPT ![p] = write_idx]
        /\ UNCHANGED <<write_idx, pc>>
  /\ UNCHANGED <<buffer, read_idx, write_prepare_idx, write, pushes, consumer, history>>

\* pop(): compare the two indices; an empty queue returns false, a step that
\* changes nothing
pop_check ==
  /\ cpc = "idle"
  /\ read_idx # write_idx
  /\ read' = read_idx
  /\ cpc' = "read"
  /\ UNCHANGED <<ring, producer, val, history>>

\* pop(): val = _buffer[read & _mask]
pop_read ==
  /\ cpc = "read"
  /\ val' = buffer[Slot(read)]
  /\ cpc' = "advance"
  /\ UNCHANGED <<ring, producer, read, history>>

\* pop(): _read_idx.store(read + 1), return true
pop_advance ==
  /\ cpc = "advance"
  /\ read_idx' = read + 1
  /\ popped' = Append(popped, val)
  /\ cpc' = "idle"
  /\ UNCHANGED <<buffer, write_prepare_idx, write_idx, producer, read, val, claimed, overlap,
                 spoiled>>

push(p) ==
  push_load(p) \/ push_full(p) \/ push_claim(p) \/ push_store(p) \/ push_commit(p)

pop == pop_check \/ pop_read \/ pop_advance

Next == (\E p \in Producers : push(p)) \/ pop

Spec == Init /\ [][Next]_vars

\* A thread inside push or pop goes on.  The socket's reader pops again and
\* again; nothing obliges a producer to push.
FairSpec ==
  /\ Spec
  /\ \A p \in Producers :
       WF_vars(push_full(p) \/ push_claim(p) \/ push_store(p) \/ push_commit(p))
  /\ WF_vars(pop)
-----------------------------------------------------------------------------
TypeOK ==
  /\ buffer \in [0..(Capacity - 1) -> Values \cup {Uninit}]
  /\ read_idx \in Nat /\ write_prepare_idx \in Nat /\ write_idx \in Nat
  /\ pc \in [Producers -> {"idle", "full?", "claim", "store", "commit"}]
  /\ write \in [Producers -> Nat] /\ write_commit \in [Producers -> Nat]
  /\ pushes \in [Producers -> 0..MaxPush]
  /\ cpc \in {"idle", "read", "advance"} /\ read \in Nat /\ val \in Values \cup {Uninit}
  /\ claimed \in Seq(Values) /\ popped \in Seq(Values \cup {Uninit})
  /\ overlap \in BOOLEAN /\ spoiled \subseteq Nat

\* The indices are ordered and the ring never holds more than Capacity values;
\* what lies between the two write indices is exactly the pushes in flight.
IndicesOrdered ==
  /\ read_idx <= write_idx
  /\ write_idx + Cardinality(InFlight) = write_prepare_idx
  /\ write_prepare_idx <= read_idx + Capacity

\* An index is claimed by one producer only: every push in flight owns the index
\* it works on, however the claims of the producers interleave, and the indices
\* stay ordered.
ClaimsExclusive ==
  /\ TypeOK /\ IndicesOrdered
  /\ \A p \in InFlight :
       /\ write[p] < write_prepare_idx
       /\ claimed[write[p] + 1] = Value(p, pushes[p])
       /\ \A q \in InFlight : write[q] = write[p] => q = p

\* The values come out complete and in the order their slots were claimed.
FIFO == popped = SubSeq(claimed, 1, Len(popped))

\* ... which holds as long as no two pushes overlap, in particular with one
\* producer: the queue is then a FIFO queue that loses and invents nothing.
FIFOWithoutOverlap == overlap \/ FIFO

\* push returns: the loops around the two compare-and-swaps end, because every
\* failure means that another producer has got on.
PushReturns == \A p \in Producers : pc[p] # "idle" ~> pc[p] = "idle"

\* Pushes return, and everything pushed comes out in the end, each value in its
\* turn, except what a store that came too late has spoiled; and that takes two
\* pushes that overlap.
Drained ==
  /\ PushReturns
  /\ <>[](InFlight = {} =>
            /\ Len(popped) = Len(claimed)
            /\ \A i \in 1..Len(claimed) : popped[i] = claimed[i] \/ i - 1 \in spoiled)
  /\ [](spoiled # {} => overlap)
=============================================================================
