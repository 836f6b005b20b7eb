------------------------------ MODULE NodeList ------------------------------
(***************************************************************************)
(* What an IntrusiveList promises the threads that use it: a sequence of   *)
(* nodes that every push, pop and remove changes in a single step, at the  *)
(* place the operation names.  A call that changes nothing (the node was   *)
(* there already, was gone, or the list was empty) does not show.          *)
(***************************************************************************)
EXTENDS Sequences, Naturals

CONSTANTS Threads, Nodes, Operations
VARIABLES list,     \* the nodes, front first
          op        \* the operation a thread is in, "none" outside

Members == {list[i] : i \in 1..Len(list)}

Init ==
  /\ \A i, j \in 1..Len(list) : list[i] = list[j] => i = j
  /\ op = [t \in Threads |-> "none"]

Call(t) ==
  /\ op[t] = "none"
  /\ \E o \in Operations : op' = [op EXCEPT ![t] = o]
  /\ UNCHANGED list

Return(t) ==
  /\ op[t] # "none"
  /\ op' = [op EXCEPT ![t] = "none"]
  /\ UNCHANGED list

Put(t) ==
  /\ \E n \in Nodes \ Members :
       \/ op[t] = "push_front" /\ list' = <<n>> \o list
       \/ op[t] = "push_back"  /\ list' = Append(list, n)
  /\ UNCHANGED op

Take(t) ==
  /\ \E n \in Members :
       /\ \/ op[t] = "remove"
          \/ op[t] = "pop_front" /\ n = list[1]
          \/ op[t] = "pop_back"  /\ n = list[Len(list)]
       /\ list' = SelectSeq(list, LAMBDA m : m # n)
  /\ UNCHANGED op

Next == \E t \in Threads : Call(t) \/ Return(t) \/ Put(t) \/ Take(t)

vars == <<list, op>>
Spec == Init /\ [][Next]_vars
=============================================================================
