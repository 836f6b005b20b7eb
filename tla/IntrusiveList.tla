--------------------------- MODULE IntrusiveList ---------------------------
(***************************************************************************)
(* IntrusiveList (include/common/intrusive_list.h): the doubly linked list *)
(* without a lock that orders the LRU cache.  A step is one load, store or *)
(* compare-and-swap of a link; the labels IS1 to IS3 and RS1 to RS6 are    *)
(* those of the code's comments.                                           *)
(*                                                                         *)
(* A thread pushes a node it holds outside the list, as the cache and the  *)
(* unit tests do, or everybody pushes anything and nobody takes a node out.*)
(***************************************************************************)
EXTENDS Integers, Sequences, FiniteSets

CONSTANTS Threads, Nodes,
          Scenes,       \* the operations the threads mix, and the list at the start
          MaxCalls      \* bound: calls of one thread

VARIABLES next, prev,   \* the links of the nodes, _header and _tail
          size,         \* _size
          pc,           \* where a thread is
          at,           \* its call: the operation and the local pointers
          calls,        \* how many calls it has made
          use,          \* the operations called in this behaviour
          owner,        \* the thread that holds a node outside the list
          reused        \* history: see claim

vars == <<next, prev, size, pc, at, calls, use, owner, reused>>

header == "header"
tail == "tail"
null == "null"
Ends == {header, tail}

Pushes == {"push_front", "push_back"}
Pops == {"pop_front", "pop_back"}
NoCall == [op |-> "none", cur |-> null, prev |-> null, next |-> null]

\* The neighbour of n in a sequence, i places on; null when there is none.
Neighbour(s, n, i) ==
  LET At == {k \in DOMAIN s : s[k] = n /\ k + i \in DOMAIN s}
  IN IF At = {} THEN null ELSE s[(CHOOSE k \in At : TRUE) + i]

\* A constructed list, with the nodes of some start pushed.
Init ==
  /\ \E scene \in Scenes :
       LET chain == <<header>> \o scene.start \o <<tail>> IN
       /\ use = scene.use
       /\ next = [n \in Nodes \cup Ends |-> Neighbour(chain, n, 1)]
       /\ prev = [n \in Nodes \cup Ends |-> Neighbour(chain, n, -1)]
       /\ size = Len(scene.start)
       /\ owner \in [Nodes -> Threads \cup {null}]
       /\ \A n \in Nodes : owner[n] = null <=> prev[n] # null
  /\ pc = [t \in Threads |-> "idle"]
  /\ at = [t \in Threads |-> NoCall]
  /\ calls = [t \in Threads |-> 0]
  /\ reused = FALSE

goto(t, label) == pc' = [pc EXCEPT ![t] = label]

\* Where a call that failed half-way starts over.
retry(t) ==
  goto(t, CASE at[t].op \in Pushes -> "push"
            [] at[t].op \in Pops   -> "pop"
            [] OTHER               -> "remove")

return(t) ==
  /\ goto(t, "idle")
  /\ at' = [at EXCEPT ![t] = NoCall]

\* compare_exchange_strong on a link of node n: the new value of the links.
CAS(link, n, expect, desired) ==
  [link EXCEPT ![n] = IF @ = expect THEN desired ELSE @]

MayPush(t, n) == owner[n] = t \/ use \subseteq Pushes

call(t) ==
  /\ pc[t] = "idle" /\ calls[t] < MaxCalls
  /\ calls' = [calls EXCEPT ![t] = @ + 1]
  /\ \/ \E op \in use \cap Pushes, n \in Nodes :
          /\ MayPush(t, n)
          /\ at' = [at EXCEPT ![t] = [NoCall EXCEPT !.op = op, !.cur = n]]
          /\ goto(t, "push")
     \/ \E op \in use \cap {"remove"}, n \in Nodes :
          /\ at' = [at EXCEPT ![t] = [NoCall EXCEPT !.op = op, !.cur = n]]
          /\ goto(t, "remove")
     \/ \E op \in use \cap Pops :
          /\ at' = [at EXCEPT ![t] = [NoCall EXCEPT !.op = op]]
          /\ goto(t, "pop")
  /\ UNCHANGED <<next, prev, size, use, owner, reused>>
-----------------------------------------------------------------------------
\* push_front and push_back: a node with a prev is in the list, or somebody
\* is inserting it.
push(t) ==
  /\ pc[t] = "push"
  /\ \/ prev[at[t].cur] # null /\ return(t)
     \/ prev[at[t].cur] = null /\ goto(t, "ends") /\ UNCHANGED at
  /\ UNCHANGED <<next, prev, size, calls, use, owner, reused>>

\* The two neighbours to insert between.
ends(t) ==
  /\ pc[t] = "ends"
  /\ at' = [at EXCEPT ![t] =
       IF @.op = "push_front"
       THEN [@ EXCEPT !.prev = header, !.next = next[header]]
       ELSE [@ EXCEPT !.prev = prev[tail], !.next = tail]]
  /\ goto(t, "IS1")
  /\ UNCHANGED <<next, prev, size, calls, use, owner, reused>>

\* insert_once
IS1(t) ==
  /\ pc[t] = "IS1"
  /\ IF prev[at[t].next] # at[t].prev THEN retry(t) ELSE goto(t, "claim")
  /\ UNCHANGED <<next, prev, size, at, calls, use, owner, reused>>

\* A push_back by u has read n as the last node, and relies on it.
ReliesOn(u, n) ==
  /\ at[u].op = "push_back" /\ at[u].prev = n
  /\ pc[u] \in {"IS1", "claim", "store", "IS2", "IS3"}

\* The prev of the node itself says who inserts it.  When the node was the last
\* one, was taken out and is pushed again while a push_back that read it is still
\* at work, that push_back cannot tell.
claim(t) ==
  /\ pc[t] = "claim"
  /\ prev' = CAS(prev, at[t].cur, null, at[t].prev)
  /\ IF prev[at[t].cur] = null THEN goto(t, "store") ELSE retry(t)
  /\ reused' = (reused \/ (prev[at[t].cur] = null /\ \E u \in Threads : ReliesOn(u, at[t].cur)))
  /\ UNCHANGED <<next, size, at, calls, use, owner>>

store(t) ==
  /\ pc[t] = "store"
  /\ next' = [next EXCEPT ![at[t].cur] = at[t].next]
  /\ goto(t, "IS2")
  /\ UNCHANGED <<prev, size, at, calls, use, owner, reused>>


IS2(t) ==
  /\ pc[t] = "IS2"
  /\ next' = CAS(next, at[t].prev, at[t].next, at[t].cur)
  /\ goto(t, IF next[at[t].prev] = at[t].next THEN "IS3" ELSE "unstore")
  /\ UNCHANGED <<prev, size, at, calls, use, owner, reused>>


\* IS2 failed: reset the next, and after it the prev.
unstore(t) ==
  /\ pc[t] = "unstore"
  /\ next' = CAS(next, at[t].cur, at[t].next, null)
  /\ goto(t, "unclaim")
  /\ UNCHANGED <<prev, size, at, calls, use, owner, reused>>

unclaim(t) ==
  /\ pc[t] = "unclaim"
  /\ prev' = CAS(prev, at[t].cur, at[t].prev, null)
  /\ retry(t)
  /\ UNCHANGED <<next, size, at, calls, use, owner, reused>>

\* Spins until the other neighbour points back at the first.
IS3(t) ==
  /\ pc[t] = "IS3"
  /\ prev[at[t].next] = at[t].prev
  /\ prev' = CAS(prev, at[t].next, at[t].prev, at[t].cur)
  /\ size' = size + 1
  /\ owner' = [owner EXCEPT ![at[t].cur] = null]
  /\ return(t)
  /\ UNCHANGED <<next, calls, use, reused>>
-----------------------------------------------------------------------------
remove(t) ==
  /\ pc[t] = "remove"
  /\ at' = [at EXCEPT ![t].prev = prev[at[t].cur]]
  /\ goto(t, "remove_next")
  /\ UNCHANGED <<next, prev, size, calls, use, owner, reused>>

\* A node without one of its links is another thread's: return false.
remove_next(t) ==
  /\ pc[t] = "remove_next"
  /\ LET n == next[at[t].cur] IN
     \/ (at[t].prev = null \/ n = null) /\ return(t)
     \/ /\ at[t].prev # null /\ n # null
        /\ at' = [at EXCEPT ![t].next = n]
        /\ goto(t, "RS1")
  /\ UNCHANGED <<next, prev, size, calls, use, owner, reused>>

\* pop_front and pop_back: the node at the end ...
pop(t) ==
  /\ pc[t] = "pop"
  /\ LET n == IF at[t].op = "pop_front" THEN next[header] ELSE prev[tail] IN
     \/ n \in Ends /\ return(t)
     \/ /\ n \notin Ends
        /\ at' = [at EXCEPT ![t].cur = n]
        /\ goto(t, "pop_next")
  /\ UNCHANGED <<next, prev, size, calls, use, owner, reused>>

\* ... and the link on its other side, null while somebody takes the node.
pop_next(t) ==
  /\ pc[t] = "pop_next"
  /\ LET front == at[t].op = "pop_front"
         n == IF front THEN next[at[t].cur] ELSE prev[at[t].cur]
     IN \/ n = null /\ retry(t) /\ UNCHANGED at
        \/ /\ n # null
           /\ at' = [at EXCEPT ![t] =
                IF front THEN [@ EXCEPT !.prev = header, !.next = n]
                         ELSE [@ EXCEPT !.prev = n, !.next = tail]]
           /\ goto(t, "RS1")
  /\ UNCHANGED <<next, prev, size, calls, use, owner, reused>>

\* remove_once
RS1(t) ==
  /\ pc[t] = "RS1"
  /\ IF prev[at[t].next] # at[t].cur THEN retry(t) ELSE goto(t, "RS2")
  /\ UNCHANGED <<next, prev, size, at, calls, use, owner, reused>>

RS2(t) ==
  /\ pc[t] = "RS2"
  /\ IF next[at[t].prev] # at[t].cur THEN retry(t) ELSE goto(t, "RS3")
  /\ UNCHANGED <<next, prev, size, at, calls, use, owner, reused>>

RS3(t) ==
  /\ pc[t] = "RS3"
  /\ prev' = CAS(prev, at[t].cur, at[t].prev, null)
  /\ IF prev[at[t].cur] = at[t].prev THEN goto(t, "RS4") ELSE retry(t)
  /\ UNCHANGED <<next, size, at, calls, use, owner, reused>>

RS4(t) ==
  /\ pc[t] = "RS4"
  /\ next' = CAS(next, at[t].cur, at[t].next, null)
  /\ goto(t, IF next[at[t].cur] = at[t].next THEN "RS5" ELSE "undo4")
  /\ UNCHANGED <<prev, size, at, calls, use, owner, reused>>

RS5(t) ==
  /\ pc[t] = "RS5"
  /\ next' = CAS(next, at[t].prev, at[t].cur, at[t].next)
  /\ goto(t, IF next[at[t].prev] = at[t].cur THEN "RS6" ELSE "undo5")
  /\ UNCHANGED <<prev, size, at, calls, use, owner, reused>>


\* RS4 or RS5 failed: put the prev back, and after RS5 the next as well.
undo(t) ==
  /\ pc[t] \in {"undo4", "undo5"}
  /\ prev' = CAS(prev, at[t].cur, null, at[t].prev)
  /\ IF pc[t] = "undo4" THEN retry(t) ELSE goto(t, "undo5_next")
  /\ UNCHANGED <<next, size, at, calls, use, owner, reused>>

undo_next(t) ==
  /\ pc[t] = "undo5_next"
  /\ next' = CAS(next, at[t].cur, null, at[t].next)
  /\ retry(t)
  /\ UNCHANGED <<prev, size, at, calls, use, owner, reused>>

\* Spins until the other neighbour points back at the node taken out.
RS6(t) ==
  /\ pc[t] = "RS6"
  /\ prev[at[t].next] = at[t].cur
  /\ prev' = CAS(prev, at[t].next, at[t].cur, at[t].prev)
  /\ size' = size - 1
  /\ owner' = [owner EXCEPT ![at[t].cur] = t]
  /\ return(t)
  /\ UNCHANGED <<next, calls, use, reused>>
-----------------------------------------------------------------------------
insert_once(t) == IS1(t) \/ claim(t) \/ store(t) \/ IS2(t)
               \/ unstore(t) \/ unclaim(t) \/ IS3(t)

remove_once(t) == RS1(t) \/ RS2(t) \/ RS3(t) \/ RS4(t) \/ RS5(t) \/ RS6(t)
               \/ undo(t) \/ undo_next(t)

step(t) == push(t) \/ ends(t) \/ insert_once(t)
        \/ remove(t) \/ remove_next(t) \/ pop(t) \/ pop_next(t) \/ remove_once(t)

Next == \E t \in Threads : call(t) \/ step(t)

Spec == Init /\ [][Next]_vars

\* The threads keep running.
FairSpec == Spec /\ \A t \in Threads : WF_vars(step(t))
-----------------------------------------------------------------------------
PC == {"idle", "push", "ends", "IS1", "claim", "store", "IS2", "unstore",
       "unclaim", "IS3", "remove", "remove_next", "pop", "pop_next", "RS1",
       "RS2", "RS3", "RS4", "RS5", "undo4", "undo5", "undo5_next", "RS6"}

TypeOK ==
  /\ next \in [Nodes \cup Ends -> Nodes \cup Ends \cup {null}]
  /\ prev \in [Nodes \cup Ends -> Nodes \cup Ends \cup {null}]
  /\ size \in Int
  /\ pc \in [Threads -> PC]
  /\ calls \in [Threads -> 0..MaxCalls]
  /\ owner \in [Nodes -> Threads \cup {null}]

Linked == {n \in Nodes : prev[n] # null}

\* The nodes from _header on.  A removal between RS4 and RS5 has taken the
\* next out of its node, and the node is still in the list.
Contents ==
  LET taking(n) == {t \in Threads : pc[t] \in {"RS5", "undo5", "undo5_next"}
                                     /\ at[t].cur = n}
      after(n) == IF next[n] # null \/ taking(n) = {} THEN next[n]
                  ELSE at[CHOOSE t \in taking(n) : TRUE].next
      walk[k \in 0..Cardinality(Nodes)] ==
        IF k = 0 THEN <<header>>
        ELSE LET w == walk[k - 1] IN
             IF w[Len(w)] \in {tail, null} THEN w ELSE Append(w, after(w[Len(w)]))
  IN SelectSeq(walk[Cardinality(Nodes)], LAMBDA n : n \in Nodes)


Sequence == INSTANCE NodeList
  WITH Operations <- UNION {scene.use : scene \in Scenes}, list <- Contents,
       op <- [t \in Threads |-> at[t].op]


=============================================================================
