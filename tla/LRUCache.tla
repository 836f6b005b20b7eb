------------------------------ MODULE LRUCache ------------------------------
(***************************************************************************)
(* LRUCache (include/common/lru_cache.h): a ConcurrentHashMap whose nodes  *)
(* also lie on an IntrusiveList in the order of their use.  The map's      *)
(* intrusive operations call the five hooks of the cache under the lock of *)
(* the bucket; put and exchange touch the list after they released it, and *)
(* release_nodes takes the lock of a second bucket under the first.        *)
(*                                                                         *)
(* The list is the sequence IntrusiveList implements: one step for a push, *)
(* a remove or a pop.  _mem_size_used is a size_t and wraps at SizeMax.    *)
(***************************************************************************)
EXTENDS ConcurrentHashMap, SequencesExt

CONSTANTS MemSizes,        \* what a node may be said to use
          _mem_size,
          SizeMax          \* 2^w of size_t

VARIABLES _list,           \* the nodes, the most recently used first
          _mem_size_used,
          overlapped,      \* two calls were under way at once (history)
          touched,         \* _list.remove was given a deleted node (history)
          mistaken,        \* and removed another, constructed in its place (history)
          destroyed        \* the destructor has run

cacheVars == <<_list, _mem_size_used, overlapped, touched, mistaken, destroyed>>
vars == <<mapVars, cacheVars>>

Init ==
  /\ mapInit
  /\ _list = IF intrusive THEN Reverse([i \in DOMAIN node |-> i]) ELSE <<>>
  /\ _mem_size_used = FoldSeq(LAMBDA n, sum : n.used_mem + sum, 0, node)
  /\ overlapped = FALSE /\ touched = FALSE /\ mistaken = FALSE
  /\ destroyed = FALSE

Listed == {_list[i] : i \in DOMAIN _list}
Unlisted(n) == SelectSeq(_list, LAMBDA m : m # n)
Mem(n) == node[n].used_mem
charge(m) == _mem_size_used' = (_mem_size_used + m) % SizeMax
plain == <<readers, writer, _element_size, calls, kept>>
history == <<overlapped, touched, mistaken, destroyed>>

\* put and exchange allocate the node before they lock.
cache_call(t) ==
  /\ pc[t] = "idle" /\ calls < MaxCalls /\ intrusive /\ ~destroyed
  /\ calls' = calls + 1
  /\ \/ \E op \in {"get", "erase"}, k \in Keys :
          /\ locals(t, [op |-> op, key |-> k])
          /\ UNCHANGED node
     \/ \E op \in {"put", "exchange"}, k \in Keys, m \in MemSizes :
          /\ node' = Append(node, [key |-> k, value |-> calls', used_mem |-> m])
          /\ locals(t, [op |-> op, key |-> k, val |-> calls', p |-> Len(node) + 1])
  /\ goto(t, "lock")
  /\ overlapped' = (overlapped \/ ~Quiet)
  /\ UNCHANGED <<buckets, freed, readers, writer, _element_size, result, kept,
                 _list, _mem_size_used, touched, mistaken, destroyed>>
-----------------------------------------------------------------------------
\* The search gives the node itself, not its value.
intrusive_get_nolock(t) == Found(t) /\ locals(t, [p |-> FoundNode(t)])

intrusive_get(t) ==
  /\ held(t, "get") /\ intrusive
  /\ \/ /\ intrusive_get_nolock(t)
        /\ goto(t, "use")
        /\ UNCHANGED result
     \/ /\ ~Found(t)
        /\ returns(t, FALSE, Absent)
        /\ goto(t, "unlock")
        /\ UNCHANGED at
  /\ UNCHANGED <<buckets, node, freed, plain, cacheVars>>

\* The get hook moves the node to the front, if it is the one to remove it.
get_remove(t) ==
  /\ pc[t] = "use"
  /\ _list' = Unlisted(at[t].p)
  /\ goto(t, IF at[t].p \in Listed THEN "front" ELSE "value")
  /\ UNCHANGED <<buckets, node, freed, at, result, plain, _mem_size_used, history>>

get_push(t) ==
  /\ pc[t] = "front"
  /\ _list' = <<at[t].p>> \o _list
  /\ goto(t, "value")
  /\ UNCHANGED <<buckets, node, freed, at, result, plain, _mem_size_used, history>>

get_value(t) ==
  /\ pc[t] = "value"
  /\ returns(t, TRUE, node[at[t].p].value)
  /\ goto(t, "unlock")
  /\ UNCHANGED <<buckets, node, freed, at, plain, cacheVars>>
-----------------------------------------------------------------------------
\* The caller's node at the end of the chain.
intrusive_put_nolock(t) ==
  /\ ~Found(t)
  /\ setChain(t, Linked(t, at[t].p))
  /\ locals(t, [size |-> _element_size + 1, then |-> "room"])

\* intrusive_put, with the check that a node fits into an empty cache.
intrusive_put(t) ==
  LET refused == Mem(at[t].p) > _mem_size \/ Found(t) IN
  /\ held(t, "put") /\ intrusive
  /\ returns(t, ~refused, Absent)
  /\ \/ ~refused /\ intrusive_put_nolock(t) /\ goto(t, "count")
     \/ refused /\ goto(t, "unlock") /\ UNCHANGED <<buckets, at>>
  /\ UNCHANGED <<node, freed, plain, cacheVars>>

\* The put hook makes room when the node does not fit beside the others ...
put_room(t) ==
  /\ pc[t] = "room"
  /\ \/ /\ Mem(at[t].p) + _mem_size_used > _mem_size
        /\ locals(t, [need |-> Mem(at[t].p)])
        /\ goto(t, "evict")
     \/ /\ Mem(at[t].p) + _mem_size_used <= _mem_size
        /\ goto(t, "charge")
        /\ UNCHANGED at
  /\ UNCHANGED <<buckets, node, freed, result, plain, cacheVars>>

\* ... and then charges it.
put_charge(t) ==
  /\ pc[t] = "charge"
  /\ charge(Mem(at[t].p))
  /\ goto(t, "unlock")
  /\ UNCHANGED <<buckets, node, freed, at, result, plain, _list, history>>

\* The new node comes into the place of the old one, and its hash_next stays null.
intrusive_exchange_nolock(t) ==
  /\ setChain(t, Linked(t, at[t].p))
  /\ \/ Found(t) /\ locals(t, [ori |-> FoundNode(t)])
     \/ ~Found(t) /\ locals(t, [size |-> _element_size + 1, then |-> "add"])

intrusive_exchange(t) ==
  /\ held(t, "exchange") /\ intrusive
  /\ intrusive_exchange_nolock(t)
  /\ returns(t, Found(t), Absent)
  /\ goto(t, IF Found(t) THEN "add" ELSE "count")
  /\ UNCHANGED <<node, freed, plain, cacheVars>>

\* Variant: charge the whole node, as if there had been none.
exchange_add_whole(t) ==
  /\ pc[t] = "add"
  /\ charge(Mem(at[t].p))
  /\ goto(t, "over")
  /\ UNCHANGED <<buckets, node, freed, at, result, plain, _list, history>>

\* The exchange hook charges the difference ...
exchange_add(t) ==
  /\ pc[t] = "add"
  /\ charge(Mem(at[t].p) - (IF at[t].ori = 0 THEN 0 ELSE Mem(at[t].ori)))
  /\ goto(t, "over")
  /\ UNCHANGED <<buckets, node, freed, at, result, plain, _list, history>>

\* ... and makes room afterwards.
exchange_over(t) ==
  /\ pc[t] = "over"
  /\ \/ /\ _mem_size_used > _mem_size
        /\ locals(t, [need |-> _mem_size_used - _mem_size])
        /\ goto(t, "evict")
     \/ /\ _mem_size_used <= _mem_size
        /\ goto(t, "unlock")
        /\ UNCHANGED at
  /\ UNCHANGED <<buckets, node, freed, result, plain, cacheVars>>

intrusive_erase(t) ==
  /\ held(t, "erase") /\ intrusive
  /\ returns(t, Found(t), Absent)
  /\ \/ /\ Found(t)
        /\ setChain(t, Without(Chain(t), at[t].pos))
        /\ locals(t, [p |-> FoundNode(t), size |-> _element_size - 1, then |-> "unlist"])
        /\ goto(t, "count")
     \/ /\ ~Found(t)
        /\ goto(t, "unlock")
        /\ UNCHANGED <<buckets, at>>
  /\ UNCHANGED <<node, freed, plain, cacheVars>>

\* What p->used_mem reads after delete p: the size, or that of a node another
\* thread has just constructed in its place.
UsedMemAfterDelete(t, n) ==
  {Mem(n)} \cup {Mem(at[u].p) : u \in {u \in Threads \ {t} : at[u].op \in {"put", "exchange"}}}

\* Variant: delete the node whoever removes it from the list.
erase_hook_always(t, n) ==
  /\ _list' = Unlisted(n)
  /\ charge(0 - Mem(n))
  /\ delete(n)

\* The erase hook for node n: who removes it from the list deletes it.
erase_hook(t, n) ==
  /\ _list' = Unlisted(n)
  /\ \/ /\ n \in Listed
        /\ delete(n)
        /\ \E m \in UsedMemAfterDelete(t, n) : charge(0 - m)
     \/ /\ n \notin Listed
        /\ charge(0 - Mem(n))
        /\ UNCHANGED freed

erase_unlist(t) ==
  /\ pc[t] = "unlist"
  /\ erase_hook(t, at[t].p)
  /\ goto(t, "unlock")
  /\ UNCHANGED <<buckets, node, at, result, plain, history>>
-----------------------------------------------------------------------------
\* release_nodes: pop the least recently used node while memory is wanted.
evict(t) ==
  /\ pc[t] = "evict"
  /\ \/ /\ at[t].need > 0 /\ _list # <<>>
        /\ locals(t, [victim |-> _list[Len(_list)]])
        /\ _list' = SubSeq(_list, 1, Len(_list) - 1)
        /\ goto(t, "evict_erase")
     \/ /\ at[t].need = 0 \/ _list = <<>>
        /\ goto(t, IF at[t].op = "put" THEN "charge" ELSE "unlock")
        /\ UNCHANGED <<_list, at>>
  /\ UNCHANGED <<buckets, node, freed, result, plain, _mem_size_used, history>>

\* The bucket of the victim, and the place of its key there.
VictimKey(t) == node[at[t].victim].key
VictimChain(t) == buckets[get_bucket_idx(VictimKey(t))]
VictimPos(t) == Position(VictimChain(t), VictimKey(t))
VictimInMap(t) == VictimPos(t) <= Len(VictimChain(t))
SameBucket(t) == get_bucket_idx(at[t].key) = get_bucket_idx(VictimKey(t))
erase_victim(t) ==
  buckets' = IF VictimInMap(t)
             THEN [buckets EXCEPT ![get_bucket_idx(VictimKey(t))] =
                     Without(VictimChain(t), VictimPos(t))]
             ELSE buckets

\* mem -= p->used_mem, and delete p.
Needed(t) == (at[t].need - Mem(at[t].victim)) % SizeMax

\* A victim in the locked bucket is erased by its key at once.
evict_nolock(t) ==
  /\ pc[t] = "evict_erase" /\ SameBucket(t)
  /\ erase_victim(t)
  /\ charge(0 - Mem(at[t].victim))
  /\ delete(at[t].victim)
  /\ IF VictimInMap(t)
     THEN /\ locals(t, [need |-> Needed(t), size |-> _element_size - 1, then |-> "evict"])
          /\ goto(t, "count")
     ELSE /\ locals(t, [need |-> Needed(t)])
          /\ goto(t, "evict")
  /\ UNCHANGED <<node, result, plain, _list, history>>

\* Any other is erased by its key under the lock of its own bucket.
evict_lock(t) ==
  LET l == LockOf(VictimKey(t)) IN
  /\ pc[t] = "evict_erase" /\ ~SameBucket(t)
  /\ readers[l] = {} /\ writer[l] = {}
  /\ writer' = [writer EXCEPT ![l] = {t}]
  /\ erase_victim(t)
  /\ IF VictimInMap(t)
     THEN /\ locals(t, [erased |-> VictimChain(t)[VictimPos(t)], size |-> _element_size - 1,
                        then |-> "evict_hook"])
          /\ goto(t, "count")
     ELSE /\ goto(t, "evict_unlock")
          /\ UNCHANGED at
  /\ UNCHANGED <<node, freed, readers, _element_size, result, calls, kept, cacheVars>>

evict_hook(t) ==
  /\ pc[t] = "evict_hook"
  /\ erase_hook(t, at[t].erased)
  /\ goto(t, "evict_unlock")
  /\ UNCHANGED <<buckets, node, at, result, plain, history>>

evict_unlock(t) ==
  /\ pc[t] = "evict_unlock"
  /\ unlock(t, VictimKey(t))
  /\ goto(t, "evict_free")
  /\ UNCHANGED <<buckets, node, freed, _element_size, at, result, calls, kept, cacheVars>>

evict_free(t) ==
  /\ pc[t] = "evict_free"
  /\ _list' = Unlisted(at[t].victim)
  /\ delete(at[t].victim)
  /\ locals(t, [need |-> Needed(t)])
  /\ goto(t, "evict")
  /\ UNCHANGED <<buckets, node, result, plain, _mem_size_used, history>>
-----------------------------------------------------------------------------
\* The lock is released.  A put that failed deletes its node; one that did not
\* has still to push it, and an exchange to remove the old node before.
cache_unlock(t) ==
  LET next == CASE at[t].op = "put" /\ result[t].ret -> "push"
                [] at[t].op = "exchange" -> IF result[t].ret THEN "remove" ELSE "push"
                [] OTHER -> "idle"
  IN /\ pc[t] = "unlock"
     /\ unlock(t, at[t].key)
     /\ \/ next # "idle" /\ goto(t, next) /\ UNCHANGED <<at, result>>
        \/ next = "idle" /\ return(t)
     /\ IF at[t].op = "put" /\ ~result[t].ret THEN delete(at[t].p) ELSE UNCHANGED freed
     /\ UNCHANGED <<buckets, node, _element_size, calls, kept, cacheVars>>

\* The nodes that may lie where a deleted one was: constructed later, by a call
\* that overlapped this one.
InItsPlace(n) == {m \in Listed : overlapped /\ m > n}

\* The old node may have been deleted: release_nodes of this very call pops it when
\* it is the least recently used one, and other calls may.
exchange_remove(t) ==
  LET ori == at[t].ori
      gone == BagIn(ori, freed)
  IN /\ pc[t] = "remove"
     /\ touched' = (touched \/ gone)
     /\ \E n \in IF gone THEN {ori} \cup InItsPlace(ori) ELSE {ori} :
          /\ _list' = Unlisted(n)
          /\ IF n \in Listed THEN delete(n) ELSE UNCHANGED freed
          /\ mistaken' = (mistaken \/ n # ori)
     /\ goto(t, "push")
     /\ UNCHANGED <<buckets, node, at, result, plain, _mem_size_used, overlapped, destroyed>>

push_front(t) ==
  /\ pc[t] = "push"
  /\ _list' = IF at[t].p \in Listed THEN _list ELSE <<at[t].p>> \o _list
  /\ return(t)
  /\ UNCHANGED <<buckets, node, freed, plain, _mem_size_used, history>>

\* A map deletes the nodes of its chains, unless they are intrusive.
deallocate_buckets == IF intrusive THEN {} ELSE InMap

\* The destructors: that of a cache then deletes the nodes of its list.
destroy ==
  /\ Quiet /\ ~destroyed /\ calls = MaxCalls
  /\ destroyed' = TRUE
  /\ freed' = freed (+) SetToBag(deallocate_buckets \cup Listed)
  /\ UNCHANGED <<buckets, node, at, result, pc, plain, _list, _mem_size_used,
                 overlapped, touched, mistaken>>

cacheNext(t) ==
  \/ cache_call(t)
  \/ intrusive_get(t) \/ get_remove(t) \/ get_push(t) \/ get_value(t)
  \/ intrusive_put(t) \/ put_room(t) \/ put_charge(t)
  \/ intrusive_exchange(t) \/ exchange_add(t) \/ exchange_over(t)
  \/ intrusive_erase(t) \/ erase_unlist(t)
  \/ evict(t) \/ evict_nolock(t) \/ evict_lock(t) \/ evict_hook(t)
  \/ evict_unlock(t) \/ evict_free(t)
  \/ cache_unlock(t) \/ exchange_remove(t) \/ push_front(t)

Next == destroy \/ \E t \in Threads : (mapNext(t) /\ UNCHANGED cacheVars) \/ cacheNext(t)

Spec == Init /\ [][Next]_vars
-----------------------------------------------------------------------------
\* A node is deleted once, and never while the map or the list still leads to
\* it: the right to delete is the successful removal from the list.  And the
\* destructor leaves no node behind.  Exempt are the behaviours after an exchange
\* took a node that lies where its old one was for the old one.
NodesFreedOnce ==
  ~mistaken =>
    /\ \A n \in DOMAIN freed : freed[n] = 1
    /\ ~destroyed => DOMAIN freed \cap (InMap \cup Listed) = {}
    /\ destroyed => DOMAIN freed = DOMAIN node

MemOf(S) == FoldSet(LAMBDA n, sum : sum + Mem(n), 0, S)

\* As long as calls do not overlap, no two keys share a bucket and no exchange
\* has evicted the very node it replaced (touched: release_nodes then takes the
\* new node out of the map by its key), the memory accounts are right after
\* every call: the list holds the nodes of the map, _mem_size_used is their
\* total, and it is within _mem_size unless a single node, which exchange does
\* not refuse, is bigger than that.
MemoryExactInSequence ==
  intrusive /\ Quiet /\ ~destroyed /\ ~overlapped /\ ~touched /\ NoCollision =>
    /\ Listed = InMap
    /\ _mem_size_used = MemOf(InMap)
    /\ _mem_size_used <= _mem_size \/ Cardinality(InMap) = 1

\* The two counters of map and cache are exact where the code can keep them so:
\* see SizeExact and MemoryExactInSequence.
CountersExact == SizeExact /\ MemoryExactInSequence
=============================================================================
