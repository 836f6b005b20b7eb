------------------------- MODULE ConcurrentHashMap -------------------------
(***************************************************************************)
(* ConcurrentHashMap (include/common/concurrent_hash_map.h): buckets that  *)
(* are chains of nodes, under an array of LifeCycleLocks that the buckets  *)
(* share.  A lock is what the proof about LifeCycleLock makes of it, a set *)
(* of readers or one writer; put, exchange and erase spin on tryUpgrade    *)
(* and tryExclusive until they are the writer.                             *)
(*                                                                         *)
(* _element_size is an ordinary integer that calls under different locks   *)
(* add to: its load and its store are two steps.  LRUCache adds the        *)
(* intrusive operations.                                                   *)
(***************************************************************************)
EXTENDS Integers, Sequences, FiniteSets, Bags, TLC

CONSTANTS Threads,
          Keys,          \* natural numbers, hashed to themselves
          BucketHint,    \* bucket_hint
          LockSizes,     \* the numbers of locks to construct a map with
          Fills,         \* what was put before: sequences of [key, used_mem]
          MaxCalls       \* bound: calls of all threads

VARIABLES buckets,       \* the chain of every bucket, as a sequence of nodes
          node,          \* the nodes ever allocated: [key, value, used_mem]
          freed,         \* the nodes deleted, as a bag
          readers, writer,   \* who holds every lock
          _lock_size,
          _element_size,
          pc,            \* where a thread is
          at,            \* its call and its local variables
          result,        \* what its call has come to
          calls,         \* how many calls were made
          intrusive,     \* the map is the base of an LRUCache
          miscounted     \* history: two calls added to the same _element_size

fixed == <<_lock_size, intrusive>>
kept == <<fixed, miscounted>>
mapVars == <<buckets, node, freed, readers, writer, _element_size, pc, at, result,
             calls, kept>>

\* The first primes of the table, and std::lower_bound on it.
primes == <<2, 3, 5, 7, 11, 13>>
nextBucketNum(n) == primes[CHOOSE i \in DOMAIN primes :
  /\ primes[i] >= n \/ i = Len(primes)
  /\ \A j \in 1..(i - 1) : primes[j] < n]

_bucket_size == nextBucketNum(BucketHint)
get_bucket_idx(key) == key % _bucket_size
Absent == 0

\* Every call stores a value of its own, and what was there has another one.
FillValue == MaxCalls + 1
Values == 1..FillValue
Pending == [done |-> FALSE, ret |-> FALSE, val |-> Absent]
Idle == [op |-> "none", key |-> Absent, val |-> Absent, pos |-> 0,
         p |-> 0, ori |-> 0, need |-> 0, victim |-> 0, erased |-> 0, size |-> 0,
         then |-> "release"]

mapInit ==
  /\ \E fill \in Fills :
       /\ node = [i \in DOMAIN fill |-> fill[i] @@ [value |-> FillValue]]
       /\ buckets = [b \in 0..(_bucket_size - 1) |->
            SelectSeq([i \in DOMAIN fill |-> i],
                      LAMBDA i : get_bucket_idx(fill[i].key) = b)]
       /\ _element_size = Len(fill)
  /\ freed = EmptyBag
  /\ intrusive \in BOOLEAN
  /\ _lock_size \in IF intrusive THEN {_bucket_size} ELSE LockSizes
  /\ readers = [l \in 0..(_lock_size - 1) |-> {}]
  /\ writer = [l \in 0..(_lock_size - 1) |-> {}]
  /\ pc = [t \in Threads |-> "idle"]
  /\ at = [t \in Threads |-> Idle]
  /\ result = [t \in Threads |-> Pending]
  /\ calls = 0 /\ miscounted = FALSE

LockOf(key) == get_bucket_idx(key) % _lock_size
Chain(t) == buckets[get_bucket_idx(at[t].key)]

\* Where a chain holds a key; behind its last node when it does not.
Position(chain, key) ==
  LET Found == {i \in DOMAIN chain : node[chain[i]].key = key}
  IN IF Found = {} THEN Len(chain) + 1 ELSE CHOOSE i \in Found : TRUE

goto(t, label) == pc' = [pc EXCEPT ![t] = label]
locals(t, l) == at' = [at EXCEPT ![t] = l @@ @]
setChain(t, chain) == buckets' = [buckets EXCEPT ![get_bucket_idx(at[t].key)] = chain]
delete(n) == freed' = freed (+) SetToBag({n})
returns(t, ret, val) ==
  result' = [result EXCEPT ![t] = [done |-> TRUE, ret |-> ret, val |-> val]]
-----------------------------------------------------------------------------
Operations == {"put", "exchange", "get", "erase"}

call(t) ==
  /\ pc[t] = "idle" /\ calls < MaxCalls /\ ~intrusive
  /\ calls' = calls + 1
  /\ \E op \in Operations, k \in Keys :
       locals(t, [op |-> op, key |-> k,
                  val |-> IF op \in {"put", "exchange"} THEN calls' ELSE Absent])
  /\ goto(t, "lock")
  /\ UNCHANGED <<buckets, node, freed, readers, writer, _element_size, result, kept>>

\* Variant: tryUpgrade alone, so that get may still be reading.
exclusive_upgraded(t) ==
  LET l == LockOf(at[t].key) IN
  /\ pc[t] = "lock" /\ at[t].op # "get"
  /\ writer[l] = {}
  /\ writer' = [writer EXCEPT ![l] = {t}]
  /\ locals(t, [pos |-> Position(Chain(t), at[t].key)])
  /\ goto(t, "held")
  /\ UNCHANGED <<buckets, node, freed, readers, _element_size, result, calls, kept>>

\* The loop on tryUpgrade and tryExclusive, and the search along the chain.
exclusive(t) ==
  LET l == LockOf(at[t].key) IN
  /\ pc[t] = "lock" /\ at[t].op # "get"
  /\ readers[l] = {} /\ writer[l] = {}
  /\ writer' = [writer EXCEPT ![l] = {t}]
  /\ locals(t, [pos |-> Position(Chain(t), at[t].key)])
  /\ goto(t, "held")
  /\ UNCHANGED <<buckets, node, freed, readers, _element_size, result, calls, kept>>

share(t) ==
  LET l == LockOf(at[t].key) IN
  /\ pc[t] = "lock" /\ at[t].op = "get"
  /\ writer[l] = {}
  /\ readers' = [readers EXCEPT ![l] = @ \cup {t}]
  /\ locals(t, [pos |-> Position(Chain(t), at[t].key)])
  /\ goto(t, "held")
  /\ UNCHANGED <<buckets, node, freed, writer, _element_size, result, calls, kept>>

\* The call holds its lock, and the search found the key.
held(t, op) == pc[t] = "held" /\ at[t].op = op
Found(t) == at[t].pos <= Len(Chain(t))
FoundNode(t) == Chain(t)[at[t].pos]

\* *p = n: the chain up to the place of the search, and then node n, whose
\* hash_next is null.
Linked(t, n) == Append(SubSeq(Chain(t), 1, at[t].pos - 1), n)

\* *p = (*p)->hash_next, for the node at a place of a chain.
Without(chain, i) == SubSeq(chain, 1, i - 1) \o SubSeq(chain, i + 1, Len(chain))

\* new HashNode at the end of the chain, and the load of _element_size.
link_new(t) ==
  /\ ~Found(t)
  /\ node' = Append(node, [key |-> at[t].key, value |-> at[t].val, used_mem |-> 0])
  /\ setChain(t, Linked(t, Len(node) + 1))
  /\ locals(t, [size |-> _element_size + 1])
  /\ goto(t, "count")

put_nolock(t) ==
  /\ held(t, "put") /\ ~intrusive
  /\ returns(t, ~Found(t), Absent)
  /\ \/ link_new(t)
     \/ Found(t) /\ goto(t, "release") /\ UNCHANGED <<buckets, node, at>>
  /\ UNCHANGED <<freed, readers, writer, _element_size, calls, kept>>

\* Swaps the values when the key is there.
exchange_nolock(t) ==
  /\ held(t, "exchange") /\ ~intrusive
  /\ \/ link_new(t) /\ returns(t, FALSE, Absent)
     \/ /\ Found(t)
        /\ node' = [node EXCEPT ![FoundNode(t)].value = at[t].val]
        /\ returns(t, TRUE, node[FoundNode(t)].value)
        /\ goto(t, "release")
        /\ UNCHANGED <<buckets, at>>
  /\ UNCHANGED <<freed, readers, writer, _element_size, calls, kept>>

get_nolock(t) ==
  /\ held(t, "get") /\ ~intrusive
  /\ returns(t, Found(t), IF Found(t) THEN node[FoundNode(t)].value ELSE Absent)
  /\ goto(t, "release")
  /\ UNCHANGED <<buckets, node, freed, at, readers, writer, _element_size, calls, kept>>

erase_nolock(t) ==
  /\ held(t, "erase") /\ ~intrusive
  /\ returns(t, Found(t), Absent)
  /\ \/ /\ Found(t)
        /\ setChain(t, Without(Chain(t), at[t].pos))
        /\ delete(FoundNode(t))
        /\ locals(t, [size |-> _element_size - 1])
        /\ goto(t, "count")
     \/ /\ ~Found(t)
        /\ goto(t, "release")
        /\ UNCHANGED <<buckets, freed, at>>
  /\ UNCHANGED <<node, readers, writer, _element_size, calls, kept>>

\* The store of ++_element_size or --_element_size.
count(t) ==
  /\ pc[t] = "count"
  /\ _element_size' = at[t].size
  /\ miscounted' = (miscounted \/ \E u \in Threads \ {t} : pc[u] = "count")
  /\ goto(t, at[t].then)
  /\ UNCHANGED <<buckets, node, freed, readers, writer, at, result, calls, fixed>>

return(t) ==
  /\ goto(t, "idle")
  /\ at' = [at EXCEPT ![t] = Idle]
  /\ result' = [result EXCEPT ![t] = Pending]

\* releaseShared() or releaseExclusive()
unlock(t, key) ==
  /\ readers' = [readers EXCEPT ![LockOf(key)] = @ \ {t}]
  /\ writer' = [writer EXCEPT ![LockOf(key)] = @ \ {t}]

release(t) ==
  /\ pc[t] = "release" /\ ~intrusive
  /\ unlock(t, at[t].key)
  /\ return(t)
  /\ UNCHANGED <<buckets, node, freed, _element_size, calls, kept>>

mapNext(t) ==
  \/ call(t) \/ share(t) \/ exclusive(t)
  \/ put_nolock(t) \/ exchange_nolock(t) \/ get_nolock(t) \/ erase_nolock(t)
  \/ count(t) \/ release(t)
-----------------------------------------------------------------------------
Quiet == \A t \in Threads : pc[t] = "idle"
InMap == UNION {{buckets[b][i] : i \in DOMAIN buckets[b]} : b \in DOMAIN buckets}

\* The value of every key, as the chains give it.
Content ==
  [k \in Keys |->
     LET ns == {n \in InMap : node[n].key = k}
     IN IF ns = {} THEN Absent ELSE node[CHOOSE n \in ns : TRUE].value]

Map == INSTANCE AtomicMap
  WITH content <- Content, forgetful <- intrusive,
       request <- [t \in Threads |-> [op |-> at[t].op, key |-> at[t].key, val |-> at[t].val]]

\* Every call takes effect at one moment, on the whole map and with the result
\* it returns, whatever chains and locks the calls share.
ImplementsAtomicMap == Map!Spec

\* No two keys of the model fall into one bucket.
NoCollision == \A j, k \in {node[n].key : n \in DOMAIN node} :
  get_bucket_idx(j) = get_bucket_idx(k) => j = k

\* size() is exact whenever no call is under way, unless two calls changed the
\* counter at once: it is an ordinary integer, which one lock for all buckets
\* protects and several do not.  (A cache also loses count where an exchange
\* cuts off the rest of a chain.)
SizeExact ==
  /\ Quiet /\ ~miscounted /\ (intrusive => NoCollision) =>
       _element_size = Cardinality(InMap)
  /\ _lock_size = 1 => ~miscounted
=============================================================================
