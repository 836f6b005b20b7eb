----------------------------- MODULE MCLRUCache -----------------------------
(* Two threads on two buckets, and three keys of which two collide; the       *)
(* cache starts full, so that every put makes room first.                     *)
EXTENDS LRUCache

MCFills == {<<[key |-> 2, used_mem |-> 1], [key |-> 1, used_mem |-> 1]>>}
Symmetry == Permutations(Threads)
=============================================================================
