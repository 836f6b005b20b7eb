-------------------------- MODULE MCIntrusiveList --------------------------
(* Two threads and three nodes: pushes alone, the operations of the cache,  *)
(* those of the unit test multiThreadPopPush, and everything that removes.  *)
EXTENDS IntrusiveList

MCScenes ==
  {[use |-> {"push_front", "push_back"}, start |-> <<"a", "b">>],
   [use |-> {"push_front", "remove", "pop_back"}, start |-> <<"a", "b">>],
   [use |-> {"push_front", "push_back", "pop_front", "pop_back"}, start |-> <<"a">>],
   [use |-> {"pop_front", "pop_back", "remove"}, start |-> <<"a", "b", "c">>]}
=============================================================================
