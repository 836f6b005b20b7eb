----------------------------- MODULE AtomicMap -----------------------------
(***************************************************************************)
(* What ConcurrentHashMap and LRUCache promise the threads that use them:  *)
(* a map from keys to values in which every call takes effect at once,     *)
(* with the result the call returns.  A cache may forget a key at any      *)
(* moment and may refuse a put; a map may do neither.                      *)
(***************************************************************************)
CONSTANTS Threads, Keys, Values, Absent
VARIABLES content,   \* the value of every key, Absent when there is none
          request,   \* what a thread called: [op, key, val]
          result,    \* what its call has come to: [done, ret, val]
          forgetful  \* TRUE for a cache

Pending == [done |-> FALSE, ret |-> FALSE, val |-> Absent]
Idle == [op |-> "none", key |-> Absent, val |-> Absent]

Init ==
  /\ content \in [Keys -> Values \cup {Absent}]
  /\ request = [t \in Threads |-> Idle]
  /\ result = [t \in Threads |-> Pending]

Call(t) ==
  /\ request[t] = Idle
  /\ \E op \in {"put", "exchange", "get", "erase"}, k \in Keys, v \in Values \cup {Absent} :
       request' = [request EXCEPT ![t] = [op |-> op, key |-> k, val |-> v]]
  /\ UNCHANGED <<content, result, forgetful>>

\* The one step in which a call looks at the map and changes it.
Effect(t) ==
  LET c == request[t]
      old == content[c.key]
      there == old # Absent
      returns(b, v) == result' = [result EXCEPT ![t] = [done |-> TRUE, ret |-> b, val |-> v]]
      \* the other keys stay, except those that a cache forgets
      becomes(v) == \E S \in IF forgetful THEN SUBSET (Keys \ {c.key}) ELSE {{}} :
        content' = [k \in Keys |-> IF k = c.key THEN v
                                   ELSE IF k \in S THEN Absent ELSE content[k]]
  IN /\ c # Idle /\ ~result[t].done
     /\ \/ c.op = "get" /\ returns(there, old) /\ UNCHANGED content
        \/ c.op = "put" /\ ~there /\ returns(TRUE, Absent) /\ becomes(c.val)
        \/ c.op = "put" /\ (there \/ forgetful) /\ returns(FALSE, Absent) /\ UNCHANGED content
        \/ c.op = "exchange" /\ returns(there, IF forgetful THEN Absent ELSE old) /\ becomes(c.val)
        \/ c.op = "erase" /\ returns(there, Absent) /\ becomes(Absent)
     /\ UNCHANGED <<request, forgetful>>

Return(t) ==
  /\ result[t].done
  /\ request' = [request EXCEPT ![t] = Idle]
  /\ result' = [result EXCEPT ![t] = Pending]
  /\ UNCHANGED <<content, forgetful>>

Forget ==
  /\ forgetful
  /\ \E S \in SUBSET Keys : content' = [k \in Keys |-> IF k \in S THEN Absent ELSE content[k]]
  /\ UNCHANGED <<request, result, forgetful>>

Next == Forget \/ \E t \in Threads : Call(t) \/ Effect(t) \/ Return(t)

Spec == Init /\ [][Next]_<<content, request, result, forgetful>>
=============================================================================
