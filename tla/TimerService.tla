---------------------------- MODULE TimerService ----------------------------
(***************************************************************************)
(* What TimeThread promises its callers.  A task that was accepted leaves  *)
(* exactly once: it runs, never before its time unless the service is      *)
(* being closed, or it is dropped because somebody asked for that.  Asking *)
(* gives no guarantee: a task that was asked to be dropped may still run.  *)
(***************************************************************************)
EXTENDS Naturals

CONSTANTS Ids, Times
VARIABLES now, closed, at, pending, used, asked, runs

Init ==
  /\ now = 0 /\ closed = FALSE
  /\ at = [id \in Ids |-> 0]
  /\ pending = {} /\ used = {} /\ asked = {}
  /\ runs = [id \in Ids |-> 0]

Accept(id, t) ==
  /\ id \notin used /\ ~closed
  /\ used' = used \cup {id}
  /\ pending' = pending \cup {id}
  /\ at' = [at EXCEPT ![id] = t]
  /\ UNCHANGED <<now, closed, asked, runs>>

AskToDrop(id) ==
  /\ id \in used
  /\ asked' = asked \cup {id}
  /\ UNCHANGED <<now, closed, at, pending, used, runs>>

Drop(S) ==
  /\ S \subseteq pending \cap asked
  /\ pending' = pending \ S
  /\ UNCHANGED <<now, closed, at, used, asked, runs>>

Due(id) == id \in pending /\ (at[id] <= now \/ closed)

Run(id) ==
  /\ Due(id)
  /\ pending' = pending \ {id}
  /\ runs' = [runs EXCEPT ![id] = @ + 1]
  /\ UNCHANGED <<now, closed, at, used, asked>>

Pass == now' = now + 1 /\ UNCHANGED <<closed, at, pending, used, asked, runs>>

Close == closed' = TRUE /\ UNCHANGED <<now, at, pending, used, asked, runs>>

Next ==
  \/ \E id \in Ids : AskToDrop(id) \/ Run(id) \/ \E t \in Times : Accept(id, t)
  \/ \E S \in SUBSET Ids : Drop(S)
  \/ Pass \/ Close

Spec == Init /\ [][Next]_<<now, closed, at, pending, used, asked, runs>>

\* A task whose time has come does not wait for ever.
Punctual == \A id \in Ids : Due(id) ~> id \notin pending
=============================================================================
