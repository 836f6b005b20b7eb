--------------------------- MODULE ReadersWriter ---------------------------
(***************************************************************************)
(* What a LifeCycleLock promises the objects it guards: any number of      *)
(* readers, or one writer alone.  Each grant and each release is one step; *)
(* the word, the flags and the failing calls of the code do not show.      *)
(***************************************************************************)
CONSTANT Clients
VARIABLES readers, writers

Init == readers = {} /\ writers = {}

Share(c) ==
  /\ writers = {} /\ c \notin readers
  /\ readers' = readers \cup {c}
  /\ UNCHANGED writers

Unshare(c) ==
  /\ c \in readers
  /\ readers' = readers \ {c}
  /\ UNCHANGED writers

Own(c) ==
  /\ readers = {} /\ writers = {}
  /\ writers' = {c}
  /\ UNCHANGED readers

Disown(c) ==
  /\ writers = {c}
  /\ writers' = {}
  /\ UNCHANGED readers

Next == \E c \in Clients : Share(c) \/ Unshare(c) \/ Own(c) \/ Disown(c)

Spec == Init /\ [][Next]_<<readers, writers>>
=============================================================================
