\* Two producers on a ring of two slots: claims collide and the ring fills up.
CONSTANTS
  Producers = {p1, p2}
  Capacity = 2
  MaxPush = 3
  Uninit = Uninit
SPECIFICATION FairSpec
INVARIANTS
  ClaimsExclusive
  FIFOWithoutOverlap
PROPERTIES
  Drained
CHECK_DEADLOCK FALSE
