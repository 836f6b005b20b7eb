\* Three clients: an owner, a sharer and a rival.
CONSTANTS
  Clients = {c1, c2, c3}
  MaxTries = 2
SPECIFICATION FairSpec
INVARIANTS
  ShareCountExact
PROPERTIES
  UpgradeDrains
  ImplementsReadersWriter
CHECK_DEADLOCK FALSE
