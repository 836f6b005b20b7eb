\* Two loop threads, a connection on each.
CONSTANTS
  Sockets = {4, 5}
  LoopSize = 2
  ReclaimFds = {8, 9}
  MaxLate = 1
SPECIFICATION FairSpec
INVARIANTS
  InService
  HandlersAliveWhenPrompt
  NoHandlerLeft
PROPERTIES
  Reclaimed
CHECK_DEADLOCK FALSE
