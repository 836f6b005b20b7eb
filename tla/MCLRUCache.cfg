SPECIFICATION Spec
CONSTANTS
  Threads = {t1, t2}
  Keys = {1,2,3}
  BucketHint = 1
  LockSizes = {1, 2}
  MaxCalls = 3
  Fills <- MCFills
  MemSizes = {1, 3}
  _mem_size = 2
  SizeMax = 16
INVARIANTS
  NodesFreedOnce
  CountersExact
PROPERTIES
  ImplementsAtomicMap
CHECK_DEADLOCK FALSE
SYMMETRY Symmetry
