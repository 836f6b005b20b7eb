CONSTANTS
  Threads = {t1, t2}
  _td_capacity = 2
  _queue_size = 1
  MaxTasks = 2
  MaxEnds = 1
SPECIFICATION Spec
INVARIANTS
  TaskInOnePlace
  PairsKept
  NothingStranded
CHECK_DEADLOCK FALSE
SYMMETRY
  Symmetry
