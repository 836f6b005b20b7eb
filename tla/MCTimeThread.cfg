CONSTANTS
  Threads = {t1, t2}
  MaxTasks = 2
  MaxTime = 2
  TASK_QUEUE_SIZE = 1
  WARING_TASK_QUEUE_SIZE = 1
  MaxSleep = 2
SPECIFICATION FairSpec
INVARIANTS
  NotSleptOver
PROPERTIES
  ImplementsTimerService
  TasksLeave
CHECK_DEADLOCK FALSE
