\* A synchronous and an asynchronous call on one socket, whose pushes may overlap.
CONSTANTS
  Callers = {sync, async}
  AsyncCallers = {async}
  sync = sync
  async = async
  Retry <- MCRetry
  QueueCapacity = 2
SPECIFICATION Spec
INVARIANTS
  DeliveredOnce
  DanglesOnlyLate
  AnswerFindsSession
CHECK_DEADLOCK FALSE
