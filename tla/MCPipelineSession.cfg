\* Two requests on a socket whose queue holds one, or one request that may be tried
\* again: without its callback the second attempt waits as a synchronous call does.
CONSTANTS
  first = first
  second = second
  again = again
  Callers = {first, second, again}
  AsyncCallers = {first, second, again}
  Pipelines <- MCPipelines
  Retry <- MCRetry
  QueueCapacity = 1
SPECIFICATION PSpec
INVARIANTS
  PipelineCollects
PROPERTIES
  PipelineReturns
CHECK_DEADLOCK FALSE
