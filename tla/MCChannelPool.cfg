\* Two threads and two channels, or two sub channels of a pool.
CONSTANTS
  Threads = {t1, t2}
  Channels = {0, 1}
  MaxSockets = 5
  MaxCalls = 2
SPECIFICATION FairPoolSpec
INVARIANTS
  ReplacedAlone
  SingleOwnsWhatIsInUse
  SharesCounted
PROPERTIES
  OnlyDeadReplaced
  PoolCallReturns
CHECK_DEADLOCK FALSE
