SPECIFICATION Spec
CONSTANTS
    BlockSize = 4
    HeaderSize = 2
    MAX_BOLT_BODY_SIZE = 64
    Calls <- MCCalls
    Protocols = {"BOLT", "HTTP"}
    DataTypes <- MCDataTypes
    Responses <- MCResponses
    MIN_ONCE_READ = 3
    ReadSizes = {1, 3}
    WriteSizes <- MCWriteSizes
    MaxEagain = 1
INVARIANTS
  StreamsWhole
  AnswersOwn
  NothingLeftBehind
CHECK_DEADLOCK FALSE
