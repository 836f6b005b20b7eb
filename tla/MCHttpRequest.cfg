CONSTANTS
  Hosts <- MCHosts
  STR_MAX_SIZE = 3
  Beginnings <- MCBeginnings
  Alphabet <- MCAlphabet
  MaxTyped = 3
  MaxPeer = 2
  Letters <- MCLetters
SPECIFICATION Spec
CHECK_DEADLOCK FALSE
INVARIANTS
  RequestUnderstood
  SlicingIrrelevant
  MethodsExact
  ParsersAgree
  PiecesWhole
