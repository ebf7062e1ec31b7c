SPECIFICATION Spec
CONSTANTS
  a = a
  b = b
  Row = {a, b}
  Contents <- OneContent
  Pairs <- HintPairs
  ValidationRowLimit = 2
  FetchSize = 2
  SameSnapshot = TRUE
  MaxCommits = 0
INVARIANTS
  HintsRejected
