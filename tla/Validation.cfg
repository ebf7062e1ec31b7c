SPECIFICATION Spec
CONSTANTS
  a = a
  b = b
  Row = {a, b}
  Contents <- SomeContents
  Pairs <- SomePairs
  ValidationRowLimit = 2
  FetchSize = 2
  SameSnapshot = TRUE
  MaxCommits = 1
INVARIANTS
  VerdictSound
  RejectionJustified
  OnlyCheckedSqlRuns
