SPECIFICATION Spec
CONSTANTS
  Repetitions = 3
  Threshold = 10
  Times <- SomeTimes
  Cold = 1000
  SameSnapshot = TRUE
  MaxCommits = 1
INVARIANTS
  RoundsFair
  OneSnapshot
  OutliersDoNotDecide
