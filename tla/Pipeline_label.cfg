SPECIFICATION Spec
CONSTANTS
  Jobs = {1}
  Critics = {1}
  Options <- FileMode
  MaxRetry = 1
  CriticRetuneRounds = 1
INVARIANT OracleLabelEarned
