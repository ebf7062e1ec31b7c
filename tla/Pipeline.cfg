SPECIFICATION FairSpec
CONSTANTS
  Jobs = {1, 2}
  Critics = {1, 2}
  Options <- Representatives
  MaxRetry = 2
  CriticRetuneRounds = 1
INVARIANTS
  IInv
  AcceptedPassedGates
  RetriesExhausted
  OutcomeAccounted
  ReviewedBeforeDatabase
  AssessmentMatchesOutcome
  FeedbackAboutCandidate
PROPERTIES
  FailedRewriteKeepsCandidate
  PassedJobFrozen
  Termination
  ReleasesAsPromised
