SPECIFICATION Spec
CONSTANTS
  Catalog <- SomeCatalog
  TableLists <- SomeTableLists
  DependencyLists <- SomeDependencyLists
  TokenLimits = {0, 1, 4}
  PromptTokens = 2
  ContextSize = 7
  Safety = 1
  MinOutput = 2
  Attempts = 2
  MaxBlocks = 2
INVARIANTS
  ContextComplete
  AnswerFits
  DecisionEarned
PROPERTIES
  OneAnswerCounts
  CallEnds
