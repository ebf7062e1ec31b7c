SPECIFICATION Spec
CONSTANTS
  Runs = {1, 2, 3}
  Directories <- SomeDirectories
  Input = "tmp"
  Output = "approved"
  Names = {"run-1", "run-2"}
INVARIANTS
  StaleNotMistaken
  ArchivedWhole
PROPERTIES
  KeptAsPromised
