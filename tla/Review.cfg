SPECIFICATION FairSpec
CONSTANTS
  Current = 1
  Archived = 2
  Names = {1, 2}
  MaxTasks = 2
  MaxVersion = 1
  MaxClicks = 2
  MaxFailures = 1
INVARIANTS
  OneRefresh
  ScreenAgrees
PROPERTIES
  SelectionKept
  ScreenFollows
