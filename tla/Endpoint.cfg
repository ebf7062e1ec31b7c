SPECIFICATION FairSpec
CONSTANTS
  Runs = {1, 2}
  Models = {1, 2}
  Wanted <- WriterCriticWriter
  Workspace <- SameWorkspace
  CallsEach = 2
  Attempts = 2
  ClearsFirst = {2}
  HealthChecked = {2}
  MaxFaults = 1
  MaxCrashes = 1
INVARIANTS
  AnsweredByWanted
  OneModelLoaded
  ProxyServesStarted
  IdleAfterwards
PROPERTIES
  EveryRunExits
