\* Two sources, a vault source and a tracked one, and every kind of failure.
SPECIFICATION FairSpec
CONSTANTS
  Sources = {vault, files}
  TrackedSources = {files}
  ToolSources = {vault}
  Window = 1
  Cadences <- FastOrSlow
  MaxInterval = 2
  BackoffBase = 1
  BackoffCap = 3
  BackoffSteps = 2
  AuthBudget = 3
  PanicBudget = 3
  MaxCount = 4
  Allowance <- AllowSome
INVARIANTS
  TypeOK
  ToldChangesStayDirty
  RecoversOnceThenParks
  NoHotLoop
PROPERTIES
  DirtySourcesAreSynced
  SchedulerPromises
