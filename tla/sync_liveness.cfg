\* One host, finitely many faults of every kind it should survive.
SPECIFICATION FairSpec
CONSTANTS
  None = None
  Hosts = {h1}
  Keys = {memory, file}
  Tracked = {file}
  Vals = {0, 1}
  Blank = 0
  Workspaces <- FreshOrUsed
  SnapshotSteps = {0, 1}
  MaxSequence = 9
  Limits <- LimitsOneHost
PROPERTIES
  ChangesReachTheBase
  InterruptedRestoreCompletes
