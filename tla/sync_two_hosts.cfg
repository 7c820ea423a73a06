\* Two hosts of one agent; a process is killed, a machine comes back empty,
\* or an upload whose client gave up arrives late.
SPECIFICATION Spec
CONSTANTS
  None = None
  Hosts = {h1, h2}
  Keys = {memory, file}
  Tracked = {file}
  Vals = {0, 1}
  Blank = 0
  Workspaces <- FreshOrUsed
  SnapshotSteps = {0}
  MaxSequence = 2
  Limits <- LimitsTwoHosts
SYMMETRY HostSymmetry
INVARIANTS
  TypeOK
  CursorNamesBase
  NoSyncOfTornWorkspace
  UploadsOnlyLocalEdits
  CursorWithinHistory
  FirstUploadContinuesOwnHistory
  AcceptedDeltaFits
PROPERTIES
  PublishedSpec
