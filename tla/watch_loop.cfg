SPECIFICATION FairSpec
CONSTANTS
  vault = vault
  controls = controls
  files = files
  sync = sync
  restore = restore
  add = add
  track = track
  terminal = terminal
  Sources = {vault, controls, files}
  ScanOrder <- VaultControlsFiles
  Surfaces <- WithAndWithoutFiles
  Resurfacing = {controls}
  VaultSource = vault
  Tasks = {sync, restore, add, track}
  Kind <- KindOf
  ScansPerTick = 1
  RedirtyScans = 2
  MaxVersion = 2
  Disturbances = 2
INVARIANTS
  OneOperationAtATime
  UnsyncedIsNoticed
  SurfaceChangeIsNoticed
PROPERTIES
  ChangesGetSynced
