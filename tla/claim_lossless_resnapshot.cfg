\* Two hosts, no fault: a re-snapshot over the other host's delta.
SPECIFICATION Spec
CONSTANTS
  None = None
  Hosts = {h1, h2}
  Keys = {memory, file}
  Tracked = {file}
  Vals = {0, 1}
  Blank = 0
  Workspaces <- FreshOrUsed
  SnapshotSteps = {0}
  MaxSequence = 4
  Limits <- LimitsEdits
SYMMETRY HostSymmetry
INVARIANT ResnapshotIsLossless
