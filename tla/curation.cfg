\* Each runtime: an agent edits, moves, repeats and removes memories, syncs and restores.
SPECIFICATION Spec
CONSTANTS
  Runtimes = {"openclaw", "zeroclaw", "markdown", "hermes", "generic"}
  Files = {memory, note}
  Whole = {note}
  Dated = {}
  Rows = {r1, r2}
  Headings = {goals}
  x = x
  y = y
  Bodies = {x, y}
  NoHeading = noheading
  NoBody = nobody
  Store = store
  Forgotten = forgotten
  Documents = {identity, credentials}
  Identity = identity
  Credentials = credentials
  Versions = {v1}
  Nothing = nothing
  MaxTime = 2
  MaxSections = 3
  MaxEdits <- Edits
  MaxSyncs = 3
SYMMETRY BodySymmetry
CHECK_DEADLOCK FALSE
INVARIANTS
  ArchivesValidate
  CloudAgrees
  NoSyncIsRefused
PROPERTIES
  SmallestDelta
  HeadingKeepsIdentity
  RestoreBringsItBack
