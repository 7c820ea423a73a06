\* A row takes a new text while another has its old one.
SPECIFICATION Spec
CONSTANTS
  Runtimes = {"zeroclaw"}
  Files = {memory, note}
  Whole = {note}
  Dated = {}
  Rows = {r1, r2}
  Headings = {goals}
  x = x
  y = y
  Bodies = {x, y}
  NoHeading = noheading
  NoBody = nobody
  Store = store
  Forgotten = forgotten
  Documents = {identity, credentials}
  Identity = identity
  Credentials = credentials
  Versions = {v1}
  Nothing = nothing
  MaxTime = 2
  MaxSections = 3
  MaxEdits <- Edits
  MaxSyncs = 3
SYMMETRY BodySymmetry
CHECK_DEADLOCK FALSE
INVARIANT RowsPairById
