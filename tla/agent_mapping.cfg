\* Two alf processes beside a user who creates, renames, deletes and toggles agents.
SPECIFICATION Spec
CONSTANTS
  None = None
  alpha = alpha
  beta = beta
  gamma = gamma
  legacy = legacy
  Aliases = {alpha, beta, gamma}
  DefaultAlias = alpha
  Declared <- DeclaresOne
  Shared = beta
  HandNamed = {beta}
  StateIds = {legacy}
  Keys = {key}
  Procs = {p, q}
  MaxAgents = 2
  MaxRows = 1
  MaxGestures = 2
  MaxRuns = 3
SYMMETRY ProcSymmetry
CHECK_DEADLOCK FALSE
INVARIANTS
  DiscoverySettles
  SelectionFollowsDiscovery
PROPERTIES
  RestoreTouchesOneSlice
