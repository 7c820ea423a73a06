\* discovery.rs:39-42, a discovery of one runtime never takes another's row.
SPECIFICATION Spec
CONSTANTS
  None = None
  alpha = alpha
  beta = beta
  gamma = gamma
  legacy = legacy
  Aliases = {alpha, beta}
  DefaultAlias = alpha
  Declared <- DeclaresNone
  Shared = beta
  HandNamed = {}
  StateIds = {legacy}
  Keys = {key}
  Procs = {p}
  MaxAgents = 2
  MaxRows = 1
  MaxGestures = 1
  MaxRuns = 3
CHECK_DEADLOCK FALSE
PROPERTIES
  ForeignRowsSurvive
