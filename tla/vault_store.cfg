\* Three commands on an install with two agents, two at a time, killed anywhere,
\* with archives made and imported beside them.
SPECIFICATION Spec
CONSTANTS
  one = one
  two = two
  Agents = {one, two}
  Legacy = legacy
  Derived = one
  p1 = p1
  p2 = p2
  p3 = p3
  Procs = {p1, p2, p3}
  mail = mail
  Names = {mail}
  LabelOf <- OneLabel
  OtherRuntime = FALSE
  CrossDevice = TRUE
  Nobody = nobody
  MaxRemaps = 1
  MaxAtOnce = 2
  Pins = {one, nobody}
SYMMETRY ProcSymmetry
CHECK_DEADLOCK FALSE
INVARIANTS
  EveryRecordOpens
  AddsSurvive
  NoSilentDuplicates
PROPERTIES
  RotationLeavesOneKey
