\* Two hosts, a captured and a tracked file, an external one.
SPECIFICATION Spec
CONSTANTS
  Hosts = {h1, h2}
  Sources = {soul}
  Notes = {note}
  Externals = {agents}
  Texts = {x}
  Gone = Gone
  Nothing = Nothing
  MaxEdits = 2
  MaxJobs = 3
  MaxKills = 1
SYMMETRY HostSymmetry
CHECK_DEADLOCK FALSE
INVARIANTS
  AddsSurvive
  ExternalsNeedConsent
  HeadMatchesBase
PROPERTIES
  RestoreRoundTrips
