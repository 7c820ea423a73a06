SPECIFICATION Spec
CONSTANTS
  Runtimes <- MCRuntimes
  Lists <- MCLists
  MaxEdits = 2
INVARIANTS
  ExportsAreWatched
  TrackedEditsKeepCadence
PROPERTIES
  RefreshesSettle
