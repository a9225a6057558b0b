CONSTANTS
  MaxId = 3
  Faults = {"mkfunction", "write_function", "link", "bind"}
SPECIFICATION Spec
INVARIANTS
  NoOrphanFunctions
  PadsAreLinked
PROPERTIES
  CleanupRecovers
  DestroyLeavesNothing
  FreshAfterInit
