CONSTANTS
  Wrappers = {a, b, tmp}
  Objects = {o1, o2}
  Blocks = {k1, k2}
  Null = Null
SPECIFICATION Spec
CHECK_DEADLOCK FALSE
SYMMETRY Symmetry
INVARIANTS
  NothingIsOrphaned
  OneOwner
