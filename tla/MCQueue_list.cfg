CONSTANTS
  NULL = NULL
  UNDEF = UNDEF
  Nodes = {n1, n2, n3, n4}
  Items = {i1, i2, i3, i4}
  Numbers = {k1, k2}
  FAILED = FAILED
SPECIFICATION Spec
SYMMETRY Symmetry
INVARIANTS ListWellFormed LastNodeIsInFront
PROPERTY ImplementsItemQueue
