CONSTANTS
  Slots = {p1, p2, p3, p4}
  NodeSize = 2
  NULL = NULL
  Raw = Raw
  MaxPushes = 4
SPECIFICATION FailingSpec
SYMMETRY Symmetry
INVARIANT
  NodesSuffice
