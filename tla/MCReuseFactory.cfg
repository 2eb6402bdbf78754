CONSTANTS
  Slots = {p1, p2, p3}
  NodeSize = 2
  NULL = NULL
  Raw = Raw
  MaxPushes = 5
SPECIFICATION ReuseSpec
SYMMETRY Symmetry
INVARIANTS
  TypeOK
  NodesSuffice
  FlagsTellAlive
  AliveListed
  SlotsAccounted
