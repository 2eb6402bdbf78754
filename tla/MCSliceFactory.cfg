CONSTANTS
  Slabs = {s1, s2, s3, s4}
  MinLevel = 0
  MaxLevel = 1
  TopLevel = 2
  SlabUnits = 3
  NULL = NULL
  Data = Data
  Given = {0, 1}
  MaxFree = 3
SPECIFICATION Spec
SYMMETRY Symmetry
VIEW View
CHECK_DEADLOCK FALSE
INVARIANTS
  TypeOK
  HeldDisjoint
  BlocksAccounted
  ChunksAccounted
PROPERTIES
  ReusesBlocks
  FreeLeaves
