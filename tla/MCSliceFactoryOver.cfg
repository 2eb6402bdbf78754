CONSTANTS
  Slabs = {s1, s2, s3}
  MinLevel = 0
  MaxLevel = 1
  TopLevel = 2
  SlabUnits = 3
  NULL = NULL
  Data = Data
  Given = {0, 1, 2}
  MaxFree = 2
SPECIFICATION Spec
SYMMETRY Symmetry
CHECK_DEADLOCK FALSE
PROPERTY
  ReleasesAll
