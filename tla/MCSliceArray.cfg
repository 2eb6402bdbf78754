CONSTANTS
  Slabs = {s1, s2, s3}
  MinLevel = 1
  MaxLevel = 2
  TopLevel = 2
  SlabUnits = 4
  NULL = NULL
  Data = Data
  Arrays = {a1, a2}
  Values = {x, y}
  Empty = Empty
  Tollerance = 1
  MaxCount = 3
SPECIFICATION ArraySpec
SYMMETRY Symmetry
VIEW View
INVARIANT
  ChunksOfArrays
PROPERTY
  ImplementsArrays
