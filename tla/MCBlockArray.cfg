CONSTANTS
  Blocks = {b1, b2, b3, b4, b5}
  Values = {x, y}
  NULL = NULL
  Raw = Raw
  BlockCount = 2
  MinAccess = 2
  Modulus = 32
  MaxSize = 9
SPECIFICATION Spec
SYMMETRY Symmetry
INVARIANTS
  TypeOK
  NoLeaks
  ObjectsMatch
  AssertionsHold
PROPERTIES
  ElementsStay
  ImplementsList
