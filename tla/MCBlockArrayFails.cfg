CONSTANTS
  Blocks = {b1, b2, b3}
  Values = {x}
  NULL = NULL
  Raw = Raw
  BlockCount = 2
  MinAccess = 2
  Modulus = 32
  MaxSize = 9
SPECIFICATION FailingSpec
INVARIANT
  ElementsReachable
