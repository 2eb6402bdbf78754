CONSTANTS
  Nodes = {n1, n2, n3, n4, n5, n6, n7, n8, n9, n10, n11, n12, n13, n14}
  NULL = NULL
SPECIFICATION FairSpec
VIEW Shape
INVARIANTS
  TypeOK
  LinksConsistent
  Coloured
  Balanced
  AssertionsHold
  IteratorsWalk
  BoundsCorrect
  LoopInvariants
PROPERTIES
  PassesProgress
  CallsReturn
  ImplementsList
